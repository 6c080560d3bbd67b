---------------------------- MODULE Segmentation ----------------------------
(***************************************************************************)
(* From the text of a source to the C-items made of it: the chunker cuts   *)
(* paragraphs to a number of tokens, the source worker looks each chunk up *)
(* in the text and stores where it stands, and the semantic worker reads   *)
(* that place again, cuts it into EDUs and joins these into C-items.  What *)
(* the last sees is the place, never the chunk.  A text is a sequence of   *)
(* clauses, each with the white space before it; a clause counts as one    *)
(* place, so an offset is a number of clauses.                             *)
(***************************************************************************)
EXTENDS Naturals, Sequences, FiniteSets
LOCAL INSTANCE SequencesExt
LOCAL INSTANCE FiniteSetsExt
LOCAL INSTANCE Functions
LOCAL INSTANCE TLC

CONSTANTS
  MaxTokens, MinTokens,  \* of a chunk
  ItemTokens,            \* of a C-item with more than one clause
  FewTokens              \* of a heading that is a context

\* White space: within a line, a line break, more than one blank, an empty
\* line, more than one, and a page marker on a line of its own.
Gaps == {"blank", "line", "wide", "para", "void", "page"}
EmptyLine == {"para", "void", "page"}

\* A clause ends with . ! or ?, with ; or :, or with nothing of the kind.
Clause(text, tokens, end, form, traits) ==
  [text |-> text, tokens |-> tokens, end |-> end, form |-> form, traits |-> traits]

TokensOf(doc, piece) == FoldLeft(LAMBDA n, u : n + doc[u.at].tokens, 0, piece)
Places(piece) == {u.at : u \in Range(piece)}

-----------------------------------------------------------------------------
(* The chunker *)

Starts(doc) == {i \in DOMAIN doc : i = 1 \/ doc[i].gap \in EmptyLine}
EndOf(doc, a) == Max({b \in a .. Len(doc) : \A i \in a + 1 .. b : i \notin Starts(doc)})

\* The clauses of a stretch of the text with the space between them.
Stretch(doc, a, b) == [i \in 1 .. b - a + 1 |-> [at |-> a + i - 1, gap |-> doc[a + i - 1].gap]]
Led(gap, piece) == [piece EXCEPT ![1].gap = gap]

Paragraphs(doc) ==
  LET starts == SetToSortSeq(Starts(doc), <)
  IN  [n \in DOMAIN starts |-> Stretch(doc, starts[n], EndOf(doc, starts[n]))]

\* Mostly numbers: such a chunk is left out.
IsNoise(doc, piece) ==
  2 * TokensOf(doc, SelectSeq(piece, LAMBDA u : "NUMBERS" \in doc[u.at].traits)) > TokensOf(doc, piece)

Flush(doc, out, piece) == IF piece = <<>> \/ IsNoise(doc, piece) THEN out ELSE Append(out, piece)

\* Sentences end at . ! and ? and lose the space around them.
Sentences(doc, piece) ==
  FoldLeft(LAMBDA acc, u :
             IF acc # <<>> /\ doc[Last(Last(acc)).at].end # "full"
               THEN [acc EXCEPT ![Len(acc)] = Append(@, u)]
               ELSE Append(acc, <<u>>), <<>>, piece)

After(buffer, gap, piece) == IF buffer = <<>> THEN piece ELSE buffer \o Led(gap, piece)

TakeSentence(doc, acc, sentence) ==
  LET trial == After(acc.buffer, "blank", sentence)
      out == Flush(doc, acc.out, acc.buffer)
  IN  IF TokensOf(doc, trial) <= MaxTokens THEN [acc EXCEPT !.buffer = trial]
      ELSE IF TokensOf(doc, sentence) > MaxTokens
        THEN [out |-> Flush(doc, out, sentence), buffer |-> <<>>]
      ELSE [out |-> out, buffer |-> sentence]

\* A paragraph too long for a buffer that is too short is cut at its sentences.
TakeParagraph(doc, acc, para) ==
  LET candidate == After(acc.buffer, "para", para)
  IN  IF TokensOf(doc, candidate) <= MaxTokens THEN [acc EXCEPT !.buffer = candidate]
      ELSE IF acc.buffer # <<>> /\ TokensOf(doc, acc.buffer) >= MinTokens
        THEN [out |-> Flush(doc, acc.out, acc.buffer), buffer |-> para]
      ELSE FoldLeft(LAMBDA a, s : TakeSentence(doc, a, s), [acc EXCEPT !.buffer = <<>>],
                    Sentences(doc, After(acc.buffer, "blank", para)))

Chunks(doc) ==
  LET acc == FoldLeft(LAMBDA a, p : TakeParagraph(doc, a, p), [out |-> <<>>, buffer |-> <<>>], Paragraphs(doc))
  IN  Flush(doc, acc.out, acc.buffer)

-----------------------------------------------------------------------------
(* Where a chunk stands *)

\* The chunk's text, as it is, begins after this many clauses.
Stands(doc, piece, from) ==
  /\ from + Len(piece) <= Len(doc)
  /\ \A i \in DOMAIN piece :
       /\ doc[from + i].text = doc[piece[i].at].text
       /\ i > 1 => doc[from + i].gap = piece[i].gap

FoundAnywhere(doc, piece, cursor) == {from \in 0 .. Len(doc) : Stands(doc, piece, from)}
Found(doc, piece, cursor) == {from \in cursor .. Len(doc) : Stands(doc, piece, from)}

\* A chunk that is not in the text is given the place after the last one found.
Span(doc, piece, cursor) ==
  LET after == Found(doc, piece, cursor)
      anywhere == Found(doc, piece, 0)
      at(from) == [from |-> from, to |-> from + Len(piece), found |-> TRUE]
  IN  IF after # {} THEN at(Min(after))
      ELSE IF anywhere # {} THEN at(Min(anywhere))
      ELSE [from |-> cursor, to |-> Min({Len(doc), cursor + Len(piece)}), found |-> FALSE]

Spans(doc, chunks) ==
  FoldLeft(LAMBDA acc, c :
             LET s == Span(doc, c, acc.cursor)
             IN  [spans |-> Append(acc.spans, s), cursor |-> IF s.found THEN s.to ELSE acc.cursor],
           [spans |-> <<>>, cursor |-> 0], chunks).spans

-----------------------------------------------------------------------------
(* EDUs *)

\* The stretches between the clauses where one is to be cut.
Cut(from, to, cuts) ==
  LET starts == {i \in from + 1 .. to : i = from + 1 \/ i \in cuts}
  IN  [n \in 1 .. Cardinality(starts) |->
         LET a == SetToSortSeq(starts, <)[n]
         IN  [from |-> a - 1,
              to |-> IF n = Cardinality(starts) THEN to ELSE SetToSortSeq(starts, <)[n + 1] - 1]]

As(kind, stretches) == [n \in DOMAIN stretches |-> [kind |-> kind] @@ stretches[n]]

Forms(doc, from, to) == {doc[i].form : i \in from + 1 .. to}

\* One block of the text that was read back, between empty lines.
Block(doc, b) ==
  LET lines == Cut(b.from, b.to, {i \in DOMAIN doc : doc[i].gap = "line"})
      begins(form) == {n \in DOMAIN lines : doc[lines[n].from + 1].form = form}
  IN  IF Len(lines) = 1 /\ b.to = b.from + 1 /\ doc[b.to].form = "heading" THEN As("heading", lines)
      ELSE IF begins("list") = DOMAIN lines THEN As("list_item", lines)
      ELSE IF begins("row") # {} /\ Len(lines) > 1 THEN As("table_row", lines)
      ELSE IF "code" \in Forms(doc, b.from, b.to) THEN As("code_block", <<b>>)
      ELSE As("prose_clause", Cut(b.from, b.to, {i \in DOMAIN doc : i > 1 /\ doc[i - 1].end # "none"}))

Segment(doc, span) ==
  FlattenSeq([n \in DOMAIN Cut(span.from, span.to, Starts(doc)) |->
                Block(doc, Cut(span.from, span.to, Starts(doc))[n])])

-----------------------------------------------------------------------------
(* C-items *)

TraitsOf(doc, edu) == UNION {doc[i].traits : i \in edu.from + 1 .. edu.to}
EduTokens(doc, edu) == FoldLeft(LAMBDA n, i : n + doc[i].tokens, 0, [k \in 1 .. edu.to - edu.from |-> edu.from + k])
EdusTokens(doc, edus) == FoldLeft(LAMBDA n, e : n + EduTokens(doc, e), 0, edus)

\* It begins with a connector or names its source.
Leans(doc, edu) == TraitsOf(doc, edu) \cap {"CONNECTOR", "ATTRIBUTION"} # {}

IsComplete(doc, edu) ==
  \/ doc[edu.to].end = "full"
  \/ TraitsOf(doc, edu) \cap {"QUESTION", "DECISION", "CONSTRAINT"} # {}
  \/ edu.kind \in {"list_item", "heading", "code_block", "table_row"}

ShouldJoin(doc, previous, edu) ==
  \/ Leans(doc, edu)
  \/ previous.kind = "heading"
  \/ doc[previous.to].end # "full"

NextRequiresJoin(doc, edus, n) == n < Len(edus) /\ Leans(doc, edus[n + 1])

\* A heading waits for the next item that is begun.
Begun(acc, edu) == [acc EXCEPT !.current = @ \o acc.heading \o <<edu>>, !.heading = <<>>]
Flushed(acc) ==
  IF acc.current = <<>> THEN acc ELSE [acc EXCEPT !.built = Append(@, acc.current), !.current = <<>>]

TakeEdu(doc, edus, acc, n) ==
  LET edu == edus[n]
      joins == /\ ShouldJoin(doc, Last(acc.current), edu)
               /\ EdusTokens(doc, Append(acc.current, edu)) <= ItemTokens
      next == IF acc.current = <<>> THEN Begun(acc, edu)
              ELSE IF joins THEN [acc EXCEPT !.current = Append(@, edu)]
              ELSE Begun(Flushed(acc), edu)
  IN  IF edu.kind = "heading" THEN [acc EXCEPT !.heading = <<edu>>]
      ELSE IF IsComplete(doc, edu) /\ ~NextRequiresJoin(doc, edus, n) THEN Flushed(next)
      ELSE next

Build(doc, edus) ==
  LET acc == FoldLeft(LAMBDA a, n : TakeEdu(doc, edus, a, n),
                      [built |-> <<>>, current |-> <<>>, heading |-> <<>>], [n \in DOMAIN edus |-> n])
      done == Flushed(acc)
  IN  IF done.heading = <<>> THEN done.built ELSE Append(done.built, done.heading)

\* The first of these that the item is; a heading with few words is a context.
Precedence ==
  <<"QUESTION", "CONSTRAINT", "DECISION", "DEFINITION", "RISK", "PLAN_STEP", "ATTRIBUTION",
    "CODE_ARTIFACT", "HEDGED_FACT", "EVALUATION", "FACT", "CONTEXT">>

Classify(doc, item) ==
  LET traits == UNION {TraitsOf(doc, e) : e \in Range(item)}
                  \cup (IF \E e \in Range(item) : e.kind = "code_block" THEN {"CODE_ARTIFACT"} ELSE {})
                  \cup (IF item[1].kind = "heading" /\ EdusTokens(doc, item) <= FewTokens THEN {"CONTEXT"} ELSE {"FACT"})
  IN  Precedence[Min({n \in DOMAIN Precedence : Precedence[n] \in traits})]

-----------------------------------------------------------------------------
(* Summaries *)

Salience ==
  [DECISION |-> 95, CONSTRAINT |-> 98, DEFINITION |-> 85, FACT |-> 72, HEDGED_FACT |-> 55,
   CONTEXT |-> 45, QUESTION |-> 40, PLAN_STEP |-> 68, RISK |-> 78, EVALUATION |-> 40,
   ATTRIBUTION |-> 35, CODE_ARTIFACT |-> 70]

\* The first three of each type.
Shown(types) ==
  LET order == SetToSortSeq(DOMAIN types, LAMBDA a, b :
                 \/ Salience[types[a]] > Salience[types[b]]
                 \/ Salience[types[a]] = Salience[types[b]] /\ a > b)
      bucket(t) == SelectSeq(order, LAMBDA i : types[i] = t)
  IN  UNION {Range(SubSeq(bucket(t), 1, Min({3, Len(bucket(t))}))) : t \in Range(types)}
-----------------------------------------------------------------------------
(* Properties *)

\* The EDUs of each chunk's place, and whether every chunk still has the white
\* space of the text and none was left out as noise.
Read(doc) ==
  LET chunks == Chunks(doc)
      spans == Spans(doc, chunks)
  IN  [edus |-> [n \in DOMAIN spans |-> Segment(doc, spans[n])],
       whole |-> /\ \A c \in Range(chunks) : Stands(doc, c, c[1].at - 1)
                 /\ UNION {Places(c) : c \in Range(chunks)} = DOMAIN doc]

\* No chunk is longer than it may be but for a single sentence, or a paragraph
\* that came upon a full buffer and is never cut; when the chunks are the text
\* with its white space, repetitions or not, the EDUs are the text, clause by clause
\* and in order, and each is in exactly one C-item, save a heading which another
\* heading follows; and what a summary does not show has three of its kind in it.
TextReachesMemory(doc) ==
  /\ \A c \in Range(Chunks(doc)) :
       TokensOf(doc, c) <= MaxTokens \/ Len(Sentences(doc, c)) = 1 \/ c \in Range(Paragraphs(doc))
  /\ Read(doc).whole =>
       LET read == Read(doc).edus
           edus == FlattenSeq(read)
           items == FlattenSeq([n \in DOMAIN read |-> Build(doc, read[n])])
           kept == FlattenSeq(items)
           types == [n \in DOMAIN items |-> Classify(doc, items[n])]
           shown == Shown(types)
       IN  /\ edus # <<>> /\ edus[1].from = 0 /\ Last(edus).to = Len(doc)
           /\ \A n \in 2 .. Len(edus) : edus[n].from = edus[n - 1].to
           /\ \A n \in DOMAIN edus :
                \/ Cardinality({m \in DOMAIN kept : kept[m] = edus[n]}) = 1
                \/ edus[n].kind = "heading" /\ \E m \in n + 1 .. Len(edus) : edus[m].kind = "heading"
           /\ \A n \in DOMAIN types \ shown :
                Cardinality({m \in shown : types[m] = types[n]}) = 3
=============================================================================
