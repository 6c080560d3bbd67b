---------------------------- MODULE MCAnswerTurn ----------------------------
(* One turn over a document, an earlier answer of the assistant that still   *)
(* has its markers in brackets, and a summary that is built a second time.   *)
EXTENDS AnswerTurn, TLC

CONSTANTS doc, earlier, question, node

MCSingle == [i \in {doc, earlier, question, node} |->
               IF i = earlier THEN {S(2)} ELSE {}]
MCGrouped == [i \in {doc, earlier, question, node} |->
                IF i = earlier THEN {S(1), S(2)} ELSE {}]
MCEffective == 1 :> {doc} @@ 2 :> {doc, earlier}

Block(kind, cites) == [kind |-> kind, cites |-> cites]
Claim(cites) == Block("claim", cites)

\* Nothing, one block and up to four.
MCAnswers ==
  {Nothing,
   1 :> Claim({S(1), S(2)}),
   1 :> Claim({}) @@ 2 :> Claim({P1}),
   1 :> Block("abstain", {S(2)}),
   1 :> Block("frame", {}) @@ 2 :> Claim({S(1)}) @@ 3 :> Block("short", {}) @@ 4 :> Block("closer", {}),
   1 :> Block("closer", {S(1)}) @@ 2 :> Block("meta", {S(1)}),
   1 :> Block("abstain", {}) @@ 2 :> Claim({S(2), P1}) @@ 3 :> Block("frame", {S(2)})}

-----------------------------------------------------------------------------
(* Retrievals, as functions of a scenario: nine items, of which 2 says the   *)
(* same as 1, 5 and 9 are global, 6 is a decision, 7 is flagged and 8 is     *)
(* archived in another conversation and reached by its dependants only.      *)
R == INSTANCE Retrieval WITH MinKept <- 2

Item(type, tokens, words, deps) ==
  [type |-> type, scope |-> "episodic", active |-> TRUE, flagged |-> FALSE, here |-> TRUE,
   tokens |-> tokens, words |-> words, deps |-> deps]

Lib ==
  <<Item("FACT", 2, {"a", "b"}, {}), Item("FACT", 3, {"a", "b"}, {8}), Item("FACT", 4, {"c"}, {6, 8}),
    Item("DERIVED", 2, {"b", "c"}, {7}),
    [Item("OBSERVATION", 3, {"a", "c"}, {}) EXCEPT !.scope = "global", !.here = FALSE],
    Item("DECISION", 3, {"d"}, {}), [Item("FACT", 2, {"a", "d"}, {1}) EXCEPT !.flagged = TRUE],
    [Item("FACT", 1, {"e"}, {}) EXCEPT !.active = FALSE, !.here = FALSE],
    [Item("FACT", 5, {"c", "e"}, {3}) EXCEPT !.scope = "global", !.here = FALSE]>>

Orders == {<<1, 2, 3, 4, 5, 6, 7, 8, 9>>, <<9, 4, 7, 5, 3, 2, 1, 6, 8>>, <<5, 3, 6, 1, 9, 7, 4, 2, 8>>}
Reranks == {<<900, 880, 300, 500, 100, 20, 700, 0, 600>>, <<100, 200, 950, 900, 500, 0, 50, 10, 940>>}

Hops ==
  [words : {{"a", "c"}}, order : Orders, dense : {<<800, 780, 500, 650, 400, 300, 700, 50, 600>>},
   rerank : Reranks, up : BOOLEAN]

Seconds == {h \in Hops : h.order[1] = 9 /\ h.rerank[1] = 900}

Plans ==
  {[k |-> 5, top |-> 4, seeds |-> 2, expand |-> TRUE, threshold |-> 100, type |-> "MULTI_HOP"],
   [k |-> 10, top |-> 10, seeds |-> 4, expand |-> FALSE, threshold |-> 60, type |-> "GLOBAL_SYNTHETIC"]}

Scenarios ==
  [lib : {Lib}, hops : {<<h>> : h \in Hops} \cup {<<h, h, g>> : h \in Hops, g \in Seconds},
   depth : {3}, query : {{}, {"a", "c"}}, plan : Plans, budget : {8, 40}, procedure : {0, 3},
   exclude : {{}, {1, 8}}, failed : {{}, {1}}, late : {"up"}, near : {{1, 3, 4, 6, 7, 8}},
   tops : {<<[words |-> {"c"}, tokens |-> 4], [words |-> {"d"}, tokens |-> 1], [words |-> {"a"}, tokens |-> 3]>>},
   history : {{4}}, objective : {{"c"}}]

-----------------------------------------------------------------------------
(* A world to hand over from: conversation "here" with items that share a    *)
(* source, a promoted item and one promoted elsewhere, an item "o1" of       *)
(* another conversation, points without rows, and summaries of both kinds.   *)
H == INSTANCE Handoff
None == H!None

Old(name) == <<0, name>>
Row(name, conv) == [id |-> Old(name), conv |-> conv, text |-> name]
Proof(item, ordinal, source, span) ==
  [id |-> <<Old(item), ordinal>>, item |-> Old(item), ordinal |-> ordinal,
   source |-> Old(source), span |-> IF span = "" THEN None ELSE Old(span)]
Point(name, conv, scope, deps) ==
  [id |-> Old(name), conv |-> conv, scope |-> scope, deps |-> deps, text |-> name]
Origin(of, kind, origin) ==
  [id |-> <<Old(of), kind, Old(origin)>>, summary |-> Old(of), kind |-> kind, origin |-> Old(origin)]
Link(at, from, to, toId) ==
  [id |-> <<Old(from), Old(toId)>>, conv |-> Old("here"), kind |-> "citem", from |-> Old(from),
   to |-> to, toId |-> Old(toId), ordinal |-> 0, at |-> at]
here == Old("here")
there == Old("there")
World ==
  [conversations |-> {[id |-> here], [id |-> there]},
   memory |-> {[id |-> c, conv |-> c, busy |-> TRUE, plan |-> None] : c \in {here, there}},
   plans |-> {[id |-> Old("plan"), conv |-> here, status |-> "completed"]},
   sources |-> {Row("A", here), Row("B", here), Row("F", there)},
   spans |-> {Row("a1", here) @@ [source |-> Old("A")], Row("a2", here) @@ [source |-> Old("A")],
              Row("f1", there) @@ [source |-> Old("F")]},
   locals |-> {Row("d1", here), Row("d2", here), Row("o1", there)},
   evidence |-> {Proof("d1", 0, "A", "a1"), Proof("d1", 1, "A", "a1"), Proof("d2", 0, "B", ""),
                 Proof("o1", 0, "F", "f1")},
   globals |-> {Row("g1", here) @@ [origin |-> Old("d1")], Row("g2", there) @@ [origin |-> Old("o1")]},
   gevidence |-> {Proof("g1", 0, "A", "a1"), Proof("g2", 0, "F", "f1")},
   points |-> {Point(i, here, "episodic", {}) : i \in {"d1", "d2", "p2", "p3"}}
              \cup {Point(i, here, "global", {}) : i \in {"g1", "g2"}}
              \cup {Point("p1", here, "episodic", {Old("d1"), Old("d2")}), Point("o1", there, "episodic", {})},
   edges |-> {Link(1, "p1", "source", "A"), Link(2, "p1", "span", "a1"), Link(3, "p1", "span", "a2"),
              Link(4, "p1", "citem", "d1"), Link(5, "d2", "source", "B"), Link(6, "p2", "span", "a2")},
   summaries |-> {Row("s1", here)},
   origins |-> {Origin("s1", "citem", "d1"), Origin("s1", "chunk", "k1"), Origin("s1", "citem", "d2")},
   gsummaries |-> {Row("t1", here)},
   gorigins |-> {Origin("t1", "citem", "g1"), Origin("t1", "citem", "g2")},
   nodes |-> {Row("n1", here) @@ [origins |-> {Old("d1"), Old("p1")}]},
   resolutions |-> {},
   manifests |-> {}, validations |-> {}, restores |-> {}]
\* The same before any summary was built the new way.
Older == [World EXCEPT !.summaries = {}, !.origins = {}, !.gsummaries = {}, !.gorigins = {}]

Names == {"d1", "d2", "o1", "g1", "g2", "p1", "p2"}
Picks == {q \in UNION {[1..n -> Names] : n \in 0..3} : \A i, j \in DOMAIN q : q[i] = q[j] => i = j}
Seen == Picks \cup {<<"d1", "d2", "p1", "p2", i>> : i \in {"zz", "p3"}}
Named(seqs) == {[i \in DOMAIN q |-> Old(q[i])] : q \in seqs}

\* The turn's task: none of its own, or a plan that has gone on since.
Tasks ==
  {[plan |-> None, active |-> Old("plan")],
   [plan |-> [id |-> Old("plan"), conv |-> here, status |-> "running"], active |-> None]}

Handovers ==
  {s \in [world : {World, Older}, conv : {here}, refs : Named(Seen),
          srefs : Named({<<>>, <<"s1", "t1">>, <<"n1">>}), task : Tasks,
          target : {here, there, <<1, "new">>}, again : {{3, 9}}] :
     /\ s.target = here <=> s.task.plan = None
     /\ s.world = Older => s.srefs = <<Old("n1")>>}

\* What is said of every scenario is evaluated at the step that begins a turn.
Begins == Init /\ stored' /\ Question \in witnessed'

\* Each candidate is packed once, where it may be, and nothing that must be
\* kept is lost; no slot exceeds its share, and no evidence that fits and adds
\* something is left out (retrieve, retrieve_multihop, greedy_select,
\* _abs_select, ContextBuilder.build).
PackIsRight ==
  [][Begins => \A s \in Scenarios : R!PackIsSound(s) /\ R!BudgetIsFilled(s)]_vars

\* A restore that stops anywhere and is tried again harms no other conversation
\* and refers to nothing outside its target; a capsule brings over all that the
\* turn saw, or says that it does not (create_handoff, validate_handoff,
\* restore_handoff).
RestoreIsRight ==
  [][Begins => \A s \in Handovers : H!RestoreIsClosed(s) /\ H!HandoffIsFaithful(s)]_vars
=============================================================================
