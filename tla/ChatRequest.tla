----------------------------- MODULE ChatRequest -----------------------------
(***************************************************************************)
(* What the chat routes make of a request and what they show of the turn   *)
(* it starts: the native route, /v1/chat/completions as a stream, and the  *)
(* same with the stream read to its end and sent as one body ("buffered"). *)
(* Requests, rows and deltas are values; ChatTurn has the turn itself.     *)
(***************************************************************************)
EXTENDS Integers, FiniteSets, SequencesExt

CONSTANTS
  MaxFiles,       \* max_files_per_request, of the native route only
  ModelWindow,    \* llm_context_window, 0 for none
  DefaultWindow,  \* context_budget_max
  DefaultOutput,  \* llm_max_tokens
  Overhead        \* context_budget_overhead

RequestAssumption ==
  /\ MaxFiles \in Nat /\ ModelWindow \in Nat /\ DefaultWindow \in Nat
  /\ DefaultOutput \in Nat \ {0} /\ Overhead \in Nat

Larger(a, b) == IF a >= b THEN a ELSE b
Smaller(a, b) == IF a <= b THEN a ELSE b

-----------------------------------------------------------------------------
(* What a message holds.  Data is a data URI, base64 alone, a link, or      *)
(* damaged; a text is a word or nothing.                                    *)

File(name, content) == [name |-> name, content |-> content]

\* b64decode drops the characters it does not know: a URI inside a URI still
\* decodes, to other bytes.
Decoded(data, name) ==
  CASE data.form = "uri" -> {File(name, data.content)}
    [] data.form = "nested" -> {File(name, "garbled")}
    [] OTHER -> {}

AsUri(data) ==
  [data EXCEPT !.form = CASE @ = "base64" -> "uri" [] @ \in {"uri", "link"} -> "nested" [] OTHER -> @]

FileName(part) ==
  LET inner == IF part.type = "file" /\ part.wrapped THEN part.inner ELSE ""
      names == SelectSeq(<<inner, part.name, "attachment">>, LAMBDA n : n # "")
  IN  Head(names)

\* A set of one file or none.
FileOf(part) ==
  CASE part.type = "image_url" -> Decoded(part.data, FileName(part))
    [] part.type = "file" /\ part.wrapped -> Decoded(part.data, FileName(part))
    [] part.type = "input_file" \/ (part.type = "file" /\ ~part.wrapped) ->
         Decoded(AsUri(part.data), FileName(part))
    [] OTHER -> {}

FilesOf(parts) ==
  FoldLeft(LAMBDA files, part : files \o SetToSeq(FileOf(part)), <<>>, parts)

Text(message) ==
  FoldLeft(LAMBDA text, part : IF part.type = "text" THEN text \o part.text ELSE text,
           <<>>, message.content)

Parsed(message) ==
  [text |-> Text(message), files |-> FilesOf(message.content) \o FilesOf(message.documents)]

UserMessages(messages) == SelectSeq(messages, LAMBDA m : m.role = "user")

PromptOfBoth(messages) ==
  LET users == UserMessages(messages)
      texts == SelectSeq(users, LAMBDA m : Text(m) # <<>>)
  IN  [text |-> IF texts = <<>> THEN <<>> ELSE Text(Last(texts)), files |-> Parsed(Last(users)).files]

\* A last message without text gives way to an earlier one, with its files.
\* Mutant: the files of the last message stay.
Prompt(messages) ==
  LET users == UserMessages(messages)
      texts == SelectSeq(users, LAMBDA m : Text(m) # <<>>)
  IN  IF Text(Last(users)) # <<>> \/ texts = <<>> THEN Parsed(Last(users)) ELSE Parsed(Last(texts))

-----------------------------------------------------------------------------
(* The budget a request asks for: 0 where it says nothing, for the overhead *)
(* a negative number.                                                       *)

Or(asked, default) == IF asked = 0 THEN default ELSE asked

\* The answer's share, which is the cap of the model's output too.
Reserve(body) == Or(body.reserve, Or(body.output, DefaultOutput))

Window(body) ==
  LET asked == Or(body.window, DefaultWindow)
  IN  IF ModelWindow > 0 THEN Smaller(asked, ModelWindow) ELSE asked

Apart(body) ==
  IF body.overhead >= 0 THEN body.overhead ELSE IF body.window # 0 THEN 0 ELSE Overhead

\* What is left for the memory's content: ContextBudget.available_for_content.
Available(body) ==
  Larger(0, Larger(Apart(body), Larger(0, Window(body) - Reserve(body))) - Apart(body))

-----------------------------------------------------------------------------
(* Admission: the row a request finds, what it is told, the row it leaves.  *)

Gone == [status |-> "none", busy |-> FALSE]
New == [status |-> "ACTIVE", busy |-> FALSE]
Answer(code, row) == [code |-> code, row |-> row]

\* ensure_active_conversation, then the turn's compare and set.
Enter(row) ==
  CASE row.status = "none" -> Answer(404, row)
    [] row.status = "DELETING" \/ row.busy -> Answer(409, row)
    [] OTHER -> Answer(200, [row EXCEPT !.busy = TRUE])

\* The files are read before the mutex is taken.
AdmitNative(body, row) ==
  IF row.status # "ACTIVE" THEN Enter(row)
  ELSE IF Len(body.files) > MaxFiles \/ \E i \in DOMAIN body.files : body.files[i] = "oversized"
       THEN Answer(422, row)
       ELSE Enter(row)

Created(row) == IF row.status = "none" THEN New ELSE row

\* The conversation it names is created if need be, or one of its own; there
\* is no limit for files.
AdmitOpenAI(body, row) ==
  IF UserMessages(body.messages) = <<>> THEN Answer(400, row)
  ELSE Enter(IF body.named THEN Created(row) ELSE New)

-----------------------------------------------------------------------------
(* What a client is shown.  A turn is the deltas its stream took and        *)
(* whether its task ended with an exception.                                *)

Shown(delta, demo) == ~demo \/ delta.kind \in {"TOKEN", "ERROR", "DONE"}

\* An envelope's type and payload; nothing but overflow and internal errors
\* is final for the client.
Envelope(delta) ==
  [type |-> delta.kind, text |-> delta.text,
   recoverable |-> delta.kind = "ERROR" /\ delta.text \notin {"CONTEXT_OVERFLOW", "INTERNAL_ERROR"}]

\* The deltas up to the last that a loop reads.
UpTo(deltas, kinds) ==
  LET stops == {i \in DOMAIN deltas : deltas[i].kind \in kinds}
  IN  IF stops = {} THEN deltas ELSE SubSeq(deltas, 1, CHOOSE i \in stops : \A k \in stops : i <= k)

NativeEvents(turn, demo) ==
  LET read == SelectSeq(UpTo(turn.deltas, {"DONE"}), LAMBDA d : Shown(d, demo))
      told == [i \in DOMAIN read |-> Envelope(read[i])]
  IN  IF turn.raised
      THEN Append(told, [type |-> "ERROR", text |-> "raised", recoverable |-> FALSE])
      ELSE told

Piece(field, text) == [field |-> field, text |-> text]

\* A chunk of _stream_openai for a delta, or none.
ChunkOf(delta, demo) ==
  CASE delta.kind = "TOKEN" /\ delta.text # "" -> <<Piece("content", delta.text)>>
    [] delta.kind = "ERROR" -> <<Piece("content", "[ERROR]")>>
    [] /\ delta.kind \in {"REASONING", "THOUGHT", "TOOL_RESULT", "STALL", "STRATEGY_SWITCH"}
       /\ ~demo /\ (delta.kind = "REASONING" => delta.text # "") ->
         <<Piece("reasoning", delta.text)>>
    [] OTHER -> <<>>

\* The first announces the role; the stream ends with its first ERROR.
OpenAIChunks(turn, demo) ==
  FoldLeft(LAMBDA sent, d : sent \o ChunkOf(d, demo), <<Piece("role", "")>>,
           UpTo(turn.deltas, {"DONE", "ERROR"}))

Contents(chunks) ==
  LET told == SelectSeq(chunks, LAMBDA c : c.field = "content")
  IN  [i \in DOMAIN told |-> told[i].text]

\* The body of the buffered route: the contents of the stream's chunks.
Buffered(turn, demo) == Contents(OpenAIChunks(turn, demo))

-----------------------------------------------------------------------------
(***************************************************************************)
(* A request that is refused leaves the conversation as it was; one that   *)
(* is admitted holds the mutex of an active conversation that no other     *)
(* turn held.                                                              *)
(***************************************************************************)
AdmittedOrUntouched(before, answer) ==
  IF answer.code = 200
  THEN answer.row = [status |-> "ACTIVE", busy |-> TRUE] /\ (before.status = "none" \/ ~before.busy)
  ELSE answer.row = before

AdmissionIsClean(body, row) ==
  /\ AdmittedOrUntouched(row, AdmitNative(body, row))
  /\ AdmittedOrUntouched(IF body.named THEN row ELSE Gone,
                         AdmitOpenAI(body, IF body.named THEN row ELSE Gone))

(***************************************************************************)
(* What the turn is given, text and files, is all of one user message, and *)
(* no later user message has a text; and no file's bytes are changed but   *)
(* those of a URI where base64 was due.                                    *)
(***************************************************************************)
DecodesTrue(part) ==
  \A f \in FileOf(part) : f.content = part.data.content \/ (part.data.form \in {"uri", "link"} /\ ~part.wrapped)

PromptIsOneMessage(messages) ==
  UserMessages(messages) # <<>> =>
    \E i \in DOMAIN messages :
      /\ messages[i].role = "user" /\ Prompt(messages) = Parsed(messages[i])
      /\ \A k \in (i + 1) .. Len(messages) : messages[k].role = "user" => Text(messages[k]) = <<>>
      /\ \A p \in DOMAIN messages[i].content : DecodesTrue(messages[i].content[p])

(***************************************************************************)
(* Content, overhead and answer fit into the window the model has and the  *)
(* one the request asks for, unless the answer's share leaves no room for  *)
(* content at all.                                                         *)
(***************************************************************************)
BudgetFits(body) ==
  Available(body) > 0 =>
    /\ Available(body) + Apart(body) + Reserve(body) <= Window(body)
    /\ ModelWindow > 0 => Window(body) <= ModelWindow

(***************************************************************************)
(* Whatever the route and the mode, a client's text is what the turn said, *)
(* in order, and nothing of its reasoning; an ERROR is told on each, and   *)
(* an exception of the task on the native one (on the others it is not).   *)
(***************************************************************************)
Said(turn) ==
  LET told == SelectSeq(turn.deltas, LAMBDA d : d.kind = "TOKEN" /\ d.text # "")
  IN  [i \in DOMAIN told |-> told[i].text]

Failed(turn) == \E i \in DOMAIN turn.deltas : turn.deltas[i].kind = "ERROR"

NativeText(turn, demo) ==
  LET told == SelectSeq(NativeEvents(turn, demo), LAMBDA e : e.type = "TOKEN" /\ e.text # "")
  IN  [i \in DOMAIN told |-> told[i].text]

ReplyIsTrue(turn, demo) ==
  /\ NativeText(turn, demo) = Said(turn)
  /\ Buffered(turn, demo) = Said(turn) \o (IF Failed(turn) THEN <<"[ERROR]">> ELSE <<>>)
  /\ (\E i \in DOMAIN NativeEvents(turn, demo) : NativeEvents(turn, demo)[i].type = "ERROR")
       <=> (Failed(turn) \/ turn.raised)
=============================================================================
