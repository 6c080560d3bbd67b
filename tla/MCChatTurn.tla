----------------------------- MODULE MCChatTurn -----------------------------
(* Two requests of a conversation, one on each route; and what the routes    *)
(* make of requests and deltas, judged on the first step of a request.       *)
EXTENDS ChatTurn

CONSTANTS t1, t2

Request == INSTANCE ChatRequest WITH
  MaxFiles <- 1, ModelWindow <- 9, DefaultWindow <- 12, DefaultOutput <- 3, Overhead <- 2

ASSUME Request!RequestAssumption

Datum(form) == [form |-> form, content |-> "bytes"]
Part(type, text, form, wrapped) ==
  [type |-> type, text |-> text, data |-> Datum(form), name |-> "", inner |-> "", wrapped |-> wrapped]
Contents ==
  {<<>>, <<Part("text", <<"hello">>, "none", TRUE), Part("image_url", <<>>, "uri", TRUE)>>,
   <<Part("image_url", <<>>, "link", TRUE), Part("text", <<>>, "none", TRUE)>>,
   <<Part("input_file", <<>>, "base64", FALSE), Part("file", <<>>, "uri", FALSE)>>,
   <<Part("text", <<"more">>, "none", TRUE)>>}
Documents == {<<>>, <<Part("file", <<>>, "uri", TRUE), Part("file", <<>>, "damaged", TRUE)>>}
Messages == [role : {"user", "assistant"}, content : Contents, documents : Documents]
Dialogues == {<<a>> : a \in Messages} \cup {<<a, b, c>> : a, b, c \in Messages}

Bodies ==
  [messages : {<<m>> : m \in Messages}, named : BOOLEAN, files : {<<>>, <<"file">>, <<"oversized">>, <<"a", "b">>}]
Rows == [status : {"ACTIVE", "DELETING"}, busy : BOOLEAN] \cup {Request!Gone}
Budgets ==
  [window : {0, 5, 20}, reserve : {0, 2, 30}, output : {0, 4}, overhead : {-1, 0, 3}]

Heard == {"", "word"}
Spoken == [kind : {"TOKEN", "REASONING", "STALL", "PLAN_STEP"}, text : Heard]
Ends ==
  {[deltas |-> <<>>, raised |-> FALSE], [deltas |-> <<>>, raised |-> TRUE],
   [deltas |-> <<[kind |-> "DONE", text |-> ""]>>, raised |-> FALSE],
   [deltas |-> <<[kind |-> "ERROR", text |-> "CONTEXT_OVERFLOW"], [kind |-> "DONE", text |-> ""]>>,
    raised |-> FALSE]}
TurnsHeard ==
  {[e EXCEPT !.deltas = q \o @] : e \in Ends, q \in UNION {[1 .. n -> Spoken] : n \in 0 .. 3}}

(* What the routes make of requests, of their messages and budgets, and of   *)
(* the deltas of a turn (kima_chat, openai_completions, their streams and    *)
(* the buffered reply).                                                      *)
RequestsAreServed ==
  [][(Init /\ \E t \in Turns : Accept(t)) =>
       /\ \A b \in Bodies, r \in Rows : Request!AdmissionIsClean(b, r)
       /\ \A d \in Dialogues : Request!PromptIsOneMessage(d)
       /\ \A b \in Budgets : Request!BudgetFits(b)
       /\ \A heard \in TurnsHeard, demo \in BOOLEAN : Request!ReplyIsTrue(heard, demo)]_vars
=============================================================================
