--------------------------- MODULE WorkersAndTurns ---------------------------
(***************************************************************************)
(* The two kinds of process side by side: workers that read the log        *)
(* (ConsumerEffect), and the turns of an API process with the model        *)
(* adapters they share (ModelCalls).                                       *)
(***************************************************************************)
EXTENDS ConsumerEffect

CONSTANTS
  Turns,       \* turns of different conversations
  Nobody,      \* no active response
  MaxRetries,  \* llm_max_retries
  Threshold,   \* tei_reranker_circuit_threshold
  MaxTokens    \* bound: chunks a stream brings in all

VARIABLES provider, active, at, attempt, response, chunks, short, result, failures, open
callVars == <<provider, active, at, attempt, response, chunks, short, result, failures, open>>

Calls == INSTANCE ModelCalls

ASSUME CallsAssumed == Calls!CallsAssumption

\* The two share no variable and no property is about both.  The turns begin
\* when the workers, without a fault, have come as far as they can, the first
\* of them having handled every event there is to handle.
One == CHOOSE w \in Workers : TRUE
Done ==
  /\ committed = Passable /\ owner = NoWorker /\ faults = 0
  /\ \A w \in Workers : pc[w] = "down" /\ pos[w] = Passable + 1
  /\ \A w \in Workers \ {One} : step[w] = 0
BothInit == Init /\ Calls!Init
BothNext ==
  \/ Calls!Init /\ Next /\ UNCHANGED callVars
  \/ Done /\ Calls!Next /\ UNCHANGED vars
BothSpec == BothInit /\ [][BothNext]_<<vars, callVars>>
FairBoth ==
  /\ BothSpec
  /\ \A w \in Workers : WF_vars(Loop(w))
  /\ WF_vars(AssignFree)
  /\ Calls!Fairness

(* What ModelCalls says of the answers of turns that share an adapter, and   *)
(* that each of them ends.                                                   *)
AnswersAreWhole == Calls!AnswersAreWhole
TurnsReturn == Calls!TurnsReturn
=============================================================================
