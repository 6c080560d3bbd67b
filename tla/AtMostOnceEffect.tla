-------------------------- MODULE AtMostOnceEffect --------------------------
(***************************************************************************)
(* What the consumer-effect ledger promises of each event: its effect is   *)
(* run by one handler, once, write after write, and a run that stops       *)
(* before its last write is never taken up again.                          *)
(***************************************************************************)
EXTENDS Naturals

CONSTANTS
  Events,   \* identities of the events, as the ledger keys them
  Steps     \* writes an event's whole effect consists of

VARIABLES
  run,      \* the state of the one run each event gets
  writes    \* writes of the event's effect made so far

Init ==
  /\ run = [e \in Events |-> "unseen"]
  /\ writes = [e \in Events |-> 0]

Start(e) ==
  /\ run[e] = "unseen"
  /\ run' = [run EXCEPT ![e] = "running"]
  /\ UNCHANGED writes

Write(e) ==
  /\ run[e] = "running"
  /\ writes[e] < Steps
  /\ writes' = [writes EXCEPT ![e] = @ + 1]
  /\ UNCHANGED run

Finish(e) ==
  /\ run[e] = "running"
  /\ writes[e] = Steps
  /\ run' = [run EXCEPT ![e] = "finished"]
  /\ UNCHANGED writes

Abandon(e) ==
  /\ run[e] = "running"
  /\ run' = [run EXCEPT ![e] = "abandoned"]
  /\ UNCHANGED writes

Next == \E e \in Events : Start(e) \/ Write(e) \/ Finish(e) \/ Abandon(e)

Spec == Init /\ [][Next]_<<run, writes>>

=============================================================================
