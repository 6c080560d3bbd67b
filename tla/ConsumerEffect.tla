--------------------------- MODULE ConsumerEffect ---------------------------
(***************************************************************************)
(* One consumer group of the async plane on one partition: the worker      *)
(* processes, the ledger cima.consumer_effect that guards every handler,   *)
(* and the offset Kafka remembers for the group.                           *)
(*                                                                         *)
(* A worker handles a record and then commits its offset; the handler      *)
(* first inserts its ledger row, and skips the event when the row exists.  *)
(* A worker whose handler raises ends, and the record is delivered again.  *)
(* A record may also raise before there is a ledger row: its value is not  *)
(* JSON, or not the CloudEvent that the handler validates first.           *)
(***************************************************************************)
EXTENDS Naturals

CONSTANTS
  N,           \* records in the partition that the group has a handler for
  Events,      \* event ids
  EventAt,     \* the event each record carries; a resent record repeats one
  Poison,      \* events whose handler always raises before its last write
  Unreadable,  \* events that raise before the handler asks the ledger
  Steps,       \* writes a handler makes between begin and complete
  Workers,     \* members of the consumer group
  NoWorker,    \* nobody holds the partition
  MaxFaults    \* bound: crashes and forced rebalances in a behaviour

ASSUME NAssumption == N \in Nat
ASSUME EventAssumption ==
  EventAt \in [1..N -> Events] /\ Poison \subseteq Events /\ Unreadable \subseteq Events
ASSUME StepsAssumption == Steps \in Nat \ {0}
ASSUME WorkerAssumption == NoWorker \notin Workers
ASSUME FaultAssumption == MaxFaults \in Nat

VARIABLES
  ledger,      \* status of the ledger row of each event
  writes,      \* writes of each event's effect made so far
  committed,   \* the group's committed offset
  owner,       \* the member the partition is assigned to
  pc,          \* where each worker stands in its loop
  pos,         \* the record it reads or handles
  step,        \* writes its running handler has made
  faults       \* crashes and forced rebalances so far

vars == <<ledger, writes, committed, owner, pc, pos, step, faults>>

Current(w) == EventAt[pos[w]]

\* The worker is between the begin and the complete of its event.
Handling(w) == pc[w] = "handle"

TypeOK ==
  /\ ledger \in [Events -> {"none", "STARTED", "SUCCEEDED"}]
  /\ writes \in [Events -> 0..Steps]
  /\ committed \in 0..N
  /\ owner \in Workers \cup {NoWorker}
  /\ pc \in [Workers -> {"poll", "begin", "handle", "commit", "down"}]
  /\ pos \in [Workers -> 1..(N + 1)]
  /\ \A w \in Workers : pc[w] \in {"begin", "handle", "commit"} => pos[w] \in 1..N
  /\ step \in [Workers -> 0..Steps]
  /\ faults \in 0..MaxFaults

Init ==
  /\ ledger = [e \in Events |-> "none"]
  /\ writes = [e \in Events |-> 0]
  /\ committed = 0
  /\ owner = NoWorker
  /\ pc = [w \in Workers |-> "poll"]
  /\ pos = [w \in Workers |-> 1]
  /\ step = [w \in Workers |-> 0]
  /\ faults = 0

-----------------------------------------------------------------------------
(***************************************************************************)
(* Kafka assigns a free partition, or takes it from a live member that     *)
(* overran its poll interval; reading resumes after the committed offset.  *)
(***************************************************************************)
Assign(w) ==
  /\ pc[w] = "poll"
  /\ owner # w
  /\ owner # NoWorker => faults < MaxFaults
  /\ faults' = IF owner = NoWorker THEN faults ELSE faults + 1
  /\ owner' = w
  /\ pos' = [pos EXCEPT ![w] = committed + 1]
  /\ UNCHANGED <<ledger, writes, committed, pc, step>>

\* async for message in consumer.  Mutant: the offset is committed first.
PollCommitting(w) ==
  /\ pc[w] = "poll" /\ owner = w /\ pos[w] <= N
  /\ pc' = [pc EXCEPT ![w] = "begin"]
  /\ committed' = pos[w]
  /\ UNCHANGED <<ledger, writes, owner, pos, step, faults>>
Poll(w) ==
  /\ pc[w] = "poll"
  /\ owner = w
  /\ pos[w] <= N
  /\ pc' = [pc EXCEPT ![w] = "begin"]
  /\ UNCHANGED <<ledger, writes, committed, owner, pos, step, faults>>

\* INSERT ... ON CONFLICT DO NOTHING inserted a row.  Mutant: a row still
\* STARTED does not count as a conflict.
FreshOrStarted(e) == ledger[e] # "SUCCEEDED"
Fresh(e) == ledger[e] = "none"

\* A worker that ends leaves the group; its offset was not committed.
Leave(w) ==
  /\ pc' = [pc EXCEPT ![w] = "down"]
  /\ owner' = IF owner = w THEN NoWorker ELSE owner

\* The value's deserializer or the handler's validation raises: the process
\* ends, and neither a ledger row nor an offset shows that it was here.
RaiseEarly(w) ==
  /\ pc[w] = "begin"
  /\ Current(w) \in Unreadable
  /\ Leave(w)
  /\ UNCHANGED <<ledger, writes, committed, pos, step, faults>>

\* ledger.begin: the handler runs for the one who inserts the row.
BeginConsumerEffect(w) ==
  /\ pc[w] = "begin"
  /\ Current(w) \notin Unreadable
  /\ IF Fresh(Current(w))
       THEN /\ ledger' = [ledger EXCEPT ![Current(w)] = "STARTED"]
            /\ pc' = [pc EXCEPT ![w] = "handle"]
            /\ step' = [step EXCEPT ![w] = 0]
       ELSE /\ pc' = [pc EXCEPT ![w] = "commit"]
            /\ UNCHANGED <<ledger, step>>
  /\ UNCHANGED <<writes, committed, owner, pos, faults>>

\* One more write of the handler's effect.
Write(w) ==
  /\ Handling(w)
  /\ step[w] < Steps
  /\ Current(w) \in Poison => step[w] + 1 < Steps
  /\ step' = [step EXCEPT ![w] = @ + 1]
  /\ writes' = [writes EXCEPT ![Current(w)] = @ + 1]
  /\ UNCHANGED <<ledger, committed, owner, pc, pos, faults>>

\* The handler raises: the exception leaves the loop and ends the process.
Raise(w) ==
  /\ Handling(w)
  /\ Current(w) \in Poison
  /\ step[w] + 1 = Steps
  /\ Leave(w)
  /\ UNCHANGED <<ledger, writes, committed, pos, step, faults>>

\* ledger.complete.  Mutant: the row is completed before the last write.
CompleteEarly(w) ==
  /\ Handling(w) /\ step[w] + 1 = Steps
  /\ ledger' = [ledger EXCEPT ![Current(w)] = "SUCCEEDED"]
  /\ pc' = [pc EXCEPT ![w] = "commit"]
  /\ UNCHANGED <<writes, committed, owner, pos, step, faults>>
CompleteConsumerEffect(w) ==
  /\ Handling(w)
  /\ step[w] = Steps
  /\ ledger' = [ledger EXCEPT ![Current(w)] = "SUCCEEDED"]
  /\ pc' = [pc EXCEPT ![w] = "commit"]
  /\ UNCHANGED <<writes, committed, owner, pos, step, faults>>

\* consumer.commit(): Kafka takes it from the partition's owner only.
Commit(w) ==
  /\ pc[w] = "commit"
  /\ owner = w
  /\ committed' = pos[w]
  /\ pc' = [pc EXCEPT ![w] = "poll"]
  /\ pos' = [pos EXCEPT ![w] = @ + 1]
  /\ UNCHANGED <<ledger, writes, owner, step, faults>>

\* A member that lost the partition gets CommitFailedError, and ends.
CommitFenced(w) ==
  /\ pc[w] = "commit"
  /\ owner # w
  /\ Leave(w)
  /\ UNCHANGED <<ledger, writes, committed, pos, step, faults>>

Crash(w) ==
  /\ pc[w] # "down"
  /\ faults < MaxFaults
  /\ faults' = faults + 1
  /\ Leave(w)
  /\ UNCHANGED <<ledger, writes, committed, pos, step>>

Restart(w) ==
  /\ pc[w] = "down"
  /\ pc' = [pc EXCEPT ![w] = "poll"]
  /\ UNCHANGED <<ledger, writes, committed, owner, pos, step, faults>>

\* The steps of a running worker's loop.
Loop(w) ==
  \/ Poll(w)
  \/ RaiseEarly(w)
  \/ BeginConsumerEffect(w)
  \/ Write(w)
  \/ Raise(w)
  \/ CompleteConsumerEffect(w)
  \/ Commit(w)
  \/ CommitFenced(w)

Next == \E w \in Workers : Assign(w) \/ Loop(w) \/ Crash(w) \/ Restart(w)

Spec == Init /\ [][Next]_vars

(***************************************************************************)
(* The loop of a live worker goes on and Kafka hands a free partition to   *)
(* some idle member.  No process is owed a restart.                        *)
(***************************************************************************)
AssignFree == owner = NoWorker /\ \E w \in Workers : Assign(w)

FairSpec ==
  /\ Spec
  /\ \A w \in Workers : WF_vars(Loop(w))
  /\ WF_vars(AssignFree)

-----------------------------------------------------------------------------
(***************************************************************************)
(* An event whose ledger row says SUCCEEDED has had its whole effect.      *)
(***************************************************************************)
SuccessIsWhole == \A e \in Events : ledger[e] = "SUCCEEDED" => writes[e] = Steps

(***************************************************************************)
(* The committed offset never passes an event nobody began: what a restart *)
(* skips has a ledger row to show for it.                                  *)
(***************************************************************************)
CommittedWasBegun == \A o \in 1..committed : ledger[EventAt[o]] # "none"

(***************************************************************************)
(* Deliveries may be repeated, handlers may die and two members may hold   *)
(* the same event: each event still gets one run (AtMostOnceEffect).       *)
(***************************************************************************)
RunState(e) ==
  CASE ledger[e] = "none" -> "unseen"
    [] ledger[e] = "SUCCEEDED" -> "finished"
    [] OTHER -> IF \E w \in Workers : Handling(w) /\ Current(w) = e
                  THEN "running" ELSE "abandoned"

Effect == INSTANCE AtMostOnceEffect WITH
            run <- [e \in Events |-> RunState(e)], writes <- writes

AtMostOnce == Effect!Spec

(***************************************************************************)
(* An event whose handler always raises after it began ends one worker,    *)
(* and the next one passes over it.  One that cannot be read, having no    *)
(* ledger row, stops the partition where it is: the group gets as far as   *)
(* the first of these, for good, and always that far.                      *)
(***************************************************************************)
Passable == CHOOSE n \in 0..N :
  /\ \A o \in 1..n : EventAt[o] \notin Unreadable
  /\ n < N => EventAt[n + 1] \in Unreadable

PoisonIsPassed == <>[](committed = Passable)

(***************************************************************************)
(* consumer_effect.py: "At-least-once Kafka delivery becomes exactly-once  *)
(* domain effect".  Once an event's offset is committed its effect has     *)
(* been made, all of it.                                                   *)
(***************************************************************************)
ExactlyOnce == \A o \in 1..committed : writes[EventAt[o]] = Steps

=============================================================================
