------------------------ MODULE ConsumerEffect_proofs ------------------------
(***************************************************************************)
(* First the ledger, for any partition, any number of workers and any      *)
(* number of faults: the consumer group implements AtMostOnceEffect.  Then *)
(* the model adapters of the API process.                                  *)
(***************************************************************************)
EXTENDS WorkersAndTurns, Sequences, TLAPS

(***************************************************************************)
(* Whoever handles an event inserted its ledger row, alone, and has made   *)
(* all the writes the event has had.                                       *)
(***************************************************************************)
HandlerOwnsRow ==
  /\ \A w \in Workers : Handling(w) =>
       /\ ledger[Current(w)] = "STARTED"
       /\ writes[Current(w)] = step[w]
  /\ \A v, w \in Workers :
       Handling(v) /\ Handling(w) /\ Current(v) = Current(w) => v = w

UnseenIsUnwritten == \A e \in Events : ledger[e] = "none" => writes[e] = 0

CommitterHasRow == \A w \in Workers : pc[w] = "commit" => ledger[Current(w)] # "none"

\* The owner reads right after the committed offset.
OwnerIsNext ==
  \A w \in Workers : owner = w => pc[w] # "down" /\ pos[w] = committed + 1

IInv ==
  /\ TypeOK
  /\ HandlerOwnsRow
  /\ UnseenIsUnwritten
  /\ CommitterHasRow
  /\ OwnerIsNext
  /\ SuccessIsWhole
  /\ CommittedWasBegun

\* The event a busy worker is at is one of the partition's events.
LEMMA CurrentIsEvent ==
  ASSUME TypeOK, NEW w \in Workers, pc[w] \in {"begin", "handle", "commit"}
  PROVE  pos[w] \in 1..N /\ Current(w) \in Events
BY EventAssumption DEF TypeOK, Current

\* The initial state satisfies the inductive invariant.
LEMMA InitIInv == Init => IInv
BY NAssumption, StepsAssumption, FaultAssumption, WorkerAssumption
   DEF Init, IInv, TypeOK, HandlerOwnsRow, Handling, UnseenIsUnwritten,
       CommitterHasRow, OwnerIsNext, SuccessIsWhole, CommittedWasBegun

\* Kafka moving the partition keeps it: the new owner resumes at committed + 1.
LEMMA AssignStep ==
  ASSUME IInv, NEW x \in Workers, Assign(x)
  PROVE  IInv'
<1> USE DEF IInv, Assign
<1>1. TypeOK'
  BY NAssumption, FaultAssumption DEF TypeOK
<1>2. \A w \in Workers : pc[w] # "poll" => pos'[w] = pos[w]
  BY DEF TypeOK
<1>3. HandlerOwnsRow' /\ CommitterHasRow'
  BY <1>2 DEF HandlerOwnsRow, Handling, Current, CommitterHasRow
<1>4. OwnerIsNext'
  BY WorkerAssumption DEF OwnerIsNext, TypeOK
<1>5. UnseenIsUnwritten' /\ SuccessIsWhole' /\ CommittedWasBegun'
  BY DEF UnseenIsUnwritten, SuccessIsWhole, CommittedWasBegun
<1> QED
  BY <1>1, <1>3, <1>4, <1>5

\* Reading the next record keeps it.
LEMMA PollStep ==
  ASSUME IInv, NEW x \in Workers, Poll(x)
  PROVE  IInv'
<1> USE DEF IInv, Poll
<1>1. TypeOK'
  BY NAssumption DEF TypeOK
<1>2. HandlerOwnsRow' /\ CommitterHasRow'
  BY DEF TypeOK, HandlerOwnsRow, Handling, Current, CommitterHasRow
<1>3. OwnerIsNext'
  BY DEF OwnerIsNext, TypeOK
<1>4. UnseenIsUnwritten' /\ SuccessIsWhole' /\ CommittedWasBegun'
  BY DEF UnseenIsUnwritten, SuccessIsWhole, CommittedWasBegun
<1> QED
  BY <1>1, <1>2, <1>3, <1>4

(***************************************************************************)
(* ledger.begin keeps it: the row was absent, so nobody handles the event. *)
(***************************************************************************)
LEMMA BeginStep ==
  ASSUME IInv, NEW x \in Workers, BeginConsumerEffect(x)
  PROVE  IInv'
<1> USE DEF IInv
<1>1. Current(x) \in Events /\ pos[x] \in 1..N /\ pc[x] = "begin"
  BY CurrentIsEvent DEF BeginConsumerEffect
<1>2. UNCHANGED <<writes, committed, owner, pos, faults>>
  BY DEF BeginConsumerEffect
<1>3. CASE Fresh(Current(x))
  <2>1. /\ ledger[Current(x)] = "none"
        /\ ledger' = [ledger EXCEPT ![Current(x)] = "STARTED"]
        /\ pc' = [pc EXCEPT ![x] = "handle"]
        /\ step' = [step EXCEPT ![x] = 0]
    BY <1>3 DEF BeginConsumerEffect, Fresh
  <2>2. TypeOK'
    BY <1>1, <1>2, <2>1, StepsAssumption DEF TypeOK
  <2>3. \A w \in Workers : Handling(w) => Current(w) # Current(x)
    BY <2>1 DEF HandlerOwnsRow
  <2>4. writes[Current(x)] = 0
    BY <1>1, <2>1 DEF UnseenIsUnwritten
  <2>5. \A w \in Workers \ {x} :
          /\ pc'[w] = pc[w] /\ step'[w] = step[w]
          /\ Current(w)' = Current(w) /\ (Handling(w)' <=> Handling(w))
    BY <1>2, <2>1 DEF TypeOK, Current, Handling
  <2>6. /\ Current(x)' = Current(x) /\ step'[x] = 0 /\ pc'[x] = "handle"
        /\ ledger'[Current(x)] = "STARTED"
        /\ \A e \in Events : e # Current(x) => ledger'[e] = ledger[e]
    BY <1>1, <1>2, <2>1 DEF TypeOK, Current
  <2>7. HandlerOwnsRow'
    <3>1. ASSUME NEW w \in Workers, Handling(w)'
          PROVE  ledger'[Current(w)'] = "STARTED" /\ writes'[Current(w)'] = step'[w]
      <4>1. CASE w = x
        BY <1>2, <2>4, <2>6, <4>1
      <4>2. CASE w # x
        <5>1. Handling(w) /\ Current(w)' = Current(w) /\ Current(w) \in Events
          BY <2>5, <3>1, <4>2, CurrentIsEvent DEF Handling
        <5> QED
          BY <1>2, <2>3, <2>5, <2>6, <4>2, <5>1 DEF HandlerOwnsRow
      <4> QED
        BY <4>1, <4>2
    <3>2. ASSUME NEW v \in Workers, NEW w \in Workers,
                 Handling(v)', Handling(w)', Current(v)' = Current(w)'
          PROVE  v = w
      BY <2>3, <2>5, <2>6, <3>2 DEF HandlerOwnsRow
    <3> QED
      BY <3>1, <3>2 DEF HandlerOwnsRow
  <2>8. CommitterHasRow'
    <3> SUFFICES ASSUME NEW w \in Workers, pc'[w] = "commit"
                 PROVE  ledger'[Current(w)'] # "none"
      BY DEF CommitterHasRow
    <3>1. w # x /\ pc[w] = "commit" /\ Current(w)' = Current(w)
      BY <2>5, <2>6
    <3>2. Current(w) \in Events /\ ledger[Current(w)] # "none"
      BY <3>1, CurrentIsEvent DEF CommitterHasRow
    <3> QED
      BY <2>6, <3>1, <3>2
  <2>9. UnseenIsUnwritten' /\ SuccessIsWhole'
    BY <1>2, <2>6 DEF UnseenIsUnwritten, SuccessIsWhole
  <2>10. OwnerIsNext'
    BY <1>2, <2>1 DEF OwnerIsNext, TypeOK
  <2>11. CommittedWasBegun'
    <3> SUFFICES ASSUME NEW o \in 1..committed
                 PROVE  ledger'[EventAt[o]] # "none"
      BY <1>2 DEF CommittedWasBegun
    <3>1. o \in 1..N /\ EventAt[o] \in Events
      BY NAssumption, EventAssumption DEF TypeOK
    <3> QED
      BY <2>6, <3>1 DEF CommittedWasBegun
  <2> QED
    BY <2>2, <2>7, <2>8, <2>9, <2>10, <2>11
<1>4. CASE ~Fresh(Current(x))
  <2>1. ledger[Current(x)] # "none" /\ pc' = [pc EXCEPT ![x] = "commit"]
        /\ UNCHANGED <<ledger, step>>
    BY <1>4 DEF BeginConsumerEffect, Fresh
  <2>2. TypeOK'
    BY <1>1, <1>2, <2>1 DEF TypeOK
  <2>3. HandlerOwnsRow' /\ CommitterHasRow'
    BY <1>1, <1>2, <2>1 DEF TypeOK, HandlerOwnsRow, Handling, Current, CommitterHasRow
  <2>4. OwnerIsNext' /\ UnseenIsUnwritten' /\ SuccessIsWhole' /\ CommittedWasBegun'
    BY <1>2, <2>1 DEF TypeOK, OwnerIsNext, UnseenIsUnwritten, SuccessIsWhole,
                      CommittedWasBegun
  <2> QED
    BY <2>2, <2>3, <2>4
<1> QED
  BY <1>3, <1>4

\* A write of the handler keeps it: the event is its own.
LEMMA WriteStep ==
  ASSUME IInv, NEW x \in Workers, Write(x)
  PROVE  IInv'
<1> USE DEF IInv
<1>1. /\ pc[x] = "handle" /\ step[x] < Steps
      /\ step' = [step EXCEPT ![x] = @ + 1]
      /\ writes' = [writes EXCEPT ![Current(x)] = @ + 1]
      /\ UNCHANGED <<ledger, committed, owner, pc, pos, faults>>
  BY DEF Write, Handling
<1>2. /\ Current(x) \in Events
      /\ ledger[Current(x)] = "STARTED" /\ writes[Current(x)] = step[x]
  BY <1>1, CurrentIsEvent DEF HandlerOwnsRow, Handling
<1>3. TypeOK'
  BY <1>1, <1>2, StepsAssumption DEF TypeOK
<1>4. \A w \in Workers : Current(w)' = Current(w) /\ (Handling(w)' <=> Handling(w))
  BY <1>1 DEF Current, Handling
<1>5. HandlerOwnsRow'
  <2>1. ASSUME NEW w \in Workers, Handling(w)
        PROVE  ledger'[Current(w)] = "STARTED" /\ writes'[Current(w)] = step'[w]
    <3>1. Current(w) \in Events
      BY <2>1, CurrentIsEvent DEF Handling
    <3>2. CASE w = x
      BY <1>1, <1>2, <3>2, StepsAssumption DEF TypeOK
    <3>3. CASE w # x
      BY <1>1, <2>1, <3>1, <3>3 DEF HandlerOwnsRow, Handling, TypeOK
    <3> QED
      BY <3>2, <3>3
  <2> QED
    BY <1>4, <2>1 DEF HandlerOwnsRow
<1>6. CommitterHasRow' /\ OwnerIsNext' /\ CommittedWasBegun'
  BY <1>1, <1>4 DEF CommitterHasRow, OwnerIsNext, CommittedWasBegun
<1>7. UnseenIsUnwritten' /\ SuccessIsWhole'
  BY <1>1, <1>2 DEF TypeOK, UnseenIsUnwritten, SuccessIsWhole
<1> QED
  BY <1>3, <1>5, <1>6, <1>7

(***************************************************************************)
(* A worker that leaves keeps it, whatever it was doing.                   *)
(***************************************************************************)
LEMMA LeaveStep ==
  ASSUME IInv, NEW x \in Workers, Leave(x), faults' \in 0..MaxFaults,
         UNCHANGED <<ledger, writes, committed, pos, step>>
  PROVE  IInv'
<1> USE DEF IInv, Leave
<1>1. TypeOK'
  BY DEF TypeOK
<1>2. HandlerOwnsRow' /\ CommitterHasRow'
  BY DEF TypeOK, HandlerOwnsRow, Handling, Current, CommitterHasRow
<1>3. OwnerIsNext'
  BY WorkerAssumption DEF TypeOK, OwnerIsNext
<1>4. UnseenIsUnwritten' /\ SuccessIsWhole' /\ CommittedWasBegun'
  BY DEF UnseenIsUnwritten, SuccessIsWhole, CommittedWasBegun
<1> QED
  BY <1>1, <1>2, <1>3, <1>4

(***************************************************************************)
(* ledger.complete keeps it: all the writes have been made.                *)
(***************************************************************************)
LEMMA CompleteStep ==
  ASSUME IInv, NEW x \in Workers, CompleteConsumerEffect(x)
  PROVE  IInv'
<1> USE DEF IInv
<1>1. /\ pc[x] = "handle" /\ step[x] = Steps
      /\ ledger' = [ledger EXCEPT ![Current(x)] = "SUCCEEDED"]
      /\ pc' = [pc EXCEPT ![x] = "commit"]
      /\ UNCHANGED <<writes, committed, owner, pos, step, faults>>
  BY DEF CompleteConsumerEffect, Handling
<1>2. Current(x) \in Events /\ pos[x] \in 1..N /\ writes[Current(x)] = Steps
  BY <1>1, CurrentIsEvent DEF HandlerOwnsRow, Handling
<1>3. TypeOK'
  BY <1>1, <1>2 DEF TypeOK
<1>4. \A w \in Workers :
        /\ Current(w)' = Current(w)
        /\ Handling(w)' <=> (w # x /\ Handling(w))
        /\ w # x => pc'[w] = pc[w]
  BY <1>1 DEF TypeOK, Current, Handling
<1>5. \A w \in Workers : w # x /\ Handling(w) => Current(w) # Current(x)
  BY <1>1 DEF HandlerOwnsRow, Handling
<1>6. \A e \in Events : ledger'[e] = IF e = Current(x) THEN "SUCCEEDED" ELSE ledger[e]
  BY <1>1, <1>2 DEF TypeOK
<1>7. HandlerOwnsRow'
  <2>1. \A w \in Workers : Handling(w) => Current(w) \in Events
    BY CurrentIsEvent DEF Handling
  <2> QED
    BY <1>1, <1>4, <1>5, <1>6, <2>1 DEF HandlerOwnsRow
<1>8. CommitterHasRow'
  <2> SUFFICES ASSUME NEW w \in Workers, pc'[w] = "commit"
               PROVE  ledger'[Current(w)] # "none"
    BY <1>4 DEF CommitterHasRow
  <2>1. CASE w = x
    BY <1>2, <1>6, <2>1
  <2>2. CASE w # x
    <3>1. pc[w] = "commit" /\ Current(w) \in Events
      BY <1>4, <2>2, CurrentIsEvent
    <3> QED
      BY <1>6, <3>1 DEF CommitterHasRow
  <2> QED
    BY <2>1, <2>2
<1>9. OwnerIsNext'
  BY <1>1 DEF TypeOK, OwnerIsNext
<1>10. UnseenIsUnwritten' /\ SuccessIsWhole'
  BY <1>1, <1>2, <1>6 DEF UnseenIsUnwritten, SuccessIsWhole
<1>11. CommittedWasBegun'
  BY <1>1, <1>6, EventAssumption DEF TypeOK, CommittedWasBegun
<1> QED
  BY <1>3, <1>7, <1>8, <1>9, <1>10, <1>11

(***************************************************************************)
(* A commit keeps it: the owner's record is the next one, and has a row.   *)
(***************************************************************************)
LEMMA CommitStep ==
  ASSUME IInv, NEW x \in Workers, Commit(x)
  PROVE  IInv'
<1> USE DEF IInv, Commit
<1>1. pos[x] \in 1..N /\ pos[x] = committed + 1 /\ ledger[Current(x)] # "none"
  BY CurrentIsEvent DEF OwnerIsNext, CommitterHasRow
<1>2. TypeOK'
  BY <1>1, NAssumption DEF TypeOK
<1>3. \A w \in Workers : w # x => Current(w)' = Current(w) /\ pc'[w] = pc[w]
  BY DEF TypeOK, Current
<1>4. HandlerOwnsRow' /\ CommitterHasRow'
  BY <1>3 DEF TypeOK, HandlerOwnsRow, Handling, CommitterHasRow
<1>5. OwnerIsNext'
  BY DEF TypeOK, OwnerIsNext
<1>6. UnseenIsUnwritten' /\ SuccessIsWhole'
  BY DEF UnseenIsUnwritten, SuccessIsWhole
<1>7. CommittedWasBegun'
  BY <1>1, NAssumption DEF TypeOK, CommittedWasBegun, Current
<1> QED
  BY <1>2, <1>4, <1>5, <1>6, <1>7

\* Restarting a worker keeps it: it owns nothing yet.
LEMMA RestartStep ==
  ASSUME IInv, NEW x \in Workers, Restart(x)
  PROVE  IInv'
BY DEF IInv, Restart, TypeOK, HandlerOwnsRow, Handling, Current, CommitterHasRow,
       OwnerIsNext, UnseenIsUnwritten, SuccessIsWhole, CommittedWasBegun

LEMMA StutterStep == IInv /\ UNCHANGED vars => IInv'
BY DEF IInv, vars, TypeOK, HandlerOwnsRow, Handling, Current, CommitterHasRow,
       OwnerIsNext, UnseenIsUnwritten, SuccessIsWhole, CommittedWasBegun

(***************************************************************************)
(* The consumer group keeps its inductive invariant.                       *)
(***************************************************************************)
THEOREM Inductive == Spec => []IInv
<1>1. IInv /\ [Next]_vars => IInv'
  <2> SUFFICES ASSUME IInv, [Next]_vars PROVE IInv'
    OBVIOUS
  <2>1. ASSUME NEW w \in Workers, Assign(w) PROVE IInv'
    BY <2>1, AssignStep
  <2>2. ASSUME NEW w \in Workers, Poll(w) \/ BeginConsumerEffect(w) PROVE IInv'
    BY <2>2, PollStep, BeginStep
  <2>3. ASSUME NEW w \in Workers, Write(w) \/ CompleteConsumerEffect(w) PROVE IInv'
    BY <2>3, WriteStep, CompleteStep
  <2>4. ASSUME NEW w \in Workers, Commit(w) \/ Restart(w) PROVE IInv'
    BY <2>4, CommitStep, RestartStep
  <2>5. ASSUME NEW w \in Workers, Raise(w) \/ RaiseEarly(w) \/ CommitFenced(w) PROVE IInv'
    BY <2>5, LeaveStep DEF Raise, RaiseEarly, CommitFenced, IInv, TypeOK
  <2>6. ASSUME NEW w \in Workers, Crash(w) PROVE IInv'
    BY <2>6, LeaveStep, FaultAssumption DEF Crash, IInv, TypeOK
  <2>7. CASE UNCHANGED vars
    BY <2>7, StutterStep
  <2> QED
    BY <2>1, <2>2, <2>3, <2>4, <2>5, <2>6, <2>7 DEF Next, Loop
<1> QED
  BY InitIInv, <1>1, PTL DEF Spec

(***************************************************************************)
(* A row SUCCEEDED stands for a whole effect.                              *)
(***************************************************************************)
THEOREM LedgerIsSound == Spec => []SuccessIsWhole
<1>1. IInv => SuccessIsWhole
  BY DEF IInv
<1> QED
  BY <1>1, Inductive, PTL

(***************************************************************************)
(* The committed offset passes begun events only: a rebalance or a crash   *)
(* never loses an event that no member has tried.                          *)
(***************************************************************************)
THEOREM OffsetsFollowTheLedger == Spec => []CommittedWasBegun
<1>1. IInv => CommittedWasBegun
  BY DEF IInv
<1> QED
  BY <1>1, Inductive, PTL

-----------------------------------------------------------------------------
(***************************************************************************)
(* An event that cannot be read never gets a ledger row, so the group's    *)
(* offset never passes it: this is where the partition stops for good.     *)
(***************************************************************************)
UnreadableUnbegun == \A e \in Unreadable : ledger[e] = "none"

THEOREM UnreadableStops == Spec => [](\A o \in 1..committed : EventAt[o] \notin Unreadable)
<1>1. Init => UnreadableUnbegun
  BY EventAssumption DEF Init, UnreadableUnbegun
<1>2. IInv /\ UnreadableUnbegun /\ [Next]_vars => UnreadableUnbegun'
  <2> SUFFICES ASSUME IInv, UnreadableUnbegun, [Next]_vars PROVE UnreadableUnbegun'
    OBVIOUS
  <2> USE EventAssumption DEF IInv, UnreadableUnbegun
  <2>1. CASE UNCHANGED ledger
    BY <2>1
  <2>2. ASSUME NEW w \in Workers, BeginConsumerEffect(w), ~UNCHANGED ledger
        PROVE  UnreadableUnbegun'
    BY <2>2 DEF BeginConsumerEffect, TypeOK
  <2>3. ASSUME NEW w \in Workers, CompleteConsumerEffect(w) PROVE UnreadableUnbegun'
    <3>1. ledger[Current(w)] = "STARTED"
      BY <2>3 DEF CompleteConsumerEffect, HandlerOwnsRow
    <3> QED
      BY <2>3, <3>1 DEF CompleteConsumerEffect, TypeOK
  <2> QED
    BY <2>1, <2>2, <2>3 DEF Next, Loop, vars, Assign, Poll, RaiseEarly, Write, Raise, Commit,
       CommitFenced, Crash, Restart
<1>3. IInv /\ UnreadableUnbegun => \A o \in 1..committed : EventAt[o] \notin Unreadable
  BY DEF IInv, UnreadableUnbegun, CommittedWasBegun
<1> QED
  BY <1>1, <1>2, <1>3, Inductive, PTL DEF Spec

(***************************************************************************)
(* Refinement.  A step that touches no ledger row and no handler is a      *)
(* stutter of the abstract run; the others are one abstract step each.     *)
(***************************************************************************)
Running(e) == \E w \in Workers : Handling(w) /\ Current(w) = e

\* The abstract run state, without the CASE.
LEMMA RunStateValue ==
  ASSUME TypeOK, NEW e \in Events
  PROVE  /\ ledger[e] = "none" => RunState(e) = "unseen"
         /\ ledger[e] = "SUCCEEDED" => RunState(e) = "finished"
         /\ ledger[e] = "STARTED" /\ Running(e) => RunState(e) = "running"
         /\ ledger[e] = "STARTED" /\ ~Running(e) => RunState(e) = "abandoned"
BY DEF TypeOK, RunState, Running

AbsRun == [e \in Events |-> RunState(e)]

\* The abstract run is a function of the rows and of who is handling what.
LEMMA RunUnchanged ==
  ASSUME TypeOK, TypeOK', UNCHANGED ledger, \A e \in Events : Running(e)' <=> Running(e)
  PROVE  AbsRun' = AbsRun
<1>1. \A e \in Events : RunState(e)' = RunState(e)
  BY RunStateValue DEF RunState, Running
<1> QED
  BY <1>1 DEF AbsRun

\* Inserting the ledger row starts the abstract run.
LEMMA BeginImplements ==
  ASSUME IInv, IInv', NEW x \in Workers, BeginConsumerEffect(x)
  PROVE  Effect!Next \/ UNCHANGED <<AbsRun, writes>>
<1> USE DEF IInv
<1>1. PICK c \in Events :
        c = Current(x) /\ pc[x] = "begin" /\ UNCHANGED <<writes, pos>>
  BY CurrentIsEvent DEF BeginConsumerEffect
<1>2. CASE Fresh(c)
  <2>1. /\ ledger[c] = "none"
        /\ ledger' = [ledger EXCEPT ![c] = "STARTED"]
        /\ pc' = [pc EXCEPT ![x] = "handle"]
    BY <1>1, <1>2 DEF BeginConsumerEffect, Fresh
  <2>2. Handling(x)' /\ Current(x)' = c /\ \A w \in Workers \ {x} :
          Current(w)' = Current(w) /\ (Handling(w)' <=> Handling(w))
    BY <1>1, <2>1 DEF TypeOK, Current, Handling
  <2>3. Running(c)' /\ \A e \in Events \ {c} : Running(e)' <=> Running(e)
    BY <1>1, <2>2 DEF Running, Handling
  <2>4. RunState(c) = "unseen" /\ RunState(c)' = "running"
    BY <1>1, <2>1, <2>3 DEF TypeOK, RunState, Running
  <2>5. \A e \in Events \ {c} : RunState(e)' = RunState(e)
    BY <1>1, <2>1, <2>3 DEF TypeOK, RunState, Running
  <2>6. AbsRun' = [AbsRun EXCEPT ![c] = "running"]
    BY <1>1, <2>4, <2>5 DEF AbsRun
  <2>7. AbsRun[c] = "unseen"
    BY <1>1, <2>4 DEF AbsRun
  <2> QED
    BY <1>1, <2>6, <2>7 DEF Effect!Next, Effect!Start, AbsRun
<1>3. CASE ~Fresh(c)
  <2>1. UNCHANGED ledger /\ pc' = [pc EXCEPT ![x] = "commit"]
    BY <1>1, <1>3 DEF BeginConsumerEffect
  <2>2. \A e \in Events : Running(e)' <=> Running(e)
    BY <1>1, <2>1 DEF TypeOK, Running, Handling, Current
  <2> QED
    BY <1>1, <2>1, <2>2, RunUnchanged
<1> QED
  BY <1>2, <1>3

\* A write of the handler is a write of the running abstract run.
LEMMA WriteImplements ==
  ASSUME IInv, IInv', NEW x \in Workers, Write(x)
  PROVE  Effect!Next
<1> USE DEF IInv
<1>1. PICK c \in Events :
      /\ c = Current(x) /\ Handling(x) /\ step[x] < Steps
      /\ writes' = [writes EXCEPT ![c] = @ + 1]
      /\ UNCHANGED <<ledger, pc, pos>>
  BY CurrentIsEvent DEF Write, Handling
<1>2. AbsRun' = AbsRun
  BY <1>1, RunUnchanged DEF Running, Handling, Current
<1>3. ledger[c] = "STARTED" /\ writes[c] < Steps /\ Running(c)
  BY <1>1 DEF HandlerOwnsRow, Running
<1>4. AbsRun[c] = "running"
  BY <1>1, <1>3, RunStateValue DEF AbsRun
<1> QED
  BY <1>1, <1>2, <1>3, <1>4 DEF Effect!Next, Effect!Write, AbsRun

\* Completing the ledger row finishes the abstract run.
LEMMA CompleteImplements ==
  ASSUME IInv, IInv', NEW x \in Workers, CompleteConsumerEffect(x)
  PROVE  Effect!Next
<1> USE DEF IInv
<1>1. PICK c \in Events :
      /\ c = Current(x) /\ Handling(x) /\ step[x] = Steps
      /\ ledger' = [ledger EXCEPT ![c] = "SUCCEEDED"]
      /\ pc' = [pc EXCEPT ![x] = "commit"]
      /\ UNCHANGED <<writes, pos>>
  BY CurrentIsEvent DEF CompleteConsumerEffect, Handling
<1>2. ledger[c] = "STARTED" /\ writes[c] = Steps /\ Running(c)
  BY <1>1 DEF HandlerOwnsRow, Running
<1>3. \A e \in Events \ {c} : Running(e)' <=> Running(e)
  BY <1>1 DEF TypeOK, Running, Handling, Current
<1>4. RunState(c) = "running" /\ RunState(c)' = "finished"
  BY <1>1, <1>2 DEF TypeOK, RunState, Running
<1>5. \A e \in Events \ {c} : RunState(e)' = RunState(e)
  BY <1>1, <1>3 DEF TypeOK, RunState, Running
<1>6. AbsRun' = [AbsRun EXCEPT ![c] = "finished"] /\ AbsRun[c] = "running"
  BY <1>1, <1>4, <1>5 DEF AbsRun
<1> QED
  BY <1>1, <1>2, <1>6 DEF Effect!Next, Effect!Finish, AbsRun

(***************************************************************************)
(* A handler that leaves abandons its run; nobody else is running it.      *)
(***************************************************************************)
LEMMA LeaveImplements ==
  ASSUME IInv, IInv', NEW x \in Workers, Leave(x),
         UNCHANGED <<ledger, writes, pos>>
  PROVE  Effect!Next \/ UNCHANGED <<AbsRun, writes>>
<1> USE DEF IInv
<1>1. pc' = [pc EXCEPT ![x] = "down"]
  BY DEF Leave
<1>2. \A w \in Workers : Current(w)' = Current(w)
                        /\ (Handling(w)' <=> w # x /\ Handling(w))
  BY <1>1 DEF TypeOK, Current, Handling
<1>3. CASE ~Handling(x)
  <2>1. \A e \in Events : Running(e)' <=> Running(e)
    BY <1>2, <1>3 DEF Running
  <2> QED
    BY <2>1, RunUnchanged
<1>4. CASE Handling(x)
  <2>1. PICK c \in Events :
          c = Current(x) /\ ledger[c] = "STARTED" /\ Running(c)
    BY <1>4, CurrentIsEvent DEF HandlerOwnsRow, Handling, Running
  <2>2. ~Running(c)' /\ \A e \in Events \ {c} : Running(e)' <=> Running(e)
    BY <1>2, <1>4, <2>1 DEF HandlerOwnsRow, Running
  <2>3. RunState(c) = "running" /\ RunState(c)' = "abandoned"
    BY <2>1, <2>2 DEF RunState, Running
  <2>4. \A e \in Events \ {c} : RunState(e)' = RunState(e)
    BY <2>1, <2>2 DEF TypeOK, RunState, Running
  <2>5. AbsRun' = [AbsRun EXCEPT ![c] = "abandoned"] /\ AbsRun[c] = "running"
    BY <2>1, <2>3, <2>4 DEF AbsRun
  <2> QED
    BY <2>1, <2>5 DEF Effect!Next, Effect!Abandon, AbsRun
<1> QED
  BY <1>3, <1>4

\* Assignments, polls, commits and restarts are stutters: none handles.
LEMMA IdleImplements ==
  ASSUME IInv, IInv', NEW x \in Workers,
         Assign(x) \/ Poll(x) \/ Commit(x) \/ Restart(x)
  PROVE  UNCHANGED <<AbsRun, writes>>
<1> USE DEF IInv
<1>1. /\ UNCHANGED <<ledger, writes>> /\ ~Handling(x) /\ ~Handling(x)'
      /\ \A w \in Workers \ {x} : pc'[w] = pc[w] /\ pos'[w] = pos[w]
  BY DEF Assign, Poll, Commit, Restart, Handling, TypeOK
<1>2. \A e \in Events : Running(e)' <=> Running(e)
  BY <1>1 DEF Running, Handling, Current
<1> QED
  BY <1>1, <1>2, RunUnchanged

(***************************************************************************)
(* The consumer group implements AtMostOnceEffect: each event gets one run *)
(* however often it is delivered and whoever dies.                         *)
(***************************************************************************)
THEOREM ImplementsAtMostOnce == Spec => AtMostOnce
<1>1. Init => Effect!Init
  BY DEF Init, Effect!Init, RunState
<1>2. IInv /\ IInv' /\ [Next]_vars => [Effect!Next]_<<AbsRun, writes>>
  <2> SUFFICES ASSUME IInv, IInv', [Next]_vars
               PROVE  Effect!Next \/ UNCHANGED <<AbsRun, writes>>
    OBVIOUS
  <2>1. ASSUME NEW w \in Workers, Assign(w) \/ Poll(w) \/ Commit(w) \/ Restart(w)
        PROVE  UNCHANGED <<AbsRun, writes>>
    BY <2>1, IdleImplements
  <2>2. ASSUME NEW w \in Workers, BeginConsumerEffect(w)
        PROVE  Effect!Next \/ UNCHANGED <<AbsRun, writes>>
    BY <2>2, BeginImplements
  <2>3. ASSUME NEW w \in Workers, Write(w) \/ CompleteConsumerEffect(w)
        PROVE  Effect!Next
    BY <2>3, WriteImplements, CompleteImplements
  <2>4. ASSUME NEW w \in Workers, Raise(w) \/ RaiseEarly(w) \/ CommitFenced(w) \/ Crash(w)
        PROVE  Effect!Next \/ UNCHANGED <<AbsRun, writes>>
    BY <2>4, LeaveImplements DEF Raise, RaiseEarly, CommitFenced, Crash
  <2>5. CASE UNCHANGED vars
    BY <2>5 DEF vars, AbsRun, RunState, Handling, Current
  <2> QED
    BY <2>1, <2>2, <2>3, <2>4, <2>5 DEF Next, Loop
<1> QED
  BY <1>1, <1>2, Inductive, PTL DEF Spec, AtMostOnce, Effect!Spec, AbsRun


-----------------------------------------------------------------------------
(***************************************************************************)
(* The model adapters that the turns of a process share, for any number of *)
(* turns, any retry and breaker settings and answers of any length: an     *)
(* answer that no server cut short is the text of one response, and it is  *)
(* the response of the attempt that was made last.                         *)
(*                                                                         *)
(* An abort can only spoil this by hitting a turn that has its answer      *)
(* already.  It cannot, for whatever the adapter has registered as active  *)
(* belongs to a turn which is still reading (ActiveReads).                 *)
(***************************************************************************)
CallPlaces == {"ended", "retrieving", "reranking", "prompting", "streaming", "completing",
   "stopping"}

\* The variables stay within what they are about (Init, every action).
CallTypes ==
  /\ provider \in {"llamacpp", "openai"}
  /\ active \in Turns \cup {Nobody}
  /\ at \in [Turns -> CallPlaces]
  /\ attempt \in [Turns -> Nat]
  /\ response \in [Turns -> {"none", "open", "aborted", "finished", "stopped"}]
  /\ chunks \in [Turns -> Seq(Nat)]
  /\ short \in [Turns -> BOOLEAN]
  /\ result \in [Turns -> {"none", "answer", "overflow", "error", "left"}]
  /\ failures \in Nat /\ open \in BOOLEAN

\* The one registered response belongs to a turn that is reading it; llama.cpp's
\* adapter registers none.
ActiveReads ==
  active # Nobody => provider = "openai" /\ at[active] = "streaming" /\ response[active] = "open"

\* What a turn holds came with the attempt it is at, unless a response of its
\* stream stopped without a word; a completion starts from nothing.
OfThisAttempt(t) ==
  /\ ~short[t] => \A i \in DOMAIN chunks[t] : chunks[t][i] = attempt[t]
  /\ at[t] = "completing" => chunks[t] = <<>>

\* A turn that has an answer reads no more, and the response of it was finished.
HasFinished(t) ==
  result[t] = "answer" =>
    /\ at[t] \in {"stopping", "ended"}
    /\ ~short[t] => response[t] = "finished"

CallInv ==
  /\ CallTypes
  /\ ActiveReads
  /\ \A t \in Turns : OfThisAttempt(t) /\ HasFinished(t)

-----------------------------------------------------------------------------
LEMMA CallsBegin == Calls!CallsAssumption /\ Calls!Init => CallInv
<1> SUFFICES ASSUME Calls!CallsAssumption, Calls!Init PROVE CallInv
  OBVIOUS
<1>1. CallTypes
  <2>1. <<>> \in Seq(Nat)
    OBVIOUS
  <2>2. QED
    BY <2>1 DEF Calls!CallsAssumption, Calls!Init, CallTypes, CallPlaces
<1>2. ActiveReads
  BY DEF Calls!Init, ActiveReads
<1>3. ASSUME NEW t \in Turns PROVE OfThisAttempt(t) /\ HasFinished(t)
  BY DEF Calls!Init, OfThisAttempt, HasFinished
<1>4. QED
  BY <1>1, <1>2, <1>3 DEF CallInv

\* The reranker's actions, and the first step of the stream, leave alone what
\* an attempt has brought and where its response stands.
LEMMA RerankerInvariant ==
  ASSUME Calls!CallsAssumption, CallInv, NEW t \in Turns,
         Calls!Bypass(t) \/ Calls!AskReranker(t) \/ Calls!RerankSucceeds(t)
         \/ Calls!RerankFails(t) \/ Calls!Stream(t)
  PROVE  CallInv'
<1> USE DEF CallInv
<1>1. /\ \E here, there \in CallPlaces : at[t] = here /\ at' = [at EXCEPT ![t] = there]
      /\ at[t] \in {"retrieving", "reranking", "prompting"}
      /\ at'[t] \in {"reranking", "prompting", "streaming"}
      /\ UNCHANGED <<provider, active, attempt, response, chunks, short, result>>
  BY DEF CallTypes, CallPlaces, Calls!Bypass, Calls!AskReranker, Calls!RerankSucceeds,
     Calls!RerankFails, Calls!Stream, Calls!Goto, Calls!call
<1>2. failures' \in Nat /\ open' \in BOOLEAN
  <2>1. CASE Calls!Bypass(t) \/ Calls!Stream(t)
    BY <2>1 DEF CallTypes, Calls!Bypass, Calls!Stream, Calls!circuit
  <2>2. CASE Calls!AskReranker(t) \/ Calls!RerankSucceeds(t)
    <3>1. failures' \in {failures, 0} /\ open' = FALSE
      BY <2>2, ZenonT(30) DEF Calls!AskReranker, Calls!RerankSucceeds
    <3>2. failures \in Nat
      BY DEF CallTypes
    <3>3. failures' \in Nat
      BY <3>1, <3>2
    <3>4. open' \in BOOLEAN
      BY <3>1
    <3>5. QED
      BY <3>3, <3>4
  <2>3. CASE Calls!RerankFails(t)
    <3>1. failures' \in Nat
      BY <2>3 DEF CallTypes, Calls!RerankFails
    <3>2. (open \/ failures' >= Threshold) \in BOOLEAN
      OBVIOUS
    <3>3. QED
      BY <2>3, <3>1, <3>2 DEF Calls!RerankFails
  <2>4. QED
    BY <2>1, <2>2, <2>3
<1>3. CallTypes'
  BY <1>1, <1>2 DEF CallTypes
<1>4. ActiveReads'
  BY <1>1 DEF CallTypes, Calls!CallsAssumption, ActiveReads
<1>5. ASSUME NEW u \in Turns PROVE (OfThisAttempt(u) /\ HasFinished(u))'
  BY <1>1 DEF CallTypes, OfThisAttempt, HasFinished
<1>6. QED
  BY <1>3, <1>4, <1>5

LEMMA BeginInvariant ==
  ASSUME Calls!CallsAssumption, CallInv, NEW t \in Turns, Calls!Begin(t)
  PROVE  CallInv'
<1> USE DEF CallInv
<1>1. CallTypes'
  BY DEF CallTypes, CallPlaces, Calls!Begin, Calls!Goto, Calls!circuit
<1>2. ActiveReads'
  BY DEF CallTypes, Calls!CallsAssumption, ActiveReads, Calls!Begin, Calls!Goto
<1>3. ASSUME NEW u \in Turns PROVE (OfThisAttempt(u) /\ HasFinished(u))'
  BY DEF CallTypes, OfThisAttempt, HasFinished, Calls!Begin, Calls!Goto
<1>4. QED
  BY <1>1, <1>2, <1>3

LEMMA RespondInvariant ==
  ASSUME Calls!CallsAssumption, CallInv, NEW t \in Turns, Calls!Respond(t)
  PROVE  CallInv'
<1> USE DEF CallInv
<1>1. CallTypes'
  BY DEF CallTypes, Calls!Respond, Calls!circuit
<1>2. ActiveReads'
  BY DEF CallTypes, Calls!CallsAssumption, ActiveReads, Calls!Respond
<1>3. ASSUME NEW u \in Turns PROVE (OfThisAttempt(u) /\ HasFinished(u))'
  BY DEF CallTypes, OfThisAttempt, HasFinished, Calls!Respond
<1>4. QED
  BY <1>1, <1>2, <1>3

\* A chunk is of the attempt under way, like those before it.
LEMMA ChunkInvariant ==
  ASSUME Calls!CallsAssumption, CallInv, NEW t \in Turns, Calls!Chunk(t)
  PROVE  CallInv'
<1> USE DEF CallInv
<1>1. CallTypes'
  BY DEF CallTypes, Calls!Chunk, Calls!circuit
<1>2. ActiveReads'
  BY DEF ActiveReads, Calls!Chunk
<1>3. ASSUME NEW u \in Turns PROVE (OfThisAttempt(u) /\ HasFinished(u))'
  <2>1. HasFinished(u)'
    BY DEF HasFinished, Calls!Chunk, Calls!circuit
  <2>2. CASE u = t
    BY <2>1, <2>2 DEF CallTypes, OfThisAttempt, Calls!Chunk
  <2>3. CASE u # t
    BY <2>1, <2>3 DEF CallTypes, OfThisAttempt, Calls!Chunk
  <2>4. QED
    BY <2>2, <2>3
<1>4. QED
  BY <1>1, <1>2, <1>3

-----------------------------------------------------------------------------
(***************************************************************************)
(* How an attempt ends.  In each case the turn has no active response any  *)
(* more: if it had one, Forget takes it away.                              *)
(***************************************************************************)
LEMMA ForgetsOwn ==
  ASSUME Calls!CallsAssumption, CallInv, NEW t \in Turns, Calls!Forget(t)
  PROVE  /\ active' \in {active, Nobody}
         /\ active' # t
  BY DEF Calls!CallsAssumption, CallInv, CallTypes, ActiveReads, Calls!Forget

\* Another attempt begins from nothing unless a response stopped short.
LEMMA TryAgainInvariant ==
  ASSUME Calls!CallsAssumption, CallInv, NEW t \in Turns, at[t] \in {"streaming", "completing"},
         Calls!TryAgain(t), active' \in {active, Nobody}, active' # t,
         \/ ~Calls!Yielded(t) /\ UNCHANGED short
         \/ short' = [short EXCEPT ![t] = TRUE] /\ at[t] = "streaming",
         UNCHANGED <<provider, Calls!circuit>>
  PROVE  CallInv'
<1> USE DEF CallInv
<1>1. CallTypes'
  <2>1. attempt' \in [Turns -> Nat]
    BY DEF CallTypes, Calls!TryAgain
  <2>2. short' \in [Turns -> BOOLEAN]
    BY DEF CallTypes
  <2>3. QED
    BY <2>1, <2>2 DEF CallTypes, Calls!TryAgain, Calls!circuit
<1>2. ActiveReads'
  BY DEF CallTypes, ActiveReads, Calls!TryAgain
<1>3. ASSUME NEW u \in Turns PROVE (OfThisAttempt(u) /\ HasFinished(u))'
  <2>1. HasFinished(u)'
    BY DEF CallTypes, HasFinished, Calls!TryAgain
  <2>2. OfThisAttempt(u)'
    <3>1. CASE u # t
      BY <3>1 DEF CallTypes, OfThisAttempt, Calls!TryAgain
    <3>2. CASE u = t /\ ~Calls!Yielded(t) /\ UNCHANGED short
      BY <3>2 DEF CallTypes, OfThisAttempt, Calls!TryAgain, Calls!Yielded
    <3>3. CASE u = t /\ short' = [short EXCEPT ![t] = TRUE] /\ at[t] = "streaming"
      BY <3>3 DEF CallTypes, OfThisAttempt, Calls!TryAgain
    <3>4. QED
      BY <3>1, <3>2, <3>3
  <2>3. QED
    BY <2>1, <2>2
<1>4. QED
  BY <1>1, <1>2, <1>3

LEMMA FallBackInvariant ==
  ASSUME Calls!CallsAssumption, CallInv, NEW t \in Turns, at[t] = "streaming",
         Calls!FallBack(t), active' \in {active, Nobody}, active' # t,
         UNCHANGED <<provider, Calls!circuit>>
  PROVE  CallInv'
<1> USE DEF CallInv
<1>1. CallTypes'
  <2>1. <<>> \in Seq(Nat)
    OBVIOUS
  <2>2. QED
    BY <2>1 DEF CallTypes, CallPlaces, Calls!FallBack, Calls!Goto, Calls!circuit
<1>2. ActiveReads'
  BY DEF CallTypes, ActiveReads, Calls!FallBack, Calls!Goto
<1>3. ASSUME NEW u \in Turns PROVE (OfThisAttempt(u) /\ HasFinished(u))'
  BY DEF CallTypes, OfThisAttempt, HasFinished, Calls!FallBack, Calls!Goto
<1>4. QED
  BY <1>1, <1>2, <1>3

\* An end with an answer, or with none.
LEMMA EndInvariant ==
  ASSUME Calls!CallsAssumption, CallInv, NEW t \in Turns, NEW how \in {"answer", "overflow",
     "error", "left"},
         Calls!Ends(t, how), active' \in {active, Nobody}, active' # t,
         NEW state \in {"none", "open", "aborted", "finished", "stopped"},
         response' = [response EXCEPT ![t] = state],
         NEW cut \in BOOLEAN,
         short' = [short EXCEPT ![t] = cut],
         NEW text \in Seq(Nat),
         chunks' = [chunks EXCEPT ![t] = text],
         ~cut => \A i \in DOMAIN text : text[i] = attempt[t],
         how = "answer" /\ ~cut => state = "finished",
         UNCHANGED <<provider, attempt, Calls!circuit>>
  PROVE  CallInv'
<1> USE DEF CallInv
<1>1. CallTypes'
  BY DEF CallTypes, CallPlaces, Calls!Ends, Calls!Goto, Calls!circuit
<1>2. ActiveReads'
  BY DEF CallTypes, ActiveReads, Calls!Ends, Calls!Goto
<1>3. ASSUME NEW u \in Turns PROVE (OfThisAttempt(u) /\ HasFinished(u))'
  <2>1. CASE u = t
    BY <2>1 DEF CallTypes, OfThisAttempt, HasFinished, Calls!Ends, Calls!Goto
  <2>2. CASE u # t
    BY <2>2 DEF CallTypes, OfThisAttempt, HasFinished, Calls!Ends, Calls!Goto
  <2>3. QED
    BY <2>1, <2>2
<1>4. QED
  BY <1>1, <1>2, <1>3

-----------------------------------------------------------------------------
LEMMA StreamFailsInvariant ==
  ASSUME Calls!CallsAssumption, CallInv, NEW t \in Turns, Calls!StreamFails(t)
  PROVE  CallInv'
<1>1. /\ at[t] = "streaming"
      /\ UNCHANGED <<provider, Calls!circuit>>
  BY DEF Calls!StreamFails
<1>2. active' \in {active, Nobody} /\ active' # t
  BY ForgetsOwn DEF Calls!StreamFails
<1>3. PICK how \in Calls!Failures :
        IF Calls!StreamRetries(how) /\ ~Calls!Yielded(t) /\ Calls!CanRetry(t)
        THEN Calls!TryAgain(t) /\ UNCHANGED short
        ELSE Calls!FallBack(t)
  BY DEF Calls!StreamFails
<1>4. CASE Calls!StreamRetries(how) /\ ~Calls!Yielded(t) /\ Calls!CanRetry(t)
  BY <1>1, <1>2, <1>3, <1>4, TryAgainInvariant
<1>5. CASE ~(Calls!StreamRetries(how) /\ ~Calls!Yielded(t) /\ Calls!CanRetry(t))
  BY <1>1, <1>2, <1>3, <1>5, FallBackInvariant
<1>6. QED
  BY <1>4, <1>5

LEMMA StreamEndsInvariant ==
  ASSUME Calls!CallsAssumption, CallInv, NEW t \in Turns, Calls!StreamEnds(t)
  PROVE  CallInv'
<1>1. /\ at[t] = "streaming"
      /\ UNCHANGED <<provider, Calls!circuit>>
  BY DEF Calls!StreamEnds
<1>2. active' \in {active, Nobody} /\ active' # t
  BY ForgetsOwn DEF Calls!StreamEnds
<1>3. CASE chunks[t] = <<>>
  BY <1>1, <1>2, <1>3, FallBackInvariant DEF Calls!StreamEnds
<1>4. CASE chunks[t] # <<>>
  <2>1. /\ Calls!Ends(t, "answer")
        /\ response' = [response EXCEPT ![t] = "finished"]
        /\ UNCHANGED <<attempt, chunks, short>>
    BY <1>4 DEF Calls!StreamEnds
  <2>2. /\ chunks[t] \in Seq(Nat) /\ chunks' = [chunks EXCEPT ![t] = chunks[t]]
        /\ short[t] \in BOOLEAN /\ short' = [short EXCEPT ![t] = short[t]]
    BY <2>1 DEF CallInv, CallTypes
  <2>3. ~short[t] => \A i \in DOMAIN chunks[t] : chunks[t][i] = attempt[t]
    BY DEF CallInv, OfThisAttempt
  <2>4. QED
    BY <1>1, <1>2, <2>1, <2>2, <2>3, EndInvariant
<1>5. QED
  BY <1>3, <1>4

LEMMA StreamStopsInvariant ==
  ASSUME Calls!CallsAssumption, CallInv, NEW t \in Turns, Calls!StreamStops(t)
  PROVE  CallInv'
<1>1. /\ at[t] = "streaming"
      /\ UNCHANGED <<provider, Calls!circuit>>
  BY DEF Calls!StreamStops
<1>2. active' \in {active, Nobody} /\ active' # t
  BY ForgetsOwn DEF Calls!StreamStops
<1>3. CASE /\ Calls!Ends(t, "answer")
           /\ short' = [short EXCEPT ![t] = TRUE]
           /\ response' = [response EXCEPT ![t] = "stopped"]
           /\ UNCHANGED <<attempt, chunks>>
  <2>1. chunks[t] \in Seq(Nat) /\ chunks' = [chunks EXCEPT ![t] = chunks[t]]
    BY <1>3 DEF CallInv, CallTypes
  <2>2. QED
    BY <1>1, <1>2, <1>3, <2>1, EndInvariant
<1>4. CASE Calls!TryAgain(t) /\ short' = [short EXCEPT ![t] = TRUE]
  BY <1>1, <1>2, <1>4, TryAgainInvariant
<1>5. CASE Calls!FallBack(t)
  BY <1>1, <1>2, <1>5, FallBackInvariant
<1>6. QED
  BY <1>3, <1>4, <1>5 DEF Calls!StreamStops

\* A completion's text is that of the attempt that brought it.
LEMMA CompletionInvariant ==
  ASSUME Calls!CallsAssumption, CallInv, NEW t \in Turns, Calls!CompletionSucceeds(t)
     \/ Calls!CompletionFails(t)
  PROVE  CallInv'
<1>1. /\ at[t] = "completing"
      /\ UNCHANGED <<provider, active, Calls!circuit>>
  BY DEF Calls!CompletionSucceeds, Calls!CompletionFails
<1>2. active' \in {active, Nobody} /\ active' # t
  BY <1>1 DEF Calls!CallsAssumption, CallInv, CallTypes, ActiveReads
<1>3. /\ chunks[t] = <<>> /\ chunks = [chunks EXCEPT ![t] = <<>>]
      /\ short[t] \in BOOLEAN /\ short = [short EXCEPT ![t] = short[t]]
      /\ response = [response EXCEPT ![t] = response[t]]
      /\ response[t] \in {"none", "open", "aborted", "finished", "stopped"}
      /\ attempt[t] \in Nat
  BY <1>1 DEF CallInv, CallTypes, OfThisAttempt
<1>4. /\ <<>> \in Seq(Nat) /\ \A i \in DOMAIN <<>> : <<>>[i] = attempt[t]
      /\ <<attempt[t]>> \in Seq(Nat)
      /\ \A i \in DOMAIN <<attempt[t]>> : <<attempt[t]>>[i] = attempt[t]
  BY <1>3
<1>5. CASE Calls!CompletionSucceeds(t)
  <2>1. /\ Calls!Ends(t, "answer")
        /\ response' = [response EXCEPT ![t] = "finished"]
        /\ UNCHANGED <<attempt, short>>
        /\ \/ chunks' = [chunks EXCEPT ![t] = <<>>]
           \/ chunks' = [chunks EXCEPT ![t] = <<attempt[t]>>]
    BY <1>3, <1>5 DEF Calls!CompletionSucceeds
  <2>2. short' = [short EXCEPT ![t] = short[t]]
    BY <1>3, <2>1
  <2>3. QED
    BY <1>1, <1>2, <1>3, <1>4, <2>1, <2>2, EndInvariant
<1>6. CASE Calls!CompletionFails(t)
  <2>1. CASE Calls!TryAgain(t) /\ UNCHANGED short
    <3>1. ~Calls!Yielded(t)
      BY <1>3 DEF Calls!Yielded
    <3>2. QED
      BY <1>1, <1>2, <2>1, <3>1, TryAgainInvariant
  <2>2. ASSUME NEW how \in {"overflow", "error"}, Calls!Ends(t, how), UNCHANGED Calls!call
        PROVE  CallInv'
    <3>1. /\ UNCHANGED attempt
          /\ response' = [response EXCEPT ![t] = response[t]]
          /\ short' = [short EXCEPT ![t] = short[t]]
          /\ chunks' = [chunks EXCEPT ![t] = <<>>]
      BY <1>3, <2>2 DEF Calls!call
    <3>2. /\ how \in {"answer", "overflow", "error", "left"}
          /\ how # "answer"
          /\ UNCHANGED <<provider, attempt, Calls!circuit>>
      BY <1>1, <2>2, <3>1
    <3>3. /\ <<>> \in Seq(Nat)
          /\ ~short[t] => \A i \in DOMAIN <<>> : <<>>[i] = attempt[t]
          /\ short[t] \in BOOLEAN
          /\ response[t] \in {"none", "open", "aborted", "finished", "stopped"}
          /\ how = "answer" /\ ~short[t] => response[t] = "finished"
      BY <1>3, <1>4, <3>2
    <3>4. Calls!Ends(t, how) /\ active' \in {active, Nobody} /\ active' # t
      BY <1>2, <2>2
    <3>5. QED
      BY <3>1, <3>2, <3>3, <3>4, EndInvariant
  <2>3. QED
    BY <1>6, <2>1, <2>2 DEF Calls!CompletionFails
<1>7. QED
  BY <1>5, <1>6

LEMMA CancelInvariant ==
  ASSUME Calls!CallsAssumption, CallInv, NEW t \in Turns, Calls!Cancel(t)
  PROVE  CallInv'
<1>1. /\ Calls!Ends(t, "left")
      /\ response' = [response EXCEPT ![t] = "none"]
      /\ UNCHANGED <<provider, attempt, chunks, short, Calls!circuit>>
  BY DEF Calls!Cancel
<1>2. active' \in {active, Nobody} /\ active' # t
  BY ForgetsOwn DEF Calls!Cancel
<1>3. /\ chunks[t] \in Seq(Nat) /\ chunks' = [chunks EXCEPT ![t] = chunks[t]]
      /\ short[t] \in BOOLEAN /\ short' = [short EXCEPT ![t] = short[t]]
  BY <1>1 DEF CallInv, CallTypes
<1>4. ~short[t] => \A i \in DOMAIN chunks[t] : chunks[t][i] = attempt[t]
  BY DEF CallInv, OfThisAttempt
<1>5. QED
  BY <1>1, <1>2, <1>3, <1>4, EndInvariant

\* The response that an abort closes is one that is being read.
LEMMA StopInvariant ==
  ASSUME Calls!CallsAssumption, CallInv, NEW t \in Turns, Calls!Stop(t)
  PROVE  CallInv'
<1> USE DEF CallInv
<1>1. CallTypes'
  BY DEF CallTypes, CallPlaces, Calls!Stop, Calls!Goto, Calls!circuit
<1>2. ActiveReads'
  BY DEF ActiveReads, Calls!Stop
<1>3. ASSUME NEW u \in Turns PROVE (OfThisAttempt(u) /\ HasFinished(u))'
  <2>1. OfThisAttempt(u)'
    BY DEF CallTypes, OfThisAttempt, Calls!Stop, Calls!Goto
  <2>2. CASE u = t
    BY <2>1, <2>2 DEF CallTypes, ActiveReads, HasFinished, Calls!Stop, Calls!Goto
  <2>3. CASE u # t
    BY <2>1, <2>3 DEF CallTypes, ActiveReads, HasFinished, Calls!Stop, Calls!Goto
  <2>4. QED
    BY <2>2, <2>3
<1>4. QED
  BY <1>1, <1>2, <1>3

(***************************************************************************)
(* The invariant is inductive: it holds at first, and every step of every  *)
(* turn preserves it.                                                      *)
(***************************************************************************)
THEOREM CallsInductive == Calls!Spec => []CallInv
<1> USE CallsAssumed
<1>1. Calls!Init => CallInv
  BY CallsBegin
<1>2. CallInv /\ [Calls!Next]_(Calls!vars) => CallInv'
  <2> SUFFICES ASSUME CallInv, [Calls!Next]_(Calls!vars) PROVE CallInv'
    OBVIOUS
  <2>1. CASE UNCHANGED Calls!vars
    BY <2>1 DEF Calls!vars, Calls!call, Calls!circuit, CallInv, CallTypes, ActiveReads,
       OfThisAttempt, HasFinished
  <2>2. ASSUME NEW t \in Turns, Calls!Begin(t) PROVE CallInv'
    BY <2>2, BeginInvariant
  <2>3. ASSUME NEW t \in Turns, Calls!TurnStep(t) PROVE CallInv'
    BY <2>3, RerankerInvariant, RespondInvariant, ChunkInvariant, StreamFailsInvariant,
       StreamEndsInvariant, StreamStopsInvariant, CompletionInvariant, CancelInvariant,
       StopInvariant DEF Calls!TurnStep
  <2>4. QED
    BY <2>1, <2>2, <2>3 DEF Calls!Next
<1>3. QED
  BY <1>1, <1>2, PTL DEF Calls!Spec

(***************************************************************************)
(* However streams fail, are tried again, are closed by the end of another *)
(* turn or are replaced by a completion: an answer is what one response    *)
(* carried until the model was done with it, unless the server of a stream *)
(* stopped without a word (stream_text, complete, abort).                  *)
(***************************************************************************)
THEOREM AnswersWhole == Calls!Spec => []AnswersAreWhole
<1>1. CallInv => AnswersAreWhole
  BY DEF AnswersAreWhole, CallInv, OfThisAttempt, HasFinished, Calls!AnswersAreWhole
<1>2. QED
  BY <1>1, CallsInductive, PTL

(***************************************************************************)
(* Side by side the workers and the turns do what they may do by           *)
(* themselves: whatever is proved of ConsumerEffect and of ModelCalls      *)
(* holds of WorkersAndTurns, which the runs check.                         *)
(***************************************************************************)
THEOREM BothRun == BothSpec => Spec /\ Calls!Spec
<1>1. BothInit => Init /\ Calls!Init
  BY DEF BothInit
<1>2. [BothNext]_<<vars, callVars>> => [Next]_vars /\ [Calls!Next]_(Calls!vars)
  BY DEF BothNext, callVars, Calls!vars, Calls!call, Calls!circuit
<1>3. QED
  BY <1>1, <1>2, PTL DEF BothSpec, Spec, Calls!Spec
=============================================================================
