---------------------------- MODULE Outbox_proofs ----------------------------
(***************************************************************************)
(* Safety of the outbox for any set of rows and publishers, any batch      *)
(* size and any number of crashes.                                         *)
(***************************************************************************)
EXTENDS Outbox, TLAPS

(***************************************************************************)
(* What makes HandedOverOnce inductive: a row still to be handed over, or  *)
(* not yet claimed, has left no record in the log.                         *)
(***************************************************************************)
Unsent ==
  /\ \A r \in Rows : status[r] \in {"ABSENT", "NEW"} => copies[r] = 0
  /\ \A p \in Publishers : \A r \in todo[p] : copies[r] = 0

\* Within one publisher a row is in one of the three places only.
Placed ==
  \A p \in Publishers :
    /\ todo[p] \cap failed[p] = {}
    /\ todo[p] \cap sentIds[p] = {}
    /\ failed[p] \cap sentIds[p] = {}

IInv ==
  /\ TypeOK
  /\ ClaimsExclusive
  /\ Placed
  /\ Unsent
  /\ HandedOverOnce
  /\ SentIsLogged
  /\ NoStrayTombstone

\* The initial state satisfies the inductive invariant.
LEMMA InitIInv == Init => IInv
<1> SUFFICES ASSUME Init PROVE IInv
  OBVIOUS
<1> USE DEF Init
<1>1. TypeOK
  BY DEF TypeOK
<1>2. ClaimsExclusive
  BY DEF ClaimsExclusive, Held
<1>3. Placed /\ Unsent
  BY DEF Placed, Unsent
<1>4. HandedOverOnce
  BY CopiesAssumption DEF HandedOverOnce
<1>5. SentIsLogged /\ NoStrayTombstone
  BY KindsAssumption DEF SentIsLogged, NoStrayTombstone, WithStatus
<1> QED
  BY <1>1, <1>2, <1>3, <1>4, <1>5 DEF IInv

\* A service's INSERT keeps it: a row nobody can hold yet becomes NEW.
LEMMA AppendStep ==
  ASSUME IInv, NEW x \in Rows, AppendOutboxEvent(x)
  PROVE  IInv'
<1> USE DEF IInv, AppendOutboxEvent
<1>1. TypeOK'
  BY DEF TypeOK
<1>2. ClaimsExclusive'
  BY DEF TypeOK, ClaimsExclusive, Held
<1>3. Placed'
  BY DEF Placed
<1>4. Unsent'
  BY DEF TypeOK, Unsent
<1>5. HandedOverOnce'
  BY DEF HandedOverOnce
<1>6. SentIsLogged'
  BY DEF TypeOK, SentIsLogged, WithStatus
<1>7. NoStrayTombstone'
  BY DEF NoStrayTombstone
<1> QED
  BY <1>1, <1>2, <1>3, <1>4, <1>5, <1>6, <1>7

(***************************************************************************)
(* A claim keeps it: the claimed rows were NEW, hence held by nobody and   *)
(* not in the log.                                                         *)
(***************************************************************************)
LEMMA ClaimStep ==
  ASSUME IInv, NEW x \in Publishers, ClaimOutboxBatch(x)
  PROVE  IInv'
<1> USE DEF IInv
<1>1. PICK b \in (SUBSET Claimable) \ {{}} :
        /\ status' = [r \in Rows |-> IF r \in b THEN "CLAIMED" ELSE status[r]]
        /\ \/ /\ pc' = [pc EXCEPT ![x] = "down"]
              /\ UNCHANGED todo
           \/ /\ pc' = [pc EXCEPT ![x] = "sending"]
              /\ todo' = [todo EXCEPT ![x] = b]
  BY DEF ClaimOutboxBatch
<1>2. UNCHANGED <<copies, failed, sentIds, crashes>>
  BY DEF ClaimOutboxBatch
<1>3. b \subseteq Rows /\ \A r \in b : status[r] = "NEW" /\ copies[r] = 0
  BY <1>1 DEF Claimable, WithStatus, Unsent
<1>4. \A p \in Publishers : b \cap Held(p) = {}
  BY <1>3 DEF ClaimsExclusive
<1>5. TypeOK'
  BY <1>1, <1>2, <1>3 DEF TypeOK
<1>6. \A p \in Publishers : Held(p)' \subseteq (IF p = x THEN Held(p) \cup b ELSE Held(p))
  BY <1>1, <1>2 DEF TypeOK, Held
<1>7. ClaimsExclusive'
  <2>1. \A p, q \in Publishers : p # q => Held(p)' \cap Held(q)' = {}
    BY <1>4, <1>6 DEF ClaimsExclusive
  <2>2. ASSUME NEW p \in Publishers, NEW r \in Held(p)'
        PROVE  status'[r] = "CLAIMED"
    <3>1. r \in Rows
      BY <1>5, <2>2 DEF TypeOK, Held
    <3>2. r \in b \/ status[r] = "CLAIMED"
      BY <1>6, <2>2 DEF ClaimsExclusive
    <3> QED
      BY <1>1, <3>1, <3>2
  <2> QED
    BY <2>1, <2>2 DEF ClaimsExclusive
<1>8. Placed'
  BY <1>1, <1>2, <1>4 DEF TypeOK, Placed, Held
<1>9. Unsent'
  BY <1>1, <1>2, <1>3 DEF TypeOK, Unsent
<1>10. HandedOverOnce'
  BY <1>2 DEF HandedOverOnce
<1>11. SentIsLogged'
  BY <1>1, <1>2 DEF TypeOK, SentIsLogged, WithStatus
<1>12. NoStrayTombstone'
  BY <1>2 DEF NoStrayTombstone
<1> QED
  BY <1>5, <1>7, <1>8, <1>9, <1>10, <1>11, <1>12

(***************************************************************************)
(* An acknowledged send keeps it: the row leaves todo for sentIds with its *)
(* first copies in the log.                                                *)
(***************************************************************************)
LEMMA AcknowledgedStep ==
  ASSUME IInv, NEW x \in Publishers, NEW y \in Rows, SendAcknowledged(x, y)
  PROVE  IInv'
<1> USE DEF IInv
<1>1. PICK n \in 1..BrokerCopies : copies' = [copies EXCEPT ![y] = @ + n]
  BY DEF SendAcknowledged
<1>2. /\ y \in todo[x] /\ ~Refused(y)
      /\ todo' = [todo EXCEPT ![x] = @ \ {y}]
      /\ sentIds' = [sentIds EXCEPT ![x] = @ \cup {y}]
      /\ UNCHANGED <<status, pc, failed, crashes>>
  BY DEF SendAcknowledged
<1>3. copies[y] = 0 /\ n \in Nat /\ n > 0 /\ n <= BrokerCopies
  BY <1>1, <1>2, CopiesAssumption DEF Unsent
<1>4. copies'[y] = n /\ \A r \in Rows : r # y => copies'[r] = copies[r]
  BY <1>1, <1>3 DEF TypeOK
<1>5. TypeOK'
  BY <1>1, <1>2, <1>3 DEF TypeOK
<1>6. \A p \in Publishers : Held(p)' = Held(p)
  BY <1>2 DEF TypeOK, Held
<1>7. ClaimsExclusive'
  BY <1>2, <1>6 DEF ClaimsExclusive
<1>8. Placed'
  BY <1>2 DEF TypeOK, Placed
<1>9. status[y] = "CLAIMED" /\ \A p \in Publishers \ {x} : y \notin todo[p]
  BY <1>2 DEF ClaimsExclusive, Held
<1>10. Unsent'
  BY <1>2, <1>4, <1>9 DEF TypeOK, Unsent
<1>11. HandedOverOnce'
  BY <1>3, <1>4 DEF HandedOverOnce
<1>12. SentIsLogged'
  BY <1>2, <1>3, <1>4 DEF TypeOK, SentIsLogged, WithStatus
<1>13. NoStrayTombstone'
  BY <1>2, <1>4, KindsAssumption DEF NoStrayTombstone, Refused
<1> QED
  BY <1>5, <1>7, <1>8, <1>10, <1>11, <1>12, <1>13

(***************************************************************************)
(* A send that raises keeps it, whether or not the record was written.     *)
(***************************************************************************)
LEMMA RaisesStep ==
  ASSUME IInv, NEW x \in Publishers, NEW y \in Rows, SendRaises(x, y)
  PROVE  IInv'
<1> USE DEF IInv
<1>1. PICK n \in 0..BrokerCopies :
        /\ (Refused(y) \/ DoubleEncode) => n = 0
        /\ copies' = [copies EXCEPT ![y] = @ + n]
  BY DEF SendRaises
<1>2. /\ y \in todo[x]
      /\ pc' = [pc EXCEPT ![x] = "marking"]
      /\ todo' = [todo EXCEPT ![x] = @ \ {y}]
      /\ failed' = [failed EXCEPT ![x] = {y}]
      /\ UNCHANGED <<status, sentIds, crashes>>
  BY DEF SendRaises
<1>3. copies[y] = 0 /\ n \in Nat /\ n <= BrokerCopies
  BY <1>1, <1>2, CopiesAssumption DEF Unsent
<1>4. copies'[y] = n /\ \A r \in Rows : r # y => copies'[r] = copies[r]
  BY <1>1, <1>3 DEF TypeOK
<1>5. TypeOK'
  BY <1>1, <1>2, <1>3 DEF TypeOK
<1>6. \A p \in Publishers : Held(p)' \subseteq Held(p)
  BY <1>2 DEF TypeOK, Held
<1>7. ClaimsExclusive'
  <2>1. \A p, q \in Publishers : p # q => Held(p)' \cap Held(q)' = {}
    BY <1>6 DEF ClaimsExclusive
  <2>2. \A p \in Publishers : \A r \in Held(p)' : status'[r] = "CLAIMED"
    BY <1>2, <1>6 DEF ClaimsExclusive
  <2> QED
    BY <2>1, <2>2 DEF ClaimsExclusive
<1>8. Placed'
  BY <1>2 DEF TypeOK, Placed
<1>9. status[y] = "CLAIMED" /\ \A p \in Publishers \ {x} : y \notin todo[p]
  BY <1>2 DEF ClaimsExclusive, Held
<1>10. Unsent'
  BY <1>2, <1>4, <1>9 DEF TypeOK, Unsent
<1>11. HandedOverOnce'
  BY <1>3, <1>4 DEF HandedOverOnce
<1>12. SentIsLogged'
  <2>1. \A p \in Publishers : y \notin sentIds[p]
    BY <1>2 DEF ClaimsExclusive, Held, Placed
  <2> QED
    BY <1>2, <1>4, <1>9, <2>1 DEF TypeOK, SentIsLogged, WithStatus
<1>13. NoStrayTombstone'
  <2>1. ASSUME NEW r \in Tombstones \ OnCompacted
        PROVE  copies'[r] = 0
    <3>1. r \in Rows /\ Refused(r)
      BY KindsAssumption DEF Refused
    <3>2. CASE r = y
      BY <1>1, <1>4, <3>1, <3>2
    <3>3. CASE r # y
      BY <1>4, <3>1, <3>3 DEF NoStrayTombstone
    <3> QED
      BY <3>2, <3>3
  <2> QED
    BY <2>1 DEF NoStrayTombstone
<1> QED
  BY <1>5, <1>7, <1>8, <1>10, <1>11, <1>12, <1>13

(***************************************************************************)
(* Marking a batch's rows keeps it: only rows this publisher holds change  *)
(* status, and it lets go of them.                                         *)
(***************************************************************************)
LEMMA MarkErrorStep ==
  ASSUME IInv, NEW x \in Publishers, MarkOutboxError(x)
  PROVE  IInv'
<1> USE DEF IInv
<1>1. /\ status' = [r \in Rows |-> IF r \in failed[x] THEN "ERROR" ELSE status[r]]
      /\ pc' = [pc EXCEPT ![x] = "sending"]
      /\ failed' = [failed EXCEPT ![x] = {}]
      /\ UNCHANGED <<copies, todo, sentIds, crashes>>
  BY DEF MarkOutboxError, ErrorStatus
<1>2. TypeOK'
  BY <1>1 DEF TypeOK
<1>3. \A p \in Publishers : Held(p)' \subseteq Held(p) \ failed[x]
  BY <1>1 DEF TypeOK, Held, Placed, ClaimsExclusive
<1>4. ClaimsExclusive'
  <2>1. \A p, q \in Publishers : p # q => Held(p)' \cap Held(q)' = {}
    BY <1>3 DEF ClaimsExclusive
  <2>2. \A p \in Publishers : \A r \in Held(p)' : status'[r] = "CLAIMED"
    BY <1>1, <1>2, <1>3 DEF TypeOK, Held, ClaimsExclusive
  <2> QED
    BY <2>1, <2>2 DEF ClaimsExclusive
<1>5. Placed'
  BY <1>1 DEF TypeOK, Placed
<1>6. Unsent' /\ HandedOverOnce'
  BY <1>1 DEF TypeOK, Unsent, HandedOverOnce
<1>7. SentIsLogged' /\ NoStrayTombstone'
  BY <1>1 DEF TypeOK, SentIsLogged, WithStatus, NoStrayTombstone
<1> QED
  BY <1>2, <1>4, <1>5, <1>6, <1>7

\* mark_outbox_sent keeps it: every id in sent_ids has a record in the log.
LEMMA MarkSentStep ==
  ASSUME IInv, NEW x \in Publishers, MarkOutboxSent(x)
  PROVE  IInv'
<1> USE DEF IInv
<1>1. /\ status' = [r \in Rows |-> IF r \in sentIds[x] THEN "SENT" ELSE status[r]]
      /\ pc' = [pc EXCEPT ![x] = "idle"]
      /\ sentIds' = [sentIds EXCEPT ![x] = {}]
      /\ UNCHANGED <<copies, todo, failed, crashes>>
  BY DEF MarkOutboxSent
<1>2. TypeOK'
  BY <1>1 DEF TypeOK
<1>3. \A p \in Publishers : Held(p)' \subseteq Held(p) \ sentIds[x]
  BY <1>1 DEF TypeOK, Held, Placed, ClaimsExclusive
<1>4. ClaimsExclusive'
  <2>1. \A p, q \in Publishers : p # q => Held(p)' \cap Held(q)' = {}
    BY <1>3 DEF ClaimsExclusive
  <2>2. \A p \in Publishers : \A r \in Held(p)' : status'[r] = "CLAIMED"
    BY <1>1, <1>2, <1>3 DEF TypeOK, Held, ClaimsExclusive
  <2> QED
    BY <2>1, <2>2 DEF ClaimsExclusive
<1>5. Placed'
  BY <1>1 DEF TypeOK, Placed
<1>6. Unsent' /\ HandedOverOnce'
  BY <1>1 DEF TypeOK, Unsent, HandedOverOnce
<1>7. SentIsLogged' /\ NoStrayTombstone'
  BY <1>1 DEF TypeOK, SentIsLogged, WithStatus, NoStrayTombstone
<1> QED
  BY <1>2, <1>4, <1>5, <1>6, <1>7

\* A crash keeps it: the publisher forgets its rows, which stay CLAIMED.
LEMMA CrashStep ==
  ASSUME IInv, NEW x \in Publishers, Crash(x)
  PROVE  IInv'
<1> USE DEF IInv, Crash
<1>1. TypeOK'
  BY DEF TypeOK
<1>2. \A p \in Publishers : Held(p)' \subseteq Held(p)
  BY DEF TypeOK, Held
<1>3. ClaimsExclusive'
  BY <1>2 DEF ClaimsExclusive
<1>4. Placed' /\ Unsent'
  BY DEF TypeOK, Placed, Unsent
<1>5. HandedOverOnce' /\ SentIsLogged' /\ NoStrayTombstone'
  BY DEF TypeOK, HandedOverOnce, SentIsLogged, WithStatus, NoStrayTombstone
<1> QED
  BY <1>1, <1>3, <1>4, <1>5

\* Restarting a process, and a step that changes nothing, keep it.
LEMMA QuietStep ==
  ASSUME IInv, UNCHANGED <<status, copies, todo, failed, sentIds, crashes>>,
         pc' \in [Publishers -> {"idle", "sending", "marking", "down"}]
  PROVE  IInv'
BY DEF IInv, TypeOK, ClaimsExclusive, Held, Placed, Unsent, HandedOverOnce,
       SentIsLogged, WithStatus, NoStrayTombstone

(***************************************************************************)
(* The outbox keeps its inductive invariant.                               *)
(***************************************************************************)
THEOREM Inductive == Spec => []IInv
<1>1. IInv /\ [Next]_vars => IInv'
  <2> SUFFICES ASSUME IInv, [Next]_vars PROVE IInv'
    OBVIOUS
  <2>1. ASSUME NEW r \in Rows, AppendOutboxEvent(r) PROVE IInv'
    BY <2>1, AppendStep
  <2>2. ASSUME NEW p \in Publishers, PublishOnce(p) PROVE IInv'
    BY <2>2, ClaimStep, AcknowledgedStep, RaisesStep, MarkErrorStep, MarkSentStep
       DEF PublishOnce
  <2>3. ASSUME NEW p \in Publishers, Crash(p) PROVE IInv'
    BY <2>3, CrashStep
  <2>4. ASSUME NEW p \in Publishers, Restart(p) PROVE IInv'
    BY <2>4, QuietStep DEF Restart, IInv, TypeOK
  <2>5. CASE UNCHANGED vars
    BY <2>5, QuietStep DEF vars, IInv, TypeOK
  <2> QED
    BY <2>1, <2>2, <2>3, <2>4, <2>5 DEF Next
<1> QED
  BY InitIInv, <1>1, PTL DEF Spec

(***************************************************************************)
(* The variables keep their types.                                         *)
(***************************************************************************)
THEOREM TypeCorrect == Spec => []TypeOK
<1>1. IInv => TypeOK
  BY DEF IInv
<1> QED
  BY <1>1, Inductive, PTL

(***************************************************************************)
(* No two publishers ever hold the same row, however many there are.       *)
(***************************************************************************)
THEOREM ClaimsAreExclusive == Spec => []ClaimsExclusive
<1>1. IInv => ClaimsExclusive
  BY DEF IInv
<1> QED
  BY <1>1, Inductive, PTL

(***************************************************************************)
(* A row is handed to the Kafka producer at most once, across any number   *)
(* of crashes and restarts.                                                *)
(***************************************************************************)
THEOREM RowsHandedOverOnce == Spec => []HandedOverOnce
<1>1. IInv => HandedOverOnce
  BY DEF IInv
<1> QED
  BY <1>1, Inductive, PTL

(***************************************************************************)
(* A row marked SENT is in the log, and no NULL reaches a topic that is    *)
(* not compacted.                                                          *)
(***************************************************************************)
THEOREM SentRowsLogged == Spec => [](SentIsLogged /\ NoStrayTombstone)
<1>1. IInv => SentIsLogged /\ NoStrayTombstone
  BY DEF IInv
<1> QED
  BY <1>1, Inductive, PTL

(***************************************************************************)
(* A settled row never changes status and is never sent again.             *)
(***************************************************************************)
THEOREM SettledRowsFinal == Spec => SettledIsFinal
<1> DEFINE Kept == \A r \in Rows :
             Settled(r) => status'[r] = status[r] /\ copies'[r] = copies[r]
<1>1. IInv /\ [Next]_vars => [Kept]_vars
  <2> SUFFICES ASSUME IInv, Next, NEW r \in Rows, Settled(r)
               PROVE  status'[r] = status[r] /\ copies'[r] = copies[r]
    OBVIOUS
  <2> USE DEF IInv
  <2>1. \A p \in Publishers : r \notin Held(p)
    BY DEF ClaimsExclusive, Settled
  <2>2. ASSUME NEW x \in Rows, AppendOutboxEvent(x)
        PROVE  status'[r] = status[r] /\ copies'[r] = copies[r]
    BY <2>2 DEF AppendOutboxEvent, TypeOK, Settled
  <2>3. ASSUME NEW p \in Publishers, ClaimOutboxBatch(p)
        PROVE  status'[r] = status[r] /\ copies'[r] = copies[r]
    BY <2>3 DEF ClaimOutboxBatch, Claimable, WithStatus, Settled
  <2>4. ASSUME NEW p \in Publishers, NEW x \in Rows,
               SendAcknowledged(p, x) \/ SendRaises(p, x)
        PROVE  status'[r] = status[r] /\ copies'[r] = copies[r]
    BY <2>1, <2>4 DEF SendAcknowledged, SendRaises, TypeOK, Held
  <2>5. ASSUME NEW p \in Publishers, MarkOutboxError(p) \/ MarkOutboxSent(p)
        PROVE  status'[r] = status[r] /\ copies'[r] = copies[r]
    BY <2>1, <2>5 DEF MarkOutboxError, MarkOutboxSent, Held
  <2>6. ASSUME NEW p \in Publishers, Crash(p) \/ Restart(p)
        PROVE  status'[r] = status[r] /\ copies'[r] = copies[r]
    BY <2>6 DEF Crash, Restart
  <2> QED
    BY <2>2, <2>3, <2>4, <2>5, <2>6 DEF Next, PublishOnce
<1> QED
  BY <1>1, Inductive, PTL DEF Spec, SettledIsFinal

=============================================================================
