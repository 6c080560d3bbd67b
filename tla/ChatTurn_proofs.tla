--------------------------- MODULE ChatTurn_proofs ---------------------------
(***************************************************************************)
(* Proofs about ChatTurn, for any set of turns, split over the two routes  *)
(* in any way, and for queues of any size.  Three arguments: whoever may   *)
(* free the mutex holds it; a DONE can only lie in a queue when its turn   *)
(* has ended, with its journal closed; and the tokens of a turn lie in its *)
(* own queue, none of them behind its DONE.                                *)
(***************************************************************************)
EXTENDS ChatTurn, SequenceTheorems, FiniteSetTheorems, WellFoundedInduction, TLAPS

Settled(t) == task[t] = "ended" /\ record[t] # "none" /\ run[t] \in FinalStatus

\* How far a turn's record has come at each step.
InOrder(t) ==
  /\ req[t] \in {"new", "accepted"} => task[t] = "none"
  /\ task[t] \in {"saving", "released", "closing"} => record[t] # "none"
  /\ task[t] = "closing" => run[t] \in FinalStatus

Progress == \A t \in Turns : InOrder(t)

Closing == {"DONE", "NIL"}

\* Every buffered DONE, in whosever queue it is, is that of a settled turn.
Sealed ==
  \A t, u \in Turns : \A i \in 1..Len(queue[u]) :
    queue[u][i].of = t /\ queue[u][i].kind \in Closing => Settled(t)

EndsSealed == \A t \in Turns : end[t] = "ownDone" => Settled(t)

IInv == TypeOK /\ Progress /\ OneTurnAtATime /\ Sealed /\ EndsSealed

-----------------------------------------------------------------------------
(***************************************************************************)
(* The operators on queues.  A queue r is made from q when each delta of   *)
(* it is one of q's or is in D.                                            *)
(***************************************************************************)
MadeFrom(r, q, D) ==
  \A i \in 1..Len(r) : r[i] \in D \/ \E j \in 1..Len(q) : r[i] = q[j]

\* A queue that does not change is made from itself.
LEMMA SameQueue == ASSUME NEW q, NEW D PROVE MadeFrom(q, q, D)
  BY DEF MadeFrom

\* A full queue that holds a token has a first one.
LEMMA FirstExists ==
  ASSUME NEW q \in Seq(Delta), MustEvict(q)
  PROVE  /\ First(q) \in 1..Len(q)
         /\ q[First(q)].kind = "TOKEN"
         /\ \A i \in 1..Len(q) : i < First(q) => q[i].kind # "TOKEN"
<1>1. Evictable(q) \subseteq Nat /\ Evictable(q) # {}
  BY DEF Evictable, MustEvict
<1>2. PICK i \in Evictable(q) : \A k \in Evictable(q) : ~(<<k, i>> \in OpToRel(<, Nat))
  BY <1>1, NatLessThanWellFounded, WFMin
<1>3. \A k \in Evictable(q) : i <= k
  <2> SUFFICES ASSUME NEW k \in Evictable(q), k < i PROVE FALSE
    BY <1>1
  <2>1. <<k, i>> \in {ss \in Nat \X Nat : ss[1] < ss[2]}
    BY <1>1
  <2> QED
    BY <1>2, <2>1 DEF OpToRel
<1>4. First(q) \in Evictable(q) /\ \A k \in Evictable(q) : First(q) <= k
  BY <1>2, <1>3 DEF First
<1>5. First(q) \in 1..Len(q) /\ q[First(q)].kind = "TOKEN"
  BY <1>4 DEF Evictable
<1>6. ASSUME NEW n \in 1..Len(q), n < First(q), q[n].kind = "TOKEN"
      PROVE  FALSE
  <2>1. First(q) <= n
    BY <1>4, <1>6 DEF Evictable
  <2> QED
    BY <1>5, <1>6, <2>1
<1> QED
  BY <1>5, <1>6

\* Evicting takes one delta away and brings none in; what stood before it
\* stands at the tail.
LEMMA EvictOneMakes ==
  ASSUME NEW q \in Seq(Delta), MustEvict(q)
  PROVE  /\ EvictOne(q) \in Seq(Delta)
         /\ Len(EvictOne(q)) = Len(q) - 1
         /\ MadeFrom(EvictOne(q), q, {})
         /\ \A i \in 1..(Len(q) - 1) :
              EvictOne(q)[i] = IF i <= Len(q) - First(q) THEN q[First(q) + i]
                               ELSE q[i - (Len(q) - First(q))]
<1> DEFINE f == First(q)
           back == SubSeq(q, f + 1, Len(q))
           front == SubSeq(q, 1, f - 1)
<1>1. f \in 1..Len(q) /\ Len(q) \in Nat
  BY FirstExists
<1>2. \A i \in 1..Len(q) : q[i] \in Delta
  BY ElementOfSeq
<1>3. /\ back \in Seq(Delta)
      /\ Len(back) = Len(q) - f
      /\ \A i \in 1..(Len(q) - f) : back[i] = q[f + i]
  <2>1. \A i \in (f + 1)..Len(q) : q[i] \in Delta
    BY <1>1, <1>2
  <2>2. f + 1 \in Int /\ Len(q) \in Int
    BY <1>1
  <2> HIDE DEF f
  <2>3. /\ SubSeq(q, f + 1, Len(q)) \in Seq(Delta)
        /\ Len(SubSeq(q, f + 1, Len(q))) = IF f + 1 <= Len(q) THEN Len(q) - (f + 1) + 1 ELSE 0
        /\ \A i \in 1..(Len(q) - (f + 1) + 1) : SubSeq(q, f + 1, Len(q))[i] = q[(f + 1) + i - 1]
    BY <2>1, <2>2, SubSeqProperties
  <2> QED
    BY <1>1, <2>3
<1>4. /\ front \in Seq(Delta)
      /\ Len(front) = f - 1
      /\ \A i \in 1..(f - 1) : front[i] = q[i]
  <2>1. \A i \in 1..(f - 1) : q[i] \in Delta
    BY <1>1, <1>2
  <2>2. f - 1 \in Int
    BY <1>1
  <2> HIDE DEF f
  <2>3. /\ SubSeq(q, 1, f - 1) \in Seq(Delta)
        /\ Len(SubSeq(q, 1, f - 1)) = IF 1 <= f - 1 THEN (f - 1) - 1 + 1 ELSE 0
        /\ \A i \in 1..((f - 1) - 1 + 1) : SubSeq(q, 1, f - 1)[i] = q[1 + i - 1]
    BY <2>1, <2>2, SubSeqProperties
  <2> QED
    BY <1>1, <2>3
<1> HIDE DEF f, back, front
<1>5. /\ back \o front \in Seq(Delta)
      /\ Len(back \o front) = Len(back) + Len(front)
      /\ \A i \in 1..(Len(back) + Len(front)) :
           (back \o front)[i] = IF i <= Len(back) THEN back[i] ELSE front[i - Len(back)]
  BY <1>3, <1>4, ConcatProperties
<1>6. EvictOne(q) = back \o front
  BY DEF EvictOne, back, front, f
<1>7. ASSUME NEW i \in 1..(Len(q) - 1)
      PROVE  /\ \E j \in 1..Len(q) : (back \o front)[i] = q[j]
             /\ (back \o front)[i] = IF i <= Len(q) - f THEN q[f + i] ELSE q[i - (Len(q) - f)]
  <2>1. CASE i <= Len(q) - f
    <3>1. (back \o front)[i] = q[f + i] /\ f + i \in 1..Len(q)
      BY <1>1, <1>3, <1>4, <1>5, <2>1
    <3> QED
      BY <2>1, <3>1
  <2>2. CASE ~(i <= Len(q) - f)
    <3>1. i - (Len(q) - f) \in 1..(f - 1)
      BY <1>1, <2>2
    <3>2. (back \o front)[i] = q[i - (Len(q) - f)] /\ i - (Len(q) - f) \in 1..Len(q)
      BY <1>1, <1>3, <1>4, <1>5, <2>2, <3>1
    <3> QED
      BY <2>2, <3>2
  <2> QED
    BY <2>1, <2>2
<1>8. Len(back) + Len(front) = Len(q) - 1
  BY <1>1, <1>3, <1>4
<1>9. MadeFrom(back \o front, q, {})
  BY <1>5, <1>7, <1>8 DEF MadeFrom
<1>10. \A i \in 1..(Len(q) - 1) :
         (back \o front)[i] = IF i <= Len(q) - f THEN q[f + i] ELSE q[i - (Len(q) - f)]
  BY <1>7
<1> QED
  BY <1>5, <1>6, <1>8, <1>9, <1>10 DEF f

LEMMA AppendMakes ==
  ASSUME NEW q \in Seq(Delta), NEW d \in Delta
  PROVE  /\ Append(q, d) \in Seq(Delta)
         /\ Len(Append(q, d)) = Len(q) + 1
         /\ MadeFrom(Append(q, d), q, {d})
  BY AppendProperties DEF MadeFrom

LEMMA TailMakes ==
  ASSUME NEW q \in Seq(Delta), q # <<>>
  PROVE  /\ Tail(q) \in Seq(Delta)
         /\ Len(Tail(q)) = Len(q) - 1
         /\ MadeFrom(Tail(q), q, {})
         /\ Head(q) \in Delta /\ 1 \in 1..Len(q) /\ Head(q) = q[1]
<1>1. Len(q) \in Nat \ {0}
  BY EmptySeq, LenProperties
<1>2. /\ Tail(q) \in Seq(Delta) /\ Head(q) \in Delta
      /\ Len(Tail(q)) = Len(q) - 1
      /\ \A i \in 1..Len(Tail(q)) : Tail(q)[i] = q[i + 1]
  BY HeadTailProperties
<1>3. \A i \in 1..Len(Tail(q)) : i + 1 \in 1..Len(q)
  BY <1>1, <1>2
<1>4. Head(q) = q[1]
  BY <1>1
<1> QED
  BY <1>1, <1>2, <1>3, <1>4 DEF MadeFrom

\* A forced put keeps the bound and brings in no other delta.
LEMMA ForcePutMakes ==
  ASSUME NEW q \in Seq(Delta), NEW d \in Delta, Len(q) <= QMax
  PROVE  /\ ForcePut(q, d) \in Seq(Delta)
         /\ Len(ForcePut(q, d)) <= QMax
         /\ MadeFrom(ForcePut(q, d), q, {d})
<1> USE QueueAssumption
<1>0. Len(q) \in Nat
  BY LenProperties
<1>1. CASE HasRoom(q)
  BY <1>0, <1>1, AppendMakes DEF ForcePut, HasRoom
<1>2. CASE MustEvict(q)
  <2>1. /\ EvictOne(q) \in Seq(Delta) /\ Len(EvictOne(q)) = Len(q) - 1
        /\ MadeFrom(EvictOne(q), q, {})
    BY <1>2, EvictOneMakes
  <2>2. /\ Append(EvictOne(q), d) \in Seq(Delta)
        /\ Len(Append(EvictOne(q), d)) = Len(q)
        /\ MadeFrom(Append(EvictOne(q), d), EvictOne(q), {d})
    BY <1>0, <2>1, AppendMakes
  <2>3. MadeFrom(Append(EvictOne(q), d), q, {d})
    BY <2>1, <2>2 DEF MadeFrom
  <2>4. ForcePut(q, d) = Append(EvictOne(q), d)
    BY <1>2 DEF ForcePut, MustEvict
  <2> QED
    BY <2>2, <2>3, <2>4
<1>3. CASE ~HasRoom(q) /\ ~MustEvict(q)
  BY <1>3 DEF ForcePut, MadeFrom
<1> QED
  BY <1>1, <1>2, <1>3

LEMMA PutDoneMakes ==
  ASSUME NEW q \in Seq(Delta), NEW t \in Turns, Len(q) <= QMax
  PROVE  /\ PutDone(q, t) \in Seq(Delta)
         /\ Len(PutDone(q, t)) <= QMax
         /\ MadeFrom(PutDone(q, t), q, {Deltas(t, "DONE"), Deltas(t, "NIL")})
<1> DEFINE done == ForcePut(q, Deltas(t, "DONE"))
<1>1. Deltas(t, "DONE") \in Delta /\ Deltas(t, "NIL") \in Delta
  BY DEF Deltas, Delta, Kinds
<1>2. /\ done \in Seq(Delta) /\ Len(done) <= QMax
      /\ MadeFrom(done, q, {Deltas(t, "DONE")})
  BY <1>1, ForcePutMakes
<1> HIDE DEF done
<1>3. CASE HasRoom(done)
  <2>1. /\ Append(done, Deltas(t, "NIL")) \in Seq(Delta)
        /\ Len(Append(done, Deltas(t, "NIL"))) = Len(done) + 1
        /\ MadeFrom(Append(done, Deltas(t, "NIL")), done, {Deltas(t, "NIL")})
    BY <1>1, <1>2, AppendMakes
  <2>2. MadeFrom(Append(done, Deltas(t, "NIL")), q, {Deltas(t, "DONE"), Deltas(t, "NIL")})
    BY <1>2, <2>1 DEF MadeFrom
  <2>3. Len(done) + 1 <= QMax
    BY <1>2, <1>3, QueueAssumption, LenProperties DEF HasRoom
  <2>4. PutDone(q, t) = Append(done, Deltas(t, "NIL"))
    BY <1>3 DEF PutDone, done
  <2> QED
    BY <2>1, <2>2, <2>3, <2>4
<1>4. CASE ~HasRoom(done)
  <2>1. PutDone(q, t) = done
    BY <1>4 DEF PutDone, done
  <2> QED
    BY <1>2, <2>1 DEF MadeFrom
<1> QED
  BY <1>3, <1>4

-----------------------------------------------------------------------------
(***************************************************************************)
(* The steps.  Most of them concern one turn, free the mutex only if it    *)
(* was theirs, and put nothing but deltas of D into a queue.               *)
(***************************************************************************)
OthersKept(t) ==
  \A u \in Turns \ {t} :
    /\ req'[u] = req[u] /\ end'[u] = end[u] /\ task'[u] = task[u]
    /\ record'[u] = record[u] /\ run'[u] = run[u]

TurnKept(t) ==
  /\ Holds(t)' => Holds(t) /\ mutex'
  /\ mutex' = mutex \/ Holds(t)
  /\ InOrder(t)'
  /\ Settled(t) => Settled(t)'
  /\ end'[t] = "ownDone" => Settled(t)'

QueuesMadeWith(D) == \A u \in Turns : MadeFrom(queue'[u], queue[u], D)

LEMMA OneTurnStep ==
  ASSUME IInv, TypeOK', NEW t \in Turns, NEW D,
         OthersKept(t), TurnKept(t), QueuesMadeWith(D),
         \A d \in D : \A v \in Turns : d.of = v /\ d.kind \in Closing => Settled(v)'
  PROVE  IInv'
<1> USE DEF OthersKept, TurnKept, QueuesMadeWith
<1> USE DEF IInv
<1>1. Progress'
  <2> SUFFICES ASSUME NEW u \in Turns \ {t} PROVE InOrder(u)'
    BY DEF Progress
  <2> QED
    BY DEF Progress, InOrder
<1>2. \A u \in Turns \ {t} : Holds(u)' <=> Holds(u)
  BY DEF Holds
<1>3. OneTurnAtATime'
  BY <1>2 DEF OneTurnAtATime
<1>4. \A u \in Turns : Settled(u) => Settled(u)'
  BY DEF Settled
<1>5. Sealed'
  <2> SUFFICES ASSUME NEW v \in Turns, NEW u \in Turns, NEW i \in 1..Len(queue'[u]),
                      queue'[u][i].of = v, queue'[u][i].kind \in Closing
               PROVE  Settled(v)'
    BY DEF Sealed, Closing
  <2>1. CASE \E d \in D : queue'[u][i] = d
    BY <2>1
  <2>2. CASE \E j \in 1..Len(queue[u]) : queue'[u][i] = queue[u][j]
    <3>1. Settled(v)
      BY <2>2 DEF Sealed
    <3> QED
      BY <1>4, <3>1
  <2> QED
    BY <2>1, <2>2 DEF MadeFrom
<1>6. EndsSealed'
  BY <1>4 DEF EndsSealed
<1> QED
  BY <1>1, <1>3, <1>5, <1>6

\* A step that publishes no DONE.
LEMMA QuietStep ==
  ASSUME IInv, TypeOK', NEW t \in Turns, NEW kind \in {"TOKEN", "ERROR"},
         OthersKept(t), TurnKept(t),
         QueuesMadeWith({}) \/ QueuesMadeWith({Deltas(t, kind)})
  PROVE  IInv'
<1>1. CASE QueuesMadeWith({})
  BY <1>1, OneTurnStep
<1>2. CASE QueuesMadeWith({Deltas(t, kind)})
  <2>1. \A d \in {Deltas(t, kind)} : d.kind \notin Closing
    BY DEF Deltas, Closing
  <2> QED
    BY <1>2, <2>1, OneTurnStep
<1> QED
  BY <1>1, <1>2

LEMMA SameQueues == UNCHANGED queue => QueuesMadeWith({})
  BY SameQueue DEF QueuesMadeWith

\* Putting a token touches one queue and keeps its bound.
LEMMA PublishTokenMakes ==
  ASSUME TypeOK, NEW t \in Turns, PublishToken(t)
  PROVE  /\ queue' \in [Turns -> Seq(Delta)]
         /\ \A u \in Turns : Len(queue'[u]) <= QMax
         /\ \A u \in Turns : MadeFrom(queue'[u], queue[u], {Deltas(t, "TOKEN")})
         /\ unread' \in [Turns -> Int]
<1> USE DEF TypeOK, PublishToken
<1>1. Deltas(t, "TOKEN") \in Delta
  BY DEF Deltas, Delta, Kinds
<1>2. CASE CanPut
  <2>1. bus \in Turns /\ Len(queue[bus]) < QMax
    BY <1>2 DEF CanPut, HasRoom
  <2>2. /\ Append(queue[bus], Deltas(t, "TOKEN")) \in Seq(Delta)
        /\ Len(Append(queue[bus], Deltas(t, "TOKEN"))) = Len(queue[bus]) + 1
        /\ MadeFrom(Append(queue[bus], Deltas(t, "TOKEN")), queue[bus], {Deltas(t, "TOKEN")})
    BY <1>1, <2>1, AppendMakes
  <2>3. Len(queue[bus]) + 1 <= QMax
    BY <2>1, QueueAssumption, LenProperties
  <2>4. QED
    <3>1. queue' = [queue EXCEPT ![bus] = Append(queue[bus], Deltas(t, "TOKEN"))]
      BY <1>2
    <3>2. unread' \in [Turns -> Int]
      BY <1>2
    <3> QED
      BY <2>1, <2>2, <2>3, <3>1, <3>2, SameQueue
<1>3. CASE ~CanPut
  BY <1>3, SameQueue
<1> QED
  BY <1>2, <1>3

LEMMA EvictedIsNumber == \A q, t : EvictedFrom(q, t) \in Int
  BY DEF EvictedFrom

LEMMA PublishErrorMakes ==
  ASSUME TypeOK, NEW t \in Turns, PublishError(t)
  PROVE  /\ queue' \in [Turns -> Seq(Delta)]
         /\ \A u \in Turns : Len(queue'[u]) <= QMax
         /\ \A u \in Turns : MadeFrom(queue'[u], queue[u], {Deltas(t, "ERROR")})
         /\ unread' \in [Turns -> Int]
<1> USE DEF TypeOK, PublishError, PublishLast
<1>1. Deltas(t, "ERROR") \in Delta
  BY DEF Deltas, Delta, Kinds
<1>2. CASE bus = NoTurn
  BY <1>2, SameQueue
<1>3. CASE bus # NoTurn
  <2>1. /\ PutError(queue[bus], t) \in Seq(Delta)
        /\ Len(PutError(queue[bus], t)) <= QMax
        /\ MadeFrom(PutError(queue[bus], t), queue[bus], {Deltas(t, "ERROR")})
    BY <1>1, <1>3, ForcePutMakes DEF PutError
  <2>2. unread' \in [Turns -> Int]
    <3>1. \A u \in Turns : unread[u] - EvictedFrom(queue[bus], u) \in Int
      <4> SUFFICES ASSUME NEW u \in Turns
                   PROVE  unread[u] - EvictedFrom(queue[bus], u) \in Int
        OBVIOUS
      <4>1. unread[u] \in Int /\ EvictedFrom(queue[bus], u) \in Int
        BY EvictedIsNumber
      <4> QED
        BY <4>1
    <3>2. unread' = [u \in Turns |-> unread[u] - EvictedFrom(queue[bus], u)]
      BY <1>3
    <3> QED
      BY <3>1, <3>2
  <2> QED
    BY <1>3, <2>1, <2>2, SameQueue
<1> QED
  BY <1>2, <1>3

LEMMA PublishDoneMakes ==
  ASSUME TypeOK, NEW t \in Turns, PublishDone(t)
  PROVE  /\ queue' \in [Turns -> Seq(Delta)]
         /\ \A u \in Turns : Len(queue'[u]) <= QMax
         /\ \A u \in Turns :
              MadeFrom(queue'[u], queue[u], {Deltas(t, "DONE"), Deltas(t, "NIL")})
         /\ unread' \in [Turns -> Int]
<1> USE DEF TypeOK, PublishDone, PublishLast
<1>2. CASE bus = NoTurn
  BY <1>2, SameQueue
<1>3. CASE bus # NoTurn
  <2>1. /\ PutDone(queue[bus], t) \in Seq(Delta)
        /\ Len(PutDone(queue[bus], t)) <= QMax
        /\ MadeFrom(PutDone(queue[bus], t), queue[bus], {Deltas(t, "DONE"), Deltas(t, "NIL")})
    BY <1>3, PutDoneMakes
  <2>2. unread' \in [Turns -> Int]
    <3>1. \A u \in Turns : unread[u] - EvictedFrom(queue[bus], u) \in Int
      <4> SUFFICES ASSUME NEW u \in Turns
                   PROVE  unread[u] - EvictedFrom(queue[bus], u) \in Int
        OBVIOUS
      <4>1. unread[u] \in Int /\ EvictedFrom(queue[bus], u) \in Int
        BY EvictedIsNumber
      <4> QED
        BY <4>1
    <3>2. unread' = [u \in Turns |-> unread[u] - EvictedFrom(queue[bus], u)]
      BY <1>3
    <3> QED
      BY <3>1, <3>2
  <2> QED
    BY <1>3, <2>1, <2>2, SameQueue
<1> QED
  BY <1>2, <1>3

LEMMA StatusIsFinal == \A t \in Turns : Status(t) \in FinalStatus
  BY DEF Status, FinalStatus

-----------------------------------------------------------------------------
(***************************************************************************)
(* The steps of a request and its stream.                                  *)
(***************************************************************************)
\* Only an unheld mutex is taken.
LEMMA AcceptStep ==
  ASSUME IInv, NEW t \in Turns, Accept(t)
  PROVE  IInv'
<1> USE DEF IInv, Accept, handler
<1>1. TypeOK'
  BY DEF TypeOK
<1>2. Progress'
  BY DEF Progress, InOrder, TypeOK
<1>3. OneTurnAtATime'
  <2>1. \A u \in Turns : Holds(u)' => u = t
    BY DEF Holds, OneTurnAtATime, TypeOK
  <2> QED
    BY <2>1 DEF OneTurnAtATime
<1>4. \A u \in Turns : Settled(u) <=> Settled(u)'
  BY DEF Settled
<1>5. Sealed' /\ EndsSealed'
  BY <1>4 DEF Sealed, EndsSealed
<1> QED
  BY <1>1, <1>2, <1>3, <1>5

LEMMA ConstructFailsStep ==
  ASSUME IInv, NEW t \in Turns, ConstructFails(t)
  PROVE  IInv'
<1> USE DEF IInv, ConstructFails, handler
<1>1. TypeOK'
  BY DEF TypeOK
<1>2. OthersKept(t)
  BY DEF OthersKept, TypeOK
<1>3. TurnKept(t)
  BY DEF TurnKept, Holds, Progress, InOrder, Settled, TypeOK, LockedSteps
<1> QED
  BY <1>1, <1>2, <1>3, SameQueues, QuietStep

LEMMA SubscribeStep ==
  ASSUME IInv, NEW t \in Turns, Subscribe(t)
  PROVE  IInv'
<1> USE DEF IInv, Subscribe
<1>1. TypeOK'
  BY DEF TypeOK, LiveSteps, LockedSteps
<1>2. OthersKept(t)
  BY DEF OthersKept, TypeOK
<1>3. TurnKept(t)
  BY DEF TurnKept, Holds, OneTurnAtATime, Progress, InOrder, Settled, EndsSealed, TypeOK
<1> QED
  BY <1>1, <1>2, <1>3, SameQueues, QuietStep

LEMMA AnnounceStep ==
  ASSUME IInv, NEW t \in Turns, Announce(t)
  PROVE  IInv'
<1> USE DEF IInv, Announce, handler
<1>1. TypeOK'
  BY DEF TypeOK
<1>2. OthersKept(t)
  BY DEF OthersKept, TypeOK
<1>3. TurnKept(t)
  BY DEF TurnKept, Holds, OneTurnAtATime, Progress, InOrder, Settled, EndsSealed, TypeOK
<1> QED
  BY <1>1, <1>2, <1>3, SameQueues, QuietStep

(***************************************************************************)
(* What cancelling a task and ending a stream do, whichever step they are  *)
(* part of.                                                                *)
(***************************************************************************)
TaskTypes ==
  /\ mutex \in BOOLEAN
  /\ task \in [Turns -> LiveSteps \cup {"none", "ended"}]
  /\ last \in [Turns -> LiveSteps \cup {"none"}]
  /\ outcome \in [Turns -> {"none", "ok", "error", "cancelled"}]
  /\ record \in [Turns -> {"none", "kept", "failed"}]
  /\ run \in [Turns -> {"none", "running", "blocked"} \cup FinalStatus]

TaskKept(t) ==
  /\ TaskTypes'
  /\ \A u \in Turns \ {t} : task'[u] = task[u] /\ record'[u] = record[u] /\ run'[u] = run[u]
  /\ task'[t] \in LockedSteps => task[t] \in LockedSteps /\ mutex'
  /\ mutex' = mutex \/ task[t] \in LockedSteps
  /\ task[t] = "none" => task'[t] = "none"
  /\ task'[t] \in {"saving", "released", "closing"} => record'[t] # "none"
  /\ task'[t] = "closing" => run'[t] \in FinalStatus
  /\ Settled(t) => Settled(t)'

LEMMA LeaveTaskKeeps ==
  ASSUME IInv, NEW t \in Turns, LeaveTask
  PROVE  TaskKept(t)
<1> USE DEF IInv, LeaveTask, handler, TaskKept
<1>1. TaskTypes'
  BY DEF TypeOK, TaskTypes
<1> QED
  BY <1>1 DEF Holds, OneTurnAtATime, Progress, InOrder, Settled

LEMMA CancelTaskKeeps ==
  ASSUME IInv, NEW t \in Turns, CancelTask(t)
  PROVE  TaskKept(t)
<1> USE DEF IInv, TaskKept
<1>1. CASE task[t] \notin LiveSteps
  BY <1>1, LeaveTaskKeeps DEF CancelTask, LeaveTask
<1>2. CASE task[t] \in LiveSteps
  <2>1. CASE task[t] = "running"
    <3>1. /\ task' = [task EXCEPT ![t] = "finally"]
          /\ outcome' = [outcome EXCEPT ![t] = "cancelled"]
          /\ UNCHANGED <<last, mutex, record, run>>
      BY <1>2, <2>1 DEF CancelTask
    <3>2. mutex
      BY <2>1 DEF OneTurnAtATime, Holds, LockedSteps
    <3>3. TaskTypes'
      BY <3>1 DEF TypeOK, TaskTypes, LiveSteps, LockedSteps
    <3> QED
      BY <2>1, <3>1, <3>2, <3>3 DEF Settled, TypeOK, LockedSteps
  <2>2. CASE task[t] # "running"
    <3>1. /\ task' = [task EXCEPT ![t] = "ended"]
          /\ last' = [last EXCEPT ![t] = task[t]]
          /\ outcome' = outcome
      BY <1>2, <2>2 DEF CancelTask
    <3>2. /\ \/ mutex' = mutex
             \/ task[t] \in LockedSteps /\ mutex' = FALSE
          /\ \/ record' = record
             \/ record' = [record EXCEPT ![t] = "kept"]
          /\ \/ run' = run
             \/ run' = [run EXCEPT ![t] = "running"]
             \/ run' = [run EXCEPT ![t] = Status(t)]
      BY <1>2, <2>2 DEF CancelTask, LockedSteps
    <3>3. task' \in [Turns -> LiveSteps \cup {"none", "ended"}]
          /\ last' \in [Turns -> LiveSteps \cup {"none"}]
      BY <1>2, <3>1 DEF TypeOK
    <3>4. TaskTypes'
      <4>1. mutex' \in BOOLEAN
        BY <3>2 DEF TypeOK
      <4>2. record' \in [Turns -> {"none", "kept", "failed"}]
        BY <3>2 DEF TypeOK
      <4>3. run' \in [Turns -> {"none", "running", "blocked"} \cup FinalStatus]
        BY <3>2, StatusIsFinal DEF TypeOK
      <4>4. outcome' \in [Turns -> {"none", "ok", "error", "cancelled"}]
        BY <3>1 DEF TypeOK
      <4> QED
        BY <3>3, <4>1, <4>2, <4>3, <4>4 DEF TaskTypes
    <3>5. task[t] # "none" /\ task[t] # "ended" /\ task'[t] = "ended"
      BY <1>2, <3>1 DEF TypeOK, LiveSteps, LockedSteps
    <3>6. \A u \in Turns \ {t} : task'[u] = task[u] /\ record'[u] = record[u] /\ run'[u] = run[u]
      BY <3>1, <3>2 DEF TypeOK
    <3> QED
      BY <3>2, <3>4, <3>5, <3>6 DEF Settled, LockedSteps
  <2> QED
    BY <2>1, <2>2
<1> QED
  BY <1>1, <1>2

\* A stream that leaves its loop: the request was under way, and DONE of its
\* own turn counts only if the turn is settled.
LEMMA StreamLeaves ==
  ASSUME IInv, NEW t \in Turns, NEW next \in {"erring", "draining", "ended"},
         NEW why \in {"ownDone", "otherDone", "cut"},
         EndStream(t, next, why), TaskKept(t),
         req[t] \notin {"new", "accepted"} \/ task[t] = "none",
         why = "ownDone" => Settled(t)
  PROVE  /\ req' \in [Turns -> {"new", "accepted", "announcing", "streaming", "erring",
                               "draining", "ended"}]
         /\ end' \in [Turns -> {"none", "ownDone", "otherDone", "cut", "refused"}]
         /\ OthersKept(t)
         /\ TurnKept(t)
<1> USE DEF IInv, EndStream, TaskKept
<1>1. /\ req' \in [Turns -> {"new", "accepted", "announcing", "streaming", "erring",
                            "draining", "ended"}]
      /\ end' \in [Turns -> {"none", "ownDone", "otherDone", "cut", "refused"}]
  BY DEF TypeOK
<1>2. OthersKept(t)
  BY DEF OthersKept, TypeOK
<1>3. req'[t] = next
  BY DEF TypeOK
<1>4. (Holds(t)' => Holds(t) /\ mutex') /\ (mutex' = mutex \/ Holds(t))
  BY <1>3 DEF Holds
<1>5. InOrder(t)'
  BY <1>3 DEF InOrder
<1>6. end'[t] = "ownDone" => Settled(t)'
  BY DEF EndsSealed, TypeOK
<1> QED
  BY <1>1, <1>2, <1>4, <1>5, <1>6 DEF TurnKept

\* A stream that goes on.
LEMMA StreamGoesOn ==
  ASSUME IInv, NEW t \in Turns, UNCHANGED <<req, end>>, TaskKept(t)
  PROVE  OthersKept(t) /\ TurnKept(t)
<1> USE DEF IInv, TaskKept
<1>1. OthersKept(t)
  BY DEF OthersKept
<1>2. (Holds(t)' => Holds(t) /\ mutex') /\ (mutex' = mutex \/ Holds(t))
  <2>1. CASE req[t] = "accepted"
    <3>1. task[t] = "none"
      BY <2>1 DEF Progress, InOrder
    <3>2. Holds(t) /\ mutex
      BY <2>1 DEF Holds, OneTurnAtATime
    <3>3. mutex' = mutex
      BY <3>1 DEF LockedSteps
    <3> QED
      BY <3>2, <3>3
  <2>2. CASE req[t] # "accepted"
    BY <2>2 DEF Holds
  <2> QED
    BY <2>1, <2>2
<1>3. InOrder(t)'
  BY DEF InOrder, Progress
<1>4. end'[t] = "ownDone" => Settled(t)'
  BY DEF EndsSealed
<1> QED
  BY <1>1, <1>2, <1>3, <1>4 DEF TurnKept

\* Taking the head of a queue.
LEMMA TakeMakes ==
  ASSUME TypeOK, NEW t \in Turns, queue[t] # <<>>,
         queue' = [queue EXCEPT ![t] = Tail(queue[t])]
  PROVE  /\ queue' \in [Turns -> Seq(Delta)]
         /\ \A u \in Turns : Len(queue'[u]) <= QMax
         /\ QueuesMadeWith({})
         /\ Head(queue[t]) \in Delta
         /\ 1 \in 1..Len(queue[t]) /\ Head(queue[t]) = queue[t][1]
<1>1. queue[t] \in Seq(Delta) /\ Len(queue[t]) <= QMax /\ Len(queue[t]) \in Nat
  BY LenProperties DEF TypeOK
<1>2. /\ Tail(queue[t]) \in Seq(Delta)
      /\ Len(Tail(queue[t])) = Len(queue[t]) - 1
      /\ MadeFrom(Tail(queue[t]), queue[t], {})
      /\ Head(queue[t]) \in Delta
      /\ 1 \in 1..Len(queue[t]) /\ Head(queue[t]) = queue[t][1]
  BY <1>1, TailMakes
<1>3. Len(Tail(queue[t])) <= QMax
  BY <1>1, <1>2, QueueAssumption
<1> QED
  BY <1>2, <1>3, SameQueue DEF TypeOK, QueuesMadeWith

\* Where a stream stops does not depend on what the other turns do.
LEMMA AfterLoopStops == \A t \in Turns : AfterLoop(t) \in {"draining", "ended"}
  BY DEF AfterLoop

\* The parts of the state a stream's step leaves to its task.
LEMMA StreamStepKeeps ==
  ASSUME IInv, NEW t \in Turns, TaskKept(t), OthersKept(t), TurnKept(t),
         req' \in [Turns -> {"new", "accepted", "announcing", "streaming", "erring",
                             "draining", "ended"}],
         end' \in [Turns -> {"none", "ownDone", "otherDone", "cut", "refused"}],
         queue' \in [Turns -> Seq(Delta)], \A u \in Turns : Len(queue'[u]) <= QMax,
         QueuesMadeWith({}), unread' \in [Turns -> Int], bus' \in Turns \cup {NoTurn},
         faults' = faults
  PROVE  IInv'
<1>1. TypeOK'
  BY DEF IInv, TypeOK, TaskKept, TaskTypes
<1> QED
  BY <1>1, QuietStep

\* A stream that stops without taking anything from its queue.
LEMMA StreamStops ==
  ASSUME IInv, NEW t \in Turns, EndStream(t, "ended", "cut"), TaskKept(t),
         req[t] \notin {"new", "accepted"} \/ task[t] = "none",
         UNCHANGED <<bus, queue, unread, faults>>
  PROVE  IInv'
<1>1. /\ req' \in [Turns -> {"new", "accepted", "announcing", "streaming", "erring",
                            "draining", "ended"}]
      /\ end' \in [Turns -> {"none", "ownDone", "otherDone", "cut", "refused"}]
      /\ OthersKept(t)
      /\ TurnKept(t)
  BY StreamLeaves
<1>2. /\ queue' \in [Turns -> Seq(Delta)] /\ (\A u \in Turns : Len(queue'[u]) <= QMax)
      /\ unread' \in [Turns -> Int] /\ bus' \in Turns \cup {NoTurn}
  BY DEF IInv, TypeOK
<1>3. QueuesMadeWith({})
  BY SameQueues
<1> QED
  BY <1>1, <1>2, <1>3, StreamStepKeeps

\* The DONE a stream takes for its own is sealed by the turn's end.
LEMMA ReceiveStep ==
  ASSUME IInv, NEW t \in Turns, Receive(t)
  PROVE  IInv'
<1> DEFINE d == Head(queue[t])
<1>1. /\ queue' \in [Turns -> Seq(Delta)] /\ (\A u \in Turns : Len(queue'[u]) <= QMax)
      /\ QueuesMadeWith({}) /\ d \in Delta
      /\ 1 \in 1..Len(queue[t]) /\ d = queue[t][1]
  BY TakeMakes DEF IInv, Receive
<1>2. TaskKept(t)
  BY LeaveTaskKeeps DEF Receive
<1>3. req[t] = "streaming" /\ bus' = bus /\ faults' = faults
  BY DEF Receive
<1>4. bus' \in Turns \cup {NoTurn} /\ unread' \in [Turns -> Int]
  <2>1. d.of \in Turns
    BY <1>1 DEF Delta
  <2>2. unread' = unread \/ unread' = [unread EXCEPT ![d.of] = unread[d.of] - 1]
    BY DEF Receive
  <2>3. unread \in [Turns -> Int] /\ bus \in Turns \cup {NoTurn}
    BY DEF IInv, TypeOK
  <2> HIDE DEF d
  <2> QED
    BY <1>3, <2>1, <2>2, <2>3
<1>5. CASE UNCHANGED <<req, end>>
  <2>1. OthersKept(t) /\ TurnKept(t)
    BY <1>2, <1>5, StreamGoesOn
  <2>2. /\ req' \in [Turns -> {"new", "accepted", "announcing", "streaming", "erring",
                              "draining", "ended"}]
        /\ end' \in [Turns -> {"none", "ownDone", "otherDone", "cut", "refused"}]
    BY <1>5 DEF IInv, TypeOK
  <2> QED
    BY <1>1, <1>2, <1>3, <1>4, <2>1, <2>2, StreamStepKeeps
<1>6. ASSUME NEW next \in {"erring", "draining", "ended"},
             NEW why \in {"ownDone", "otherDone", "cut"},
             EndStream(t, next, why), why = "ownDone" => Settled(t)
      PROVE  IInv'
  <2>1. /\ req' \in [Turns -> {"new", "accepted", "announcing", "streaming", "erring",
                              "draining", "ended"}]
        /\ end' \in [Turns -> {"none", "ownDone", "otherDone", "cut", "refused"}]
        /\ OthersKept(t)
        /\ TurnKept(t)
    BY <1>2, <1>3, <1>6, StreamLeaves
  <2> QED
    BY <1>1, <1>2, <1>3, <1>4, <2>1, StreamStepKeeps
<1>7. CASE EndStream(t, "erring", "cut")
  BY <1>6, <1>7
<1>8. CASE /\ d.kind \in {"DONE", "NIL"}
           /\ EndStream(t, AfterLoop(t), IF d.of = t THEN "ownDone" ELSE "otherDone")
  <2>1. d.of = t => Settled(t)
    BY <1>1, <1>8 DEF IInv, Sealed, Closing
  <2> HIDE DEF d
  <2>2. AfterLoop(t) \in {"erring", "draining", "ended"}
    BY AfterLoopStops
  <2>3. CASE d.of = t
    <3>1. EndStream(t, AfterLoop(t), "ownDone")
      BY <1>8, <2>3
    <3> QED
      BY <1>6, <2>1, <2>2, <2>3, <3>1
  <2>4. CASE d.of # t
    <3>1. EndStream(t, AfterLoop(t), "otherDone")
      BY <1>8, <2>4
    <3> QED
      BY <1>6, <2>2, <3>1
  <2> QED
    BY <2>3, <2>4
<1> QED
  BY <1>5, <1>7, <1>8 DEF Receive

LEMMA DrainErrorStep ==
  ASSUME IInv, NEW t \in Turns, DrainError(t)
  PROVE  IInv'
<1>1. req[t] = "erring" /\ bus' = bus /\ faults' = faults
  BY DEF DrainError
<1>2. /\ queue' \in [Turns -> Seq(Delta)] /\ (\A u \in Turns : Len(queue'[u]) <= QMax)
      /\ QueuesMadeWith({}) /\ unread' \in [Turns -> Int]
  <2>1. CASE queue[t] = <<>>
    <3>1. UNCHANGED <<queue, unread>>
      BY <2>1 DEF DrainError
    <3> QED
      BY <3>1, SameQueues DEF IInv, TypeOK
  <2>2. CASE queue[t] # <<>>
    <3>1. queue' = [queue EXCEPT ![t] = Tail(queue[t])]
      BY <2>2 DEF DrainError
    <3>2. /\ queue' \in [Turns -> Seq(Delta)] /\ (\A u \in Turns : Len(queue'[u]) <= QMax)
          /\ QueuesMadeWith({}) /\ Head(queue[t]) \in Delta
      BY <2>2, <3>1, TakeMakes DEF IInv
    <3>3. \/ unread' = unread
          \/ unread' = [unread EXCEPT ![Head(queue[t]).of] = unread[Head(queue[t]).of] - 1]
      BY <2>2 DEF DrainError
    <3>4. Head(queue[t]).of \in Turns /\ unread \in [Turns -> Int]
      BY <3>2 DEF IInv, TypeOK, Delta
    <3> QED
      BY <3>2, <3>3, <3>4
  <2> QED
    BY <2>1, <2>2
<1>3. bus' \in Turns \cup {NoTurn}
  BY <1>1 DEF IInv, TypeOK
<1>4. CASE EndStream(t, AfterLoop(t), "cut") /\ CancelTask(t)
  <2>1. TaskKept(t)
    BY <1>4, CancelTaskKeeps
  <2>2. AfterLoop(t) \in {"erring", "draining", "ended"}
    BY AfterLoopStops
  <2>3. /\ req' \in [Turns -> {"new", "accepted", "announcing", "streaming", "erring",
                              "draining", "ended"}]
        /\ end' \in [Turns -> {"none", "ownDone", "otherDone", "cut", "refused"}]
        /\ OthersKept(t)
        /\ TurnKept(t)
    BY <1>1, <1>4, <2>1, <2>2, StreamLeaves
  <2> QED
    BY <1>1, <1>2, <1>3, <2>1, <2>3, StreamStepKeeps
<1>5. CASE UNCHANGED <<req, end>> /\ LeaveTask
  <2>1. TaskKept(t)
    BY <1>5, LeaveTaskKeeps
  <2>2. OthersKept(t) /\ TurnKept(t)
    BY <1>5, <2>1, StreamGoesOn
  <2>3. /\ req' \in [Turns -> {"new", "accepted", "announcing", "streaming", "erring",
                              "draining", "ended"}]
        /\ end' \in [Turns -> {"none", "ownDone", "otherDone", "cut", "refused"}]
    BY <1>5 DEF IInv, TypeOK
  <2> QED
    BY <1>1, <1>2, <1>3, <2>1, <2>2, <2>3, StreamStepKeeps
<1> QED
  BY <1>4, <1>5 DEF DrainError

LEMMA HeartbeatStep ==
  ASSUME IInv, NEW t \in Turns, Heartbeat(t)
  PROVE  IInv'
<1>1. TaskKept(t)
  BY LeaveTaskKeeps DEF Heartbeat, LeaveTask
<1> QED
  BY <1>1, StreamStops DEF Heartbeat

LEMMA StreamTimeoutStep ==
  ASSUME IInv, NEW t \in Turns, StreamTimeout(t)
  PROVE  IInv'
<1>1. TaskKept(t)
  BY CancelTaskKeeps DEF StreamTimeout
<1> QED
  BY <1>1, StreamStops DEF StreamTimeout

LEMMA AwaitTaskStep ==
  ASSUME IInv, NEW t \in Turns, AwaitTask(t)
  PROVE  IInv'
<1>1. TaskKept(t)
  BY CancelTaskKeeps DEF AwaitTask
<1> QED
  BY <1>1, StreamStops DEF AwaitTask

\* A client that leaves early leaves no task behind; one that leaves late
\* cancels it.
LEMMA DisconnectStep ==
  ASSUME IInv, NEW t \in Turns, Disconnect(t)
  PROVE  IInv'
<1>1. TaskKept(t)
  BY LeaveTaskKeeps, CancelTaskKeeps DEF Disconnect
<1>2. req[t] \notin {"new", "accepted"} \/ task[t] = "none"
  BY DEF Disconnect, IInv, Progress, InOrder
<1> QED
  BY <1>1, <1>2, StreamStops DEF Disconnect

LEMMA CollectStep ==
  ASSUME IInv, NEW t \in Turns, Collect(t)
  PROVE  IInv'
<1>1. TaskKept(t) /\ UNCHANGED <<req, end>>
  BY LeaveTaskKeeps DEF Collect, LeaveTask, stream
<1>2. OthersKept(t) /\ TurnKept(t)
  BY <1>1, StreamGoesOn
<1>3. <<>> \in Seq(Delta) /\ Len(<<>>) = 0 /\ MadeFrom(<<>>, queue[t], {})
  BY DEF MadeFrom
<1>4. /\ queue' \in [Turns -> Seq(Delta)] /\ (\A u \in Turns : Len(queue'[u]) <= QMax)
      /\ QueuesMadeWith({})
  BY <1>3, SameQueue, QueueAssumption DEF Collect, IInv, TypeOK, QueuesMadeWith
<1>5. /\ req' \in [Turns -> {"new", "accepted", "announcing", "streaming", "erring",
                            "draining", "ended"}]
      /\ end' \in [Turns -> {"none", "ownDone", "otherDone", "cut", "refused"}]
      /\ unread' \in [Turns -> Int] /\ bus' \in Turns \cup {NoTurn} /\ faults' = faults
  BY <1>1 DEF Collect, IInv, TypeOK
<1> QED
  BY <1>1, <1>2, <1>4, <1>5, StreamStepKeeps

-----------------------------------------------------------------------------
(***************************************************************************)
(* The steps of a task.                                                    *)
(***************************************************************************)

\* A step of a live task that publishes no DONE.
LEMMA TaskStepKeeps ==
  ASSUME IInv, NEW t \in Turns, TaskKept(t), UNCHANGED <<bus, stream>>,
         faults' \in 0..MaxFaults,
         queue' \in [Turns -> Seq(Delta)], \A u \in Turns : Len(queue'[u]) <= QMax,
         unread' \in [Turns -> Int], NEW kind \in {"TOKEN", "ERROR"},
         QueuesMadeWith({}) \/ QueuesMadeWith({Deltas(t, kind)})
  PROVE  IInv'
<1>1. TypeOK'
  BY DEF IInv, TypeOK, TaskKept, TaskTypes, stream
<1>2. OthersKept(t) /\ TurnKept(t)
  BY StreamGoesOn DEF stream
<1> QED
  BY <1>1, <1>2, QuietStep

\* A step that publishes nothing at all.
LEMMA TaskStepSilent ==
  ASSUME IInv, NEW t \in Turns, TaskKept(t), UNCHANGED <<bus, stream, queue, unread>>,
         faults' \in 0..MaxFaults
  PROVE  IInv'
<1>1. /\ queue' \in [Turns -> Seq(Delta)] /\ (\A u \in Turns : Len(queue'[u]) <= QMax)
      /\ unread' \in [Turns -> Int]
  BY DEF IInv, TypeOK
<1>2. QueuesMadeWith({})
  BY SameQueues
<1> QED
  BY <1>1, <1>2, TaskStepKeeps

\* Before its release a task finds the mutex held.
LEMMA LockedFindsMutex ==
  ASSUME IInv, NEW t \in Turns, task[t] \in LockedSteps
  PROVE  mutex = TRUE
BY DEF IInv, TypeOK, OneTurnAtATime, Holds

LEMMA OpenStep ==
  ASSUME IInv, NEW t \in Turns, Open(t)
  PROVE  IInv'
<1>1. TaskTypes'
  BY DEF Open, Step, Goto, IInv, TypeOK, TaskTypes, LiveSteps, LockedSteps
<1>2. TaskKept(t)
  BY <1>1, LockedFindsMutex DEF Open, Step, Goto, IInv, TypeOK, TaskKept, Settled, LockedSteps
<1>3. faults' \in 0..MaxFaults /\ UNCHANGED <<bus, stream, queue, unread>>
  BY DEF Open, Step, IInv, TypeOK
<1> QED
  BY <1>2, <1>3, TaskStepSilent

LEMMA BeginTurnStep ==
  ASSUME IInv, NEW t \in Turns, BeginTurn(t)
  PROVE  IInv'
<1>1. TaskTypes'
  BY DEF BeginTurn, Step, Goto, IInv, TypeOK, TaskTypes, LiveSteps, LockedSteps
<1>2. TaskKept(t)
  BY <1>1 DEF BeginTurn, Step, Goto, IInv, TypeOK, TaskKept, Settled, LockedSteps
<1>3. faults' \in 0..MaxFaults /\ UNCHANGED <<bus, stream, queue, unread>>
  BY DEF BeginTurn, Step, IInv, TypeOK
<1> QED
  BY <1>2, <1>3, TaskStepSilent

LEMMA OpenFailsStep ==
  ASSUME IInv, NEW t \in Turns, OpenFails(t)
  PROVE  IInv'
<1>0. task[t] \in {"opening", "preparing"} /\ run' \in {run, [run EXCEPT ![t] = "running"]}
  BY DEF OpenFails, Step
<1>1. TaskTypes'
  BY <1>0 DEF OpenFails, Return, IInv, TypeOK, TaskTypes, LiveSteps, LockedSteps
<1>2. TaskKept(t)
  BY <1>0, <1>1 DEF OpenFails, Return, IInv, TypeOK, TaskKept, Settled, LockedSteps
<1>3. faults' \in 0..MaxFaults /\ UNCHANGED <<bus, stream, queue, unread>>
  BY FaultAssumption DEF OpenFails, Step, IInv, TypeOK
<1> QED
  BY <1>2, <1>3, TaskStepSilent

LEMMA EarlyExitStep ==
  ASSUME IInv, NEW t \in Turns, EarlyExit(t)
  PROVE  IInv'
<1>1. TaskTypes'
  BY DEF EarlyExit, Step, Return, IInv, TypeOK, TaskTypes, LiveSteps, LockedSteps
<1>2. TaskKept(t)
  BY <1>1 DEF EarlyExit, Step, Return, IInv, TypeOK, TaskKept, Settled, LockedSteps
<1>3. faults' \in 0..MaxFaults /\ UNCHANGED <<bus, stream>>
  BY DEF EarlyExit, Step, IInv, TypeOK
<1>4. /\ queue' \in [Turns -> Seq(Delta)] /\ (\A u \in Turns : Len(queue'[u]) <= QMax)
      /\ QueuesMadeWith({Deltas(t, "TOKEN")}) /\ unread' \in [Turns -> Int]
  BY PublishTokenMakes DEF EarlyExit, IInv, QueuesMadeWith
<1> QED
  BY <1>2, <1>3, <1>4, TaskStepKeeps

LEMMA StreamTokenStep ==
  ASSUME IInv, NEW t \in Turns, StreamToken(t)
  PROVE  IInv'
<1>1. TaskKept(t)
  BY LeaveTaskKeeps DEF StreamToken, LeaveTask, handler
<1>2. faults' \in 0..MaxFaults /\ UNCHANGED <<bus, stream>>
  BY DEF StreamToken, Step, IInv, TypeOK
<1>3. /\ queue' \in [Turns -> Seq(Delta)] /\ (\A u \in Turns : Len(queue'[u]) <= QMax)
      /\ QueuesMadeWith({Deltas(t, "TOKEN")}) /\ unread' \in [Turns -> Int]
  BY PublishTokenMakes DEF StreamToken, IInv, QueuesMadeWith
<1> QED
  BY <1>1, <1>2, <1>3, TaskStepKeeps

LEMMA ControllerReturnsStep ==
  ASSUME IInv, NEW t \in Turns, ControllerReturns(t)
  PROVE  IInv'
<1>1. TaskTypes'
  BY DEF ControllerReturns, Step, Goto, IInv, TypeOK, TaskTypes, LiveSteps, LockedSteps
<1>2. TaskKept(t)
  BY <1>1, LockedFindsMutex
     DEF ControllerReturns, Step, Goto, IInv, TypeOK, TaskKept, Settled, LockedSteps
<1>3. faults' \in 0..MaxFaults /\ UNCHANGED <<bus, stream, queue, unread>>
  BY DEF ControllerReturns, Step, IInv, TypeOK
<1> QED
  BY <1>2, <1>3, TaskStepSilent

LEMMA ControllerFailsStep ==
  ASSUME IInv, NEW t \in Turns, ControllerFails(t)
  PROVE  IInv'
<1>1. TaskTypes'
  BY DEF ControllerFails, Step, Goto, IInv, TypeOK, TaskTypes, LiveSteps, LockedSteps
<1>2. TaskKept(t)
  BY <1>1, LockedFindsMutex
     DEF ControllerFails, Step, Goto, IInv, TypeOK, TaskKept, Settled, LockedSteps
<1>3. faults' \in 0..MaxFaults /\ UNCHANGED <<bus, stream>>
  BY DEF ControllerFails, Step, IInv, TypeOK
<1>4. /\ queue' \in [Turns -> Seq(Delta)] /\ (\A u \in Turns : Len(queue'[u]) <= QMax)
      /\ QueuesMadeWith({Deltas(t, "ERROR")}) /\ unread' \in [Turns -> Int]
  BY PublishErrorMakes DEF ControllerFails, IInv, QueuesMadeWith
<1> QED
  BY <1>2, <1>3, <1>4, TaskStepKeeps

LEMMA PersistStep ==
  ASSUME IInv, NEW t \in Turns, Persist(t)
  PROVE  IInv'
<1>0. record' \in {[record EXCEPT ![t] = "kept"], [record EXCEPT ![t] = "failed"]}
  BY DEF Persist
<1>1. TaskTypes'
  BY <1>0 DEF Persist, Step, Goto, IInv, TypeOK, TaskTypes, LiveSteps, LockedSteps
<1>2. TaskKept(t)
  BY <1>0, <1>1, LockedFindsMutex
     DEF Persist, Step, Goto, IInv, TypeOK, TaskKept, Settled, LockedSteps
<1>3. faults' \in 0..MaxFaults /\ UNCHANGED <<bus, stream, queue, unread>>
  BY FaultAssumption DEF Persist, Step, IInv, TypeOK
<1> QED
  BY <1>2, <1>3, TaskStepSilent

\* The mutex is freed by the task that holds it, which is done with it.
LEMMA ReleaseStep ==
  ASSUME IInv, NEW t \in Turns, Release(t)
  PROVE  IInv'
<1>0. mutex' \in {mutex, FALSE} /\ faults' \in 0..MaxFaults
  BY FaultAssumption DEF Release, IInv, TypeOK
<1>1. TaskTypes'
  BY <1>0 DEF Release, Step, Goto, IInv, TypeOK, TaskTypes, LiveSteps, LockedSteps
<1>2. record[t] # "none"
  BY DEF Release, Step, IInv, Progress, InOrder
<1>3. TaskKept(t)
  BY <1>0, <1>1, <1>2 DEF Release, Step, Goto, IInv, TypeOK, TaskKept, Settled, LockedSteps
<1>4. UNCHANGED <<bus, stream, queue, unread>>
  BY DEF Release, Step
<1> QED
  BY <1>0, <1>3, <1>4, TaskStepSilent

LEMMA FinalizeStep ==
  ASSUME IInv, NEW t \in Turns, Finalize(t)
  PROVE  IInv'
<1>0. task[t] = "released" /\ record[t] # "none" /\ faults' \in 0..MaxFaults
  BY FaultAssumption DEF Finalize, Step, IInv, TypeOK, Progress, InOrder
<1>1. CASE Goto(t, "closing") /\ run' = [run EXCEPT ![t] = Status(t)]
  <2>1. Status(t) \in FinalStatus
    BY StatusIsFinal
  <2>2. TaskTypes'
    BY <1>1, <2>1 DEF Finalize, Goto, IInv, TypeOK, TaskTypes, LiveSteps, LockedSteps
  <2>3. TaskKept(t)
    BY <1>0, <1>1, <2>1, <2>2
       DEF Finalize, Goto, IInv, TypeOK, TaskKept, Settled, LockedSteps
  <2> QED
    BY <1>0, <2>3, TaskStepSilent DEF Finalize, Step
<1>2. CASE Return(t) /\ run' = run
  <2>1. TaskTypes'
    BY <1>0, <1>2 DEF Finalize, Return, IInv, TypeOK, TaskTypes, LiveSteps, LockedSteps
  <2>2. TaskKept(t)
    BY <1>0, <1>2, <2>1
       DEF Finalize, Return, IInv, TypeOK, TaskKept, Settled, LockedSteps
  <2> QED
    BY <1>0, <2>2, TaskStepSilent DEF Finalize, Step
<1> QED
  BY <1>1, <1>2 DEF Finalize

\* DONE is put when the record is made and the journal closed, in the step
\* that ends the turn.
LEMMA FinishStep ==
  ASSUME IInv, NEW t \in Turns, Finish(t)
  PROVE  IInv'
<1>1. TaskTypes'
  BY DEF Finish, Step, Return, IInv, TypeOK, TaskTypes, LiveSteps, LockedSteps
<1>2. TaskKept(t)
  BY <1>1 DEF Finish, Step, Return, IInv, TypeOK, TaskKept, Settled, LockedSteps
<1>3. faults' = faults /\ UNCHANGED <<bus, stream>>
  BY DEF Finish, Step
<1>4. /\ queue' \in [Turns -> Seq(Delta)] /\ (\A u \in Turns : Len(queue'[u]) <= QMax)
      /\ QueuesMadeWith({Deltas(t, "DONE"), Deltas(t, "NIL")}) /\ unread' \in [Turns -> Int]
  BY PublishDoneMakes DEF Finish, IInv, QueuesMadeWith
<1>5. TypeOK'
  BY <1>2, <1>3, <1>4 DEF IInv, TypeOK, TaskKept, TaskTypes, stream
<1>6. OthersKept(t) /\ TurnKept(t)
  BY <1>2, <1>3, StreamGoesOn DEF stream
<1>7. Settled(t)'
  BY DEF Finish, Step, Return, IInv, TypeOK, Progress, InOrder, Settled
<1>8. \A d \in {Deltas(t, "DONE"), Deltas(t, "NIL")} : d.of = t
  BY DEF Deltas
<1> QED
  BY <1>4, <1>5, <1>6, <1>7, <1>8, OneTurnStep

-----------------------------------------------------------------------------
(***************************************************************************)
(* The invariant and what follows from it.                                 *)
(***************************************************************************)
LEMMA Initial == Init => IInv
<1> SUFFICES ASSUME Init PROVE IInv
  OBVIOUS
<1> USE TurnAssumption, QueueAssumption, FaultAssumption
<1>1. <<>> \in Seq(Delta) /\ Len(<<>>) = 0
  OBVIOUS
<1>2. TypeOK
  <2>1. /\ queue \in [Turns -> Seq(Delta)]
        /\ \A t \in Turns : Len(queue[t]) <= QMax
    <3>1. queue = [t \in Turns |-> <<>>] /\ 0 <= QMax
      BY DEF Init
    <3> QED
      BY <1>1, <3>1
  <2>2. mutex \in BOOLEAN /\ bus \in Turns \cup {NoTurn}
    BY DEF Init
  <2>3. unread \in [Turns -> Int]
    BY DEF Init
  <2>4. faults \in 0..MaxFaults
    BY DEF Init
  <2> QED
    BY <2>1, <2>2, <2>3, <2>4 DEF Init, TypeOK
<1>3. Progress /\ OneTurnAtATime /\ Sealed /\ EndsSealed
  BY <1>1 DEF Init, Progress, InOrder, OneTurnAtATime, Holds, LockedSteps, Sealed, EndsSealed
<1> QED
  BY <1>2, <1>3 DEF IInv

LEMMA Stuttering == IInv /\ UNCHANGED vars => IInv'
BY DEF IInv, vars, stream, handler, TypeOK, Progress, InOrder, OneTurnAtATime, Holds, Sealed,
       EndsSealed, Settled

LEMMA NextStep == IInv /\ Next => IInv'
<1> SUFFICES ASSUME IInv, NEW t \in Turns,
                    \/ Accept(t) \/ ConstructFails(t) \/ Subscribe(t) \/ Disconnect(t)
                    \/ Collect(t) \/ StreamSteps(t) \/ TaskSteps(t)
             PROVE  IInv'
  BY DEF Next
<1>1. CASE Accept(t) \/ ConstructFails(t) \/ Subscribe(t) \/ Disconnect(t) \/ Collect(t)
  BY <1>1, AcceptStep, ConstructFailsStep, SubscribeStep, DisconnectStep, CollectStep
<1>2. CASE StreamSteps(t)
  BY <1>2, AnnounceStep, ReceiveStep, DrainErrorStep, HeartbeatStep, StreamTimeoutStep,
     AwaitTaskStep DEF StreamSteps
<1>3. CASE TaskSteps(t)
  BY <1>3, OpenStep, BeginTurnStep, OpenFailsStep, EarlyExitStep, StreamTokenStep,
     ControllerReturnsStep, ControllerFailsStep, PersistStep, ReleaseStep, FinalizeStep,
     FinishStep DEF TaskSteps
<1> QED
  BY <1>1, <1>2, <1>3

\* IInv holds in every state of every behaviour of the chat routes.
THEOREM Inductive == Spec => []IInv
<1>1. Init => IInv
  BY Initial
<1>2. IInv /\ [Next]_vars => IInv'
  BY NextStep, Stuttering
<1> QED
  BY <1>1, <1>2, PTL DEF Spec

\* Every state of the mutex, the bus and the turns has its type; no queue
\* grows beyond its maxsize, forced puts included.
THEOREM Types == Spec => []TypeOK
<1>1. IInv => TypeOK
  BY DEF IInv
<1> QED
  BY <1>1, Inductive, PTL

\* The mutex keeps turns of a conversation apart, for any number of requests
\* and whatever cancellations, faults and routes they meet.
THEOREM Exclusion == Spec => []OneTurnAtATime
<1>1. IInv => OneTurnAtATime
  BY DEF IInv
<1> QED
  BY <1>1, Inductive, PTL

\* A client that reads its own turn's DONE finds the history entry tried,
\* the journal closed and the mutex no longer its, at any queue size.
THEOREM DoneIsFinal == Spec => []DoneMeansSettled
<1>1. IInv => DoneMeansSettled
  BY DEF IInv, EndsSealed, Settled, Progress, InOrder, Holds, LockedSteps, DoneMeansSettled
<1> QED
  BY <1>1, Inductive, PTL

-----------------------------------------------------------------------------
(***************************************************************************)
(* The answer is whole.  A turn's tokens lie in its own queue alone, none  *)
(* behind its own DONE, so that a stream which takes that DONE has emptied *)
(* the queue of them; and unread counts those the queue still holds.       *)
(***************************************************************************)

\* Tokens a queue holds.
Left(q) == Cardinality(Evictable(q))

\* The tokens in q are those of t.
Pure(q, t) == \A i \in 1..Len(q) : q[i].kind = "TOKEN" => q[i].of = t

\* None of them stands behind a DONE of t.
Ordered(q, t) ==
  \A i, k \in 1..Len(q) :
    i < k /\ q[i].of = t /\ q[i].kind \in Closing => q[k].kind # "TOKEN"

Flows(t) ==
  /\ task[t] \in LockedSteps => bus \in {t, NoTurn}
  /\ Pure(queue[t], t)
  /\ Ordered(queue[t], t)
  /\ req[t] # "ended" \/ end[t] = "ownDone" => unread[t] = Left(queue[t])
  /\ end[t] = "ownDone" => Left(queue[t]) = 0

Flow == \A t \in Turns : Flows(t)

\* A finite set of integers keeps its size when it is moved.
LEMMA MovedSet ==
  ASSUME NEW S \in SUBSET Int, NEW n \in Int, IsFiniteSet(S)
  PROVE  Cardinality({i - n : i \in S}) = Cardinality(S)
<1> DEFINE T == {i - n : i \in S}
           f == [i \in S |-> i - n]
<1>1. f \in [S -> T]
  OBVIOUS
<1>2. ASSUME NEW i \in S, NEW k \in S, f[i] = f[k]
      PROVE  i = k
  <2>1. i \in Int /\ k \in Int /\ i - n = k - n
    BY <1>2
  <2> QED
    BY <2>1
<1>3. \A v \in T : \E i \in S : f[i] = v
  OBVIOUS
<1> HIDE DEF f
<1>4. f \in Bijection(S, T)
  BY <1>1, <1>2, <1>3 DEF Bijection, Injection, Surjection, IsInjective
<1>5. ExistsBijection(S, T)
  BY <1>4 DEF ExistsBijection
<1> QED
  BY <1>5, FS_Bijection

LEMMA TokensFinite ==
  ASSUME NEW q \in Seq(Delta)
  PROVE  /\ Evictable(q) \in SUBSET Int /\ IsFiniteSet(Evictable(q)) /\ Left(q) \in Nat
         /\ Left(q) = 0 <=> Evictable(q) = {}
<1>1. Len(q) \in Nat /\ Evictable(q) \subseteq 1..Len(q)
  BY LenProperties DEF Evictable
<1>2. IsFiniteSet(1..Len(q))
  BY <1>1, FS_Interval
<1>3. IsFiniteSet(Evictable(q))
  BY <1>1, <1>2, FS_Subset
<1>4. Left(q) \in Nat /\ (Left(q) = 0 <=> Evictable(q) = {})
  BY <1>3, FS_CardinalityType, FS_EmptySet DEF Left
<1> QED
  BY <1>1, <1>3, <1>4

\* What the operators on queues do to the number of tokens.
LEMMA AppendCounts ==
  ASSUME NEW q \in Seq(Delta), NEW d \in Delta
  PROVE  Left(Append(q, d)) = IF d.kind = "TOKEN" THEN Left(q) + 1 ELSE Left(q)
<1>1. Len(q) \in Nat
  BY LenProperties
<1>2. /\ Len(Append(q, d)) = Len(q) + 1
      /\ \A i \in 1..Len(q) : Append(q, d)[i] = q[i]
      /\ Append(q, d)[Len(q) + 1] = d
  BY AppendProperties
<1>3. 1..(Len(q) + 1) = (1..Len(q)) \cup {Len(q) + 1} /\ Len(q) + 1 \notin 1..Len(q)
  BY <1>1
<1>4. CASE d.kind = "TOKEN"
  <2>1. Evictable(Append(q, d)) = Evictable(q) \cup {Len(q) + 1}
    BY <1>2, <1>3, <1>4 DEF Evictable
  <2>2. Len(q) + 1 \notin Evictable(q)
    BY <1>3 DEF Evictable
  <2>3. IsFiniteSet(Evictable(q))
    BY TokensFinite
  <2>4. Cardinality(Evictable(q) \cup {Len(q) + 1}) = Cardinality(Evictable(q)) + 1
    BY ONLY <2>2, <2>3, FS_AddElement
  <2>5. Left(Append(q, d)) = Left(q) + 1
    BY <2>1, <2>4 DEF Left
  <2> QED
    BY <1>4, <2>5
<1>5. CASE d.kind # "TOKEN"
  <2>1. Evictable(Append(q, d)) = Evictable(q)
    BY <1>2, <1>3, <1>5 DEF Evictable
  <2> QED
    BY <1>5, <2>1 DEF Left
<1> QED
  BY <1>4, <1>5

LEMMA TailCounts ==
  ASSUME NEW q \in Seq(Delta), q # <<>>
  PROVE  Left(Tail(q)) = IF Head(q).kind = "TOKEN" THEN Left(q) - 1 ELSE Left(q)
<1>1. /\ Len(q) \in Nat \ {0} /\ Len(Tail(q)) = Len(q) - 1 /\ Head(q) = q[1]
      /\ \A i \in 1..Len(Tail(q)) : Tail(q)[i] = q[i + 1]
  BY TailMakes, HeadTailProperties, LenProperties
<1>2. Evictable(Tail(q)) = {i - 1 : i \in Evictable(q) \ {1}}
  <2>1. ASSUME NEW k \in Evictable(Tail(q))
        PROVE  k + 1 \in Evictable(q) \ {1} /\ k = (k + 1) - 1
    BY <1>1 DEF Evictable
  <2>2. ASSUME NEW i \in Evictable(q) \ {1}
        PROVE  i - 1 \in Evictable(Tail(q))
    <3>1. i \in 1..Len(q) /\ i # 1 /\ q[i].kind = "TOKEN"
      BY DEF Evictable
    <3>2. i - 1 \in 1..Len(Tail(q)) /\ (i - 1) + 1 = i
      BY <1>1, <3>1
    <3>3. Tail(q)[i - 1] = q[i]
      BY <1>1, <3>2
    <3> QED
      BY <3>1, <3>2, <3>3 DEF Evictable
  <2> QED
    BY <2>1, <2>2
<1>3. Evictable(q) \in SUBSET Int /\ IsFiniteSet(Evictable(q))
  BY TokensFinite
<1>4. Evictable(q) \ {1} \in SUBSET Int /\ IsFiniteSet(Evictable(q) \ {1})
  BY <1>3, FS_Subset
<1>5. Left(Tail(q)) = Cardinality(Evictable(q) \ {1})
  <2> DEFINE rest == Evictable(q) \ {1}
  <2>1. 1 \in Int /\ rest \in SUBSET Int /\ IsFiniteSet(rest)
    BY <1>4
  <2> HIDE DEF rest
  <2>2. Cardinality({i - 1 : i \in rest}) = Cardinality(rest)
    BY <2>1, MovedSet
  <2> QED
    BY <1>2, <2>2 DEF Left, rest
<1>6. CASE Head(q).kind = "TOKEN"
  <2>1. 1 \in Evictable(q)
    BY <1>1, <1>6 DEF Evictable
  <2> QED
    BY <1>3, <1>5, <1>6, <2>1, FS_RemoveElement DEF Left
<1>7. CASE Head(q).kind # "TOKEN"
  <2>1. Evictable(q) \ {1} = Evictable(q)
    BY <1>1, <1>7 DEF Evictable
  <2> QED
    BY <1>5, <1>7, <2>1 DEF Left
<1> QED
  BY <1>6, <1>7

LEMMA EvictOneCounts ==
  ASSUME NEW q \in Seq(Delta), MustEvict(q)
  PROVE  Left(EvictOne(q)) = Left(q) - 1
<1> DEFINE f == First(q)
<1>1. /\ f \in 1..Len(q) /\ q[f].kind = "TOKEN" /\ Len(q) \in Nat
      /\ \A i \in 1..Len(q) : i < f => q[i].kind # "TOKEN"
  BY FirstExists, LenProperties
<1>2. /\ Len(EvictOne(q)) = Len(q) - 1
      /\ \A i \in 1..(Len(q) - 1) :
           EvictOne(q)[i] = IF i <= Len(q) - f THEN q[f + i] ELSE q[i - (Len(q) - f)]
  BY EvictOneMakes
<1> HIDE DEF f
<1>3. Evictable(EvictOne(q)) = {i - f : i \in Evictable(q) \ {f}}
  <2>1. ASSUME NEW k \in Evictable(EvictOne(q))
        PROVE  k + f \in Evictable(q) \ {f} /\ k = (k + f) - f
    <3>1. k \in 1..(Len(q) - 1) /\ EvictOne(q)[k].kind = "TOKEN"
      BY <1>2 DEF Evictable
    <3>2. CASE k <= Len(q) - f
      <4>1. EvictOne(q)[k] = q[f + k] /\ k + f \in 1..Len(q) /\ f + k = k + f /\ k + f # f
        BY <1>1, <1>2, <3>1, <3>2
      <4> QED
        BY <1>1, <3>1, <4>1 DEF Evictable
    <3>3. CASE ~(k <= Len(q) - f)
      <4>1. EvictOne(q)[k] = q[k - (Len(q) - f)]
        BY <1>2, <3>1, <3>3
      <4>2. k - (Len(q) - f) \in 1..Len(q) /\ k - (Len(q) - f) < f
        BY <1>1, <3>1, <3>3
      <4> QED
        BY <1>1, <3>1, <4>1, <4>2
    <3> QED
      BY <3>2, <3>3
  <2>2. ASSUME NEW i \in Evictable(q) \ {f}
        PROVE  i - f \in Evictable(EvictOne(q))
    <3>1. i \in 1..Len(q) /\ i # f /\ q[i].kind = "TOKEN"
      BY DEF Evictable
    <3>2. i > f
      BY <1>1, <3>1
    <3>3. i - f \in 1..(Len(q) - 1) /\ i - f <= Len(q) - f /\ f + (i - f) = i
      BY <1>1, <3>1, <3>2
    <3>4. EvictOne(q)[i - f] = q[i]
      BY <1>2, <3>3
    <3> QED
      BY <1>2, <3>1, <3>3, <3>4 DEF Evictable
  <2> QED
    BY <2>1, <2>2
<1>4. Evictable(q) \in SUBSET Int /\ IsFiniteSet(Evictable(q)) /\ f \in Evictable(q)
  BY <1>1, TokensFinite DEF Evictable
<1>5. Evictable(q) \ {f} \in SUBSET Int /\ IsFiniteSet(Evictable(q) \ {f}) /\ f \in Int
  BY <1>1, <1>4, FS_Subset
<1>6. Left(EvictOne(q)) = Cardinality(Evictable(q) \ {f})
  BY <1>3, <1>5, MovedSet DEF Left
<1>7. Cardinality(Evictable(q) \ {f}) = Cardinality(Evictable(q)) - 1
  BY <1>4, FS_RemoveElement
<1> QED
  BY <1>6, <1>7 DEF Left

\* What they do to the order of tokens and DONEs.
LEMMA EvictOneOrdered ==
  ASSUME NEW q \in Seq(Delta), MustEvict(q), NEW t \in Turns, Ordered(q, t)
  PROVE  Ordered(EvictOne(q), t)
<1> DEFINE f == First(q)
           r == EvictOne(q)
<1>1. /\ f \in 1..Len(q) /\ Len(q) \in Nat
      /\ \A i \in 1..Len(q) : i < f => q[i].kind # "TOKEN"
  BY FirstExists, LenProperties
<1>2. /\ Len(r) = Len(q) - 1
      /\ \A i \in 1..(Len(q) - 1) :
           r[i] = IF i <= Len(q) - f THEN q[f + i] ELSE q[i - (Len(q) - f)]
  BY EvictOneMakes
<1> HIDE DEF f, r
<1>3. ASSUME NEW i \in 1..Len(r), NEW k \in 1..Len(r), i < k,
             r[i].of = t, r[i].kind \in Closing, r[k].kind = "TOKEN"
      PROVE  FALSE
  <2>1. i \in 1..(Len(q) - 1) /\ k \in 1..(Len(q) - 1)
    BY <1>2
  <2>2. CASE k <= Len(q) - f
    <3>1. r[i] = q[f + i] /\ r[k] = q[f + k]
      BY <1>1, <1>2, <1>3, <2>1, <2>2
    <3>2. f + i \in 1..Len(q) /\ f + k \in 1..Len(q) /\ f + i < f + k
      BY <1>1, <1>3, <2>1, <2>2
    <3> QED
      BY <1>3, <3>1, <3>2 DEF Ordered
  <2>3. CASE ~(k <= Len(q) - f)
    <3>1. r[k] = q[k - (Len(q) - f)]
      BY <1>2, <2>1, <2>3
    <3>2. k - (Len(q) - f) \in 1..Len(q) /\ k - (Len(q) - f) < f
      BY <1>1, <2>1, <2>3
    <3> QED
      BY <1>1, <1>3, <3>1, <3>2
  <2> QED
    BY <2>2, <2>3
<1> QED
  BY <1>3 DEF Ordered, r

LEMMA AppendOrdered ==
  ASSUME NEW q \in Seq(Delta), NEW d \in Delta, NEW t \in Turns, Ordered(q, t),
         \/ d.kind # "TOKEN"
         \/ \A i \in 1..Len(q) : ~(q[i].of = t /\ q[i].kind \in Closing)
  PROVE  Ordered(Append(q, d), t)
<1>1. /\ Len(Append(q, d)) = Len(q) + 1 /\ Len(q) \in Nat
      /\ \A i \in 1..Len(q) : Append(q, d)[i] = q[i]
      /\ Append(q, d)[Len(q) + 1] = d
  BY AppendProperties, LenProperties
<1> DEFINE r == Append(q, d)
<1> HIDE DEF r
<1>2. ASSUME NEW i \in 1..(Len(q) + 1), NEW k \in 1..(Len(q) + 1), i < k,
             r[i].of = t, r[i].kind \in Closing, r[k].kind = "TOKEN"
      PROVE  FALSE
  <2>1. i \in 1..Len(q) /\ r[i] = q[i]
    BY <1>1, <1>2 DEF r
  <2>2. CASE k \in 1..Len(q)
    <3>1. r[k] = q[k]
      BY <1>1, <2>2 DEF r
    <3> QED
      BY <1>2, <2>1, <2>2, <3>1 DEF Ordered
  <2>3. CASE k = Len(q) + 1
    <3>1. r[k] = d
      BY <1>1, <2>3 DEF r
    <3> QED
      BY <1>2, <2>1, <3>1
  <2> QED
    BY <1>1, <2>2, <2>3
<1> QED
  BY <1>1, <1>2 DEF Ordered, r

LEMMA TailOrdered ==
  ASSUME NEW q \in Seq(Delta), q # <<>>, NEW t \in Turns, Ordered(q, t)
  PROVE  /\ Ordered(Tail(q), t)
         /\ Head(q).of = t /\ Head(q).kind \in Closing => Left(q) = 0
<1>1. /\ Len(q) \in Nat \ {0} /\ Len(Tail(q)) = Len(q) - 1 /\ Head(q) = q[1]
      /\ \A i \in 1..Len(Tail(q)) : Tail(q)[i] = q[i + 1]
  BY TailMakes, HeadTailProperties, LenProperties
<1>2. Ordered(Tail(q), t)
  <2> SUFFICES ASSUME NEW i \in 1..Len(Tail(q)), NEW k \in 1..Len(Tail(q)), i < k,
                      Tail(q)[i].of = t, Tail(q)[i].kind \in Closing
               PROVE  Tail(q)[k].kind # "TOKEN"
    BY DEF Ordered
  <2>1. Tail(q)[i] = q[i + 1] /\ Tail(q)[k] = q[k + 1]
    BY <1>1
  <2>2. i + 1 \in 1..Len(q) /\ k + 1 \in 1..Len(q) /\ i + 1 < k + 1
    BY <1>1
  <2> QED
    BY <2>1, <2>2 DEF Ordered
<1>3. ASSUME Head(q).of = t, Head(q).kind \in Closing
      PROVE  Left(q) = 0
  <2>1. \A k \in 1..Len(q) : q[k].kind # "TOKEN"
    <3> SUFFICES ASSUME NEW k \in 1..Len(q) PROVE q[k].kind # "TOKEN"
      OBVIOUS
    <3>1. 1 \in 1..Len(q) /\ (k = 1 \/ 1 < k)
      BY <1>1
    <3> QED
      BY <1>1, <1>3, <3>1 DEF Ordered, Closing
  <2> QED
    BY <2>1, TokensFinite DEF Evictable
<1> QED
  BY <1>2, <1>3

\* A step that takes nothing from a queue puts no other turn's tokens there.
LEMMA PureMade ==
  ASSUME NEW q, NEW r, NEW d, NEW t, MadeFrom(r, q, {d}), Pure(q, t),
         d.kind = "TOKEN" => d.of = t
  PROVE  Pure(r, t)
BY DEF MadeFrom, Pure

\* A forced put evicts one token from a queue that is full and holds one.
LEMMA ForcePutFlows ==
  ASSUME NEW q \in Seq(Delta), Len(q) <= QMax, NEW d \in Delta, d.kind # "TOKEN",
         NEW t \in Turns, Pure(q, t), Ordered(q, t)
  PROVE  /\ Pure(ForcePut(q, d), t) /\ Ordered(ForcePut(q, d), t)
         /\ Left(ForcePut(q, d)) = Left(q) - EvictedFrom(q, t)
<1>1. Pure(ForcePut(q, d), t)
  <2>1. MadeFrom(ForcePut(q, d), q, {d})
    BY ForcePutMakes
  <2> QED
    BY <2>1, PureMade
<1>2. Left(q) \in Nat
  BY TokensFinite
<1>3. CASE MustEvict(q)
  <2>1. EvictOne(q) \in Seq(Delta) /\ Ordered(EvictOne(q), t) /\ Left(EvictOne(q)) = Left(q) - 1
    BY <1>3, EvictOneMakes, EvictOneOrdered, EvictOneCounts
  <2>2. ForcePut(q, d) = Append(EvictOne(q), d)
    BY <1>3 DEF ForcePut, MustEvict
  <2>3. Ordered(Append(EvictOne(q), d), t)
    BY <2>1, AppendOrdered
  <2>4. Left(Append(EvictOne(q), d)) = Left(EvictOne(q))
    BY <2>1, AppendCounts
  <2>5. EvictedFrom(q, t) = 1
    BY <1>3, FirstExists DEF EvictedFrom, Pure
  <2> QED
    BY <1>1, <2>1, <2>2, <2>3, <2>4, <2>5
<1>4. CASE ~MustEvict(q)
  <2>1. EvictedFrom(q, t) = 0
    BY <1>4 DEF EvictedFrom
  <2>2. Left(q) - 0 = Left(q)
    BY <1>2
  <2>3. CASE HasRoom(q)
    <3>1. ForcePut(q, d) = Append(q, d)
      BY <2>3 DEF ForcePut
    <3>2. Ordered(Append(q, d), t) /\ Left(Append(q, d)) = Left(q)
      BY AppendOrdered, AppendCounts
    <3> QED
      BY <1>1, <2>1, <2>2, <3>1, <3>2
  <2>4. CASE ~HasRoom(q)
    <3>1. ForcePut(q, d) = q
      BY <1>4, <2>4 DEF ForcePut
    <3> QED
      BY <1>1, <2>1, <2>2, <3>1
  <2> QED
    BY <2>3, <2>4
<1> QED
  BY <1>3, <1>4

\* What a task puts by force, in the queue of whichever turn.
LastPuts(q, v) == {PutError(q, v), PutDone(q, v)}

LEMMA LastPutFlows ==
  ASSUME NEW q \in Seq(Delta), Len(q) <= QMax, NEW v \in Turns, NEW r \in LastPuts(q, v),
         NEW t \in Turns, Pure(q, t), Ordered(q, t)
  PROVE  /\ Pure(r, t) /\ Ordered(r, t)
         /\ Left(r) = Left(q) - EvictedFrom(q, t)
<1>1. ASSUME NEW kind \in Kinds \ {"TOKEN"}
      PROVE  Deltas(v, kind) \in Delta /\ Deltas(v, kind).kind # "TOKEN"
  BY DEF Deltas, Delta, Kinds
<1>2. Deltas(v, "ERROR") \in Delta /\ Deltas(v, "ERROR").kind # "TOKEN"
  BY DEF Deltas, Delta, Kinds
<1>3. Deltas(v, "DONE") \in Delta /\ Deltas(v, "DONE").kind # "TOKEN"
  BY DEF Deltas, Delta, Kinds
<1>4. Deltas(v, "NIL") \in Delta /\ Deltas(v, "NIL").kind # "TOKEN"
  BY DEF Deltas, Delta, Kinds
<1>5. CASE r = PutError(q, v)
  BY <1>2, <1>5, ForcePutFlows DEF PutError
<1>6. CASE r = PutDone(q, v)
  <2> DEFINE done == ForcePut(q, Deltas(v, "DONE"))
  <2>1. /\ done \in Seq(Delta) /\ Pure(done, t) /\ Ordered(done, t)
        /\ Left(done) = Left(q) - EvictedFrom(q, t)
    BY <1>3, ForcePutFlows, ForcePutMakes
  <2> HIDE DEF done
  <2>2. Ordered(Append(done, Deltas(v, "NIL")), t)
        /\ Left(Append(done, Deltas(v, "NIL"))) = Left(done)
    BY <1>4, <2>1, AppendOrdered, AppendCounts
  <2>3. Pure(Append(done, Deltas(v, "NIL")), t)
    <3>1. MadeFrom(Append(done, Deltas(v, "NIL")), done, {Deltas(v, "NIL")})
      BY <1>4, <2>1, AppendMakes
    <3> QED
      BY <1>4, <2>1, <3>1, PureMade
  <2>4. r = IF HasRoom(done) THEN Append(done, Deltas(v, "NIL")) ELSE done
    BY <1>6 DEF PutDone, done
  <2> QED
    BY <2>1, <2>2, <2>3, <2>4
<1> QED
  BY <1>5, <1>6 DEF LastPuts

(***************************************************************************)
(* The kinds of step: the queues stay, a stream takes a delta, a task puts *)
(* a token or a last delta, a finished stream is collected.                *)
(***************************************************************************)

\* Steps that leave the bus to the turn that runs, and start no stream anew.
BusStays ==
  /\ \A u \in Turns : task'[u] \in LockedSteps => task[u] \in LockedSteps
  /\ bus' \in {bus, NoTurn}

StreamsForward ==
  \A u \in Turns :
    /\ req'[u] # "ended" => req[u] # "ended"
    /\ end'[u] = "ownDone" => end[u] = "ownDone"

LEMMA StillFlow ==
  ASSUME Flow, UNCHANGED <<queue, unread>>, BusStays, StreamsForward
  PROVE  Flow'
BY DEF Flow, Flows, BusStays, StreamsForward

\* A token is put by a running turn, thus in its own queue, where no DONE of
\* it lies.
LEMMA TokenFlow ==
  ASSUME IInv, Flow, NEW t \in Turns, task[t] \in LockedSteps, PublishToken(t),
         BusStays, UNCHANGED <<req, end>>
  PROVE  Flow'
<1>1. CASE ~CanPut
  BY <1>1, StillFlow DEF PublishToken, StreamsForward
<1>2. CASE CanPut
  <2> DEFINE d == Deltas(t, "TOKEN")
             r == Append(queue[t], d)
  <2>1. bus = t
    BY <1>2 DEF CanPut, Flow, Flows
  <2>2. /\ queue' = [queue EXCEPT ![t] = r]
        /\ unread' = [unread EXCEPT ![t] = unread[t] + 1]
    BY <1>2, <2>1 DEF PublishToken
  <2>3. d \in Delta /\ d.kind = "TOKEN" /\ d.of = t
    BY DEF Deltas, Delta, Kinds
  <2>4. queue \in [Turns -> Seq(Delta)] /\ unread \in [Turns -> Int] /\ queue[t] \in Seq(Delta)
    BY DEF IInv, TypeOK
  <2>5. ~Settled(t)
    BY DEF Settled, LockedSteps
  <2>6. \A i \in 1..Len(queue[t]) : ~(queue[t][i].of = t /\ queue[t][i].kind \in Closing)
    BY <2>5 DEF IInv, Sealed
  <2>7. end[t] # "ownDone"
    BY <2>5 DEF IInv, EndsSealed
  <2> HIDE DEF d
  <2>8. Left(r) = Left(queue[t]) + 1
    BY <2>3, <2>4, AppendCounts
  <2>9. Ordered(r, t)
    BY <2>3, <2>4, <2>6, AppendOrdered DEF Flow, Flows
  <2>10. Pure(r, t)
    <3>1. MadeFrom(r, queue[t], {d})
      BY <2>3, <2>4, AppendMakes
    <3>2. Pure(queue[t], t)
      BY DEF Flow, Flows
    <3> HIDE DEF r
    <3> QED
      BY <2>3, <3>1, <3>2, PureMade
  <2>11. queue'[t] = r /\ unread'[t] = unread[t] + 1
    BY <2>2, <2>4
  <2>12. \A u \in Turns \ {t} : queue'[u] = queue[u] /\ unread'[u] = unread[u]
    BY <2>2, <2>4
  <2>13. Flows(t)'
    BY <2>7, <2>8, <2>9, <2>10, <2>11 DEF Flow, Flows, BusStays
  <2>14. ASSUME NEW u \in Turns \ {t}
         PROVE  Flows(u)'
    BY <2>12 DEF Flow, Flows, BusStays
  <2> QED
    BY <2>13, <2>14 DEF Flow
<1> QED
  BY <1>1, <1>2

\* ERROR and DONE may evict a token of the turn whose queue they go to.
LEMMA LastFlow ==
  ASSUME IInv, Flow, NEW t \in Turns, NEW q \in LastPuts(queue[bus], t), PublishLast(q),
         BusStays, UNCHANGED <<req, end>>
  PROVE  Flow'
<1>1. CASE bus = NoTurn
  BY <1>1, StillFlow DEF PublishLast, StreamsForward
<1>2. CASE bus # NoTurn
  <2>1. PICK b \in Turns : bus = b
    BY <1>2 DEF IInv, TypeOK
  <2>2. /\ queue \in [Turns -> Seq(Delta)] /\ unread \in [Turns -> Int]
        /\ queue[b] \in Seq(Delta) /\ Len(queue[b]) <= QMax
    BY DEF IInv, TypeOK
  <2>3. Flows(b)
    BY DEF Flow
  <2>4. Pure(queue[b], b) /\ Ordered(queue[b], b)
    BY <2>3 DEF Flows
  <2>5. Pure(q, b) /\ Ordered(q, b) /\ Left(q) = Left(queue[b]) - EvictedFrom(queue[b], b)
    BY <2>1, <2>2, <2>4, LastPutFlows
  <2>6. queue'[b] = q /\ unread'[b] = unread[b] - EvictedFrom(queue[b], b)
    BY <1>2, <2>1, <2>2 DEF PublishLast
  <2>7. Left(queue[b]) \in Nat /\ (Left(queue[b]) = 0 => EvictedFrom(queue[b], b) = 0)
    BY <2>2, TokensFinite DEF EvictedFrom, MustEvict
  <2>8. Flows(b)'
    <3>1. task'[b] \in LockedSteps => bus' \in {b, NoTurn}
      BY <2>1 DEF BusStays
    <3>2. Pure(queue'[b], b) /\ Ordered(queue'[b], b)
      BY <2>5, <2>6
    <3>3. req'[b] # "ended" \/ end'[b] = "ownDone" => unread'[b] = Left(queue'[b])
      BY <2>3, <2>5, <2>6 DEF Flows
    <3>4. end'[b] = "ownDone" => Left(queue'[b]) = 0
      BY <2>3, <2>5, <2>6, <2>7 DEF Flows
    <3> QED
      BY <3>1, <3>2, <3>3, <3>4 DEF Flows
  <2>9. ASSUME NEW u \in Turns \ {b}
        PROVE  Flows(u)'
    <3>1. EvictedFrom(queue[b], u) = 0
      BY <2>2, <2>4, FirstExists DEF EvictedFrom, Pure
    <3>2. unread'[u] = unread[u] - EvictedFrom(queue[b], u) /\ queue'[u] = queue[u]
      BY <1>2, <2>1, <2>2 DEF PublishLast
    <3>3. unread[u] \in Int
      BY <2>2
    <3>4. queue'[u] = queue[u] /\ unread'[u] = unread[u]
      BY <3>1, <3>2, <3>3
    <3> QED
      BY <3>4 DEF Flow, Flows, BusStays
  <2> QED
    BY <2>8, <2>9 DEF Flow
<1> QED
  BY <1>1, <1>2

\* A stream takes the head of its queue.  If that is its own turn's DONE no
\* token is left behind it.
LEMMA TakeFlow ==
  ASSUME IInv, Flow, NEW t \in Turns, queue[t] # <<>>, req[t] # "ended",
         queue' = [queue EXCEPT ![t] = Tail(queue[t])],
         unread' = IF Head(queue[t]).kind = "TOKEN"
                   THEN [unread EXCEPT ![Head(queue[t]).of] = unread[Head(queue[t]).of] - 1]
                   ELSE unread,
         BusStays, \A u \in Turns \ {t} : req'[u] = req[u] /\ end'[u] = end[u],
         \/ end'[t] = "ownDone" => end[t] = "ownDone"
         \/ Head(queue[t]).of = t /\ Head(queue[t]).kind \in Closing
  PROVE  Flow'
<1> DEFINE q == queue[t]
           h == Head(q)
<1>1. /\ queue \in [Turns -> Seq(Delta)] /\ unread \in [Turns -> Int]
      /\ q \in Seq(Delta)
  BY DEF IInv, TypeOK
<1>2. /\ Tail(q) \in Seq(Delta) /\ MadeFrom(Tail(q), q, {})
      /\ h \in Delta /\ 1 \in 1..Len(q) /\ h = q[1]
  BY <1>1, TailMakes
<1>3. Pure(q, t) /\ Ordered(q, t) /\ unread[t] = Left(q)
  BY DEF Flow, Flows
<1>4. Left(Tail(q)) = IF h.kind = "TOKEN" THEN Left(q) - 1 ELSE Left(q)
  BY <1>1, TailCounts
<1>5. Ordered(Tail(q), t) /\ (h.of = t /\ h.kind \in Closing => Left(q) = 0)
  BY <1>1, <1>3, TailOrdered
<1>6. Pure(Tail(q), t)
  BY <1>2, <1>3 DEF Pure, MadeFrom
<1>7. Left(q) \in Nat /\ Left(Tail(q)) \in Nat
  BY <1>1, <1>2, TokensFinite
<1>8. h.kind = "TOKEN" => h.of = t
  BY <1>2, <1>3 DEF Pure
<1>9. queue'[t] = Tail(q) /\ (\A u \in Turns \ {t} : queue'[u] = queue[u])
  BY <1>1
<1>10. /\ unread'[t] = Left(Tail(q))
       /\ \A u \in Turns \ {t} : unread'[u] = unread[u]
  <2>1. CASE h.kind = "TOKEN"
    BY <1>1, <1>3, <1>4, <1>8, <2>1
  <2>2. CASE h.kind # "TOKEN"
    BY <1>3, <1>4, <2>2
  <2> QED
    BY <2>1, <2>2
<1>11. end'[t] = "ownDone" => Left(Tail(q)) = 0
  <2>1. CASE end[t] = "ownDone"
    <3>1. Left(q) = 0
      BY <2>1 DEF Flow, Flows
    <3> QED
      BY <1>4, <1>7, <3>1
  <2>2. CASE h.of = t /\ h.kind \in Closing
    <3>1. Left(q) = 0 /\ h.kind # "TOKEN"
      BY <1>5, <2>2 DEF Closing
    <3> QED
      BY <1>4, <3>1
  <2> QED
    BY <2>1, <2>2
<1> HIDE DEF q, h
<1>12. Flows(t)'
  BY <1>5, <1>6, <1>9, <1>10, <1>11 DEF Flow, Flows, BusStays
<1>13. ASSUME NEW u \in Turns \ {t}
       PROVE  Flows(u)'
  BY <1>9, <1>10 DEF Flow, Flows, BusStays
<1> QED
  BY <1>12, <1>13 DEF Flow

LEMMA CollectFlow ==
  ASSUME IInv, Flow, NEW t \in Turns, Collect(t)
  PROVE  Flow'
<1>1. queue \in [Turns -> Seq(Delta)]
  BY DEF IInv, TypeOK
<1>2. /\ req[t] = "ended" /\ bus' \in {bus, NoTurn} /\ (bus = t => bus' = NoTurn)
      /\ queue'[t] = <<>> /\ \A u \in Turns \ {t} : queue'[u] = queue[u]
      /\ UNCHANGED <<unread, req, end, task>>
  BY <1>1 DEF Collect, stream, handler
<1>3. /\ Pure(<<>>, t) /\ Ordered(<<>>, t) /\ Left(<<>>) = 0
  <2>1. Len(<<>>) = 0 /\ 1..0 = {}
    OBVIOUS
  <2>2. Evictable(<<>>) = {}
    BY <2>1 DEF Evictable
  <2> QED
    BY <2>1, <2>2, FS_EmptySet DEF Pure, Ordered, Left
<1>4. Flows(t)'
  <2>1. Flows(t)
    BY DEF Flow
  <2>2. end[t] = "ownDone" => unread[t] = 0
    BY <2>1 DEF Flows
  <2> QED
    BY <1>2, <1>3, <2>1, <2>2 DEF Flows
<1>5. ASSUME NEW u \in Turns \ {t}
      PROVE  Flows(u)'
  BY <1>2 DEF Flow, Flows
<1> QED
  BY <1>4, <1>5 DEF Flow

\* A subscription takes the bus while no other turn runs.
LEMMA SubscribeFlow ==
  ASSUME IInv, Flow, NEW t \in Turns, Subscribe(t)
  PROVE  Flow'
<1>1. /\ bus' = t /\ UNCHANGED <<queue, unread, end>>
      /\ req[t] # "ended" /\ \A u \in Turns \ {t} : req'[u] = req[u] /\ task'[u] = task[u]
  BY DEF Subscribe, IInv, TypeOK
<1>2. \A u \in Turns \ {t} : task[u] \notin LockedSteps
  BY DEF Subscribe, IInv, OneTurnAtATime, Holds
<1>3. Flows(t)'
  BY <1>1 DEF Flow, Flows
<1>4. ASSUME NEW u \in Turns \ {t}
      PROVE  Flows(u)'
  BY <1>1, <1>2 DEF Flow, Flows
<1> QED
  BY <1>3, <1>4 DEF Flow

LEMMA RequestFlow ==
  ASSUME IInv, Flow, NEW t \in Turns, Accept(t) \/ ConstructFails(t) \/ Announce(t)
  PROVE  Flow'
<1>1. UNCHANGED <<queue, unread, bus, task>>
  BY DEF Accept, ConstructFails, Announce, handler
<1>2. StreamsForward
  BY DEF Accept, ConstructFails, Announce, handler, IInv, TypeOK, StreamsForward
<1> QED
  BY <1>1, <1>2, StillFlow DEF BusStays

\* Cancelling a task, or leaving it alone, leaves the bus to it.
LEMMA CancelStays ==
  ASSUME IInv, NEW t \in Turns, LeaveTask \/ CancelTask(t), bus' = bus
  PROVE  BusStays
<1>1. TaskKept(t)
  BY LeaveTaskKeeps, CancelTaskKeeps
<1> QED
  BY <1>1 DEF TaskKept, BusStays

LEMMA EndsForward ==
  ASSUME IInv, NEW t \in Turns, NEW next, NEW why, EndStream(t, next, why), req[t] # "ended"
  PROVE  /\ \A u \in Turns \ {t} : req'[u] = req[u] /\ end'[u] = end[u]
         /\ why # "ownDone" => StreamsForward
BY DEF EndStream, IInv, TypeOK, StreamsForward

\* Streams that stop without taking anything.
LEMMA StopFlow ==
  ASSUME IInv, Flow, NEW t \in Turns,
         Heartbeat(t) \/ StreamTimeout(t) \/ AwaitTask(t) \/ Disconnect(t)
  PROVE  Flow'
<1>1. /\ UNCHANGED <<bus, queue, unread>> /\ (LeaveTask \/ CancelTask(t))
      /\ EndStream(t, "ended", "cut") /\ req[t] # "ended"
  BY DEF Heartbeat, StreamTimeout, AwaitTask, Disconnect, LeaveTask
<1>2. BusStays
  BY <1>1, CancelStays
<1>3. StreamsForward
  BY <1>1, EndsForward
<1> QED
  BY <1>1, <1>2, <1>3, StillFlow

LEMMA ReceiveFlow ==
  ASSUME IInv, Flow, NEW t \in Turns, Receive(t)
  PROVE  Flow'
<1> DEFINE h == Head(queue[t])
<1>1. /\ req[t] # "ended" /\ queue[t] # <<>> /\ bus' = bus /\ LeaveTask
      /\ queue' = [queue EXCEPT ![t] = Tail(queue[t])]
  BY DEF Receive
<1>2. BusStays
  BY <1>1, CancelStays
<1>3. unread' = IF h.kind = "TOKEN" THEN [unread EXCEPT ![h.of] = unread[h.of] - 1] ELSE unread
  BY DEF Receive
<1>4. /\ \A u \in Turns \ {t} : req'[u] = req[u] /\ end'[u] = end[u]
      /\ \/ end'[t] = "ownDone" => end[t] = "ownDone"
         \/ h.of = t /\ h.kind \in Closing
  <2>1. CASE UNCHANGED <<req, end>>
    BY <2>1
  <2>2. CASE EndStream(t, "erring", "cut")
    BY <1>1, <2>2, EndsForward DEF StreamsForward
  <2>3. CASE /\ h.kind \in {"DONE", "NIL"}
             /\ EndStream(t, AfterLoop(t), IF h.of = t THEN "ownDone" ELSE "otherDone")
    <3>1. CASE h.of = t
      BY <1>1, <2>3, <3>1, EndsForward DEF Closing
    <3>2. CASE h.of # t
      <4>1. EndStream(t, AfterLoop(t), "otherDone")
        BY <2>3, <3>2
      <4> QED
        BY <1>1, <4>1, EndsForward DEF StreamsForward
    <3> QED
      BY <3>1, <3>2
  <2> QED
    BY <2>1, <2>2, <2>3 DEF Receive
<1> QED
  BY <1>1, <1>2, <1>3, <1>4, TakeFlow

LEMMA DrainErrorFlow ==
  ASSUME IInv, Flow, NEW t \in Turns, DrainError(t)
  PROVE  Flow'
<1>1. /\ req[t] # "ended" /\ bus' = bus
      /\ \/ EndStream(t, AfterLoop(t), "cut") /\ CancelTask(t)
         \/ UNCHANGED <<req, end>> /\ LeaveTask
  BY DEF DrainError
<1>2. BusStays
  BY <1>1, CancelStays
<1>3. (\A u \in Turns \ {t} : req'[u] = req[u] /\ end'[u] = end[u]) /\ StreamsForward
  BY <1>1, EndsForward DEF StreamsForward
<1>4. CASE queue[t] # <<>>
  <2>1. /\ queue' = [queue EXCEPT ![t] = Tail(queue[t])]
        /\ unread' = IF Head(queue[t]).kind = "TOKEN"
                     THEN [unread EXCEPT ![Head(queue[t]).of] = unread[Head(queue[t]).of] - 1]
                     ELSE unread
    BY <1>4 DEF DrainError
  <2>2. end'[t] = "ownDone" => end[t] = "ownDone"
    BY <1>3 DEF StreamsForward
  <2> QED
    BY <1>1, <1>2, <1>3, <1>4, <2>1, <2>2, TakeFlow
<1>5. CASE queue[t] = <<>>
  <2>1. UNCHANGED <<queue, unread>>
    BY <1>5 DEF DrainError
  <2> QED
    BY <1>2, <1>3, <2>1, StillFlow
<1> QED
  BY <1>4, <1>5

\* The steps of a task that publish nothing.
LEMMA SilentFlow ==
  ASSUME IInv, Flow, NEW t \in Turns,
         \/ Open(t) \/ BeginTurn(t) \/ OpenFails(t) \/ ControllerReturns(t)
         \/ Persist(t) \/ Release(t) \/ Finalize(t)
  PROVE  Flow'
<1> USE DEF Step, Goto, Return
<1>1. UNCHANGED <<queue, unread, bus, req, end>>
  BY DEF Open, BeginTurn, OpenFails, ControllerReturns, Persist, Release, Finalize, stream
<1>2. \/ task' = [task EXCEPT ![t] = "ended"]
      \/ task[t] \in LockedSteps /\ \E step : task' = [task EXCEPT ![t] = step]
      \/ task' = [task EXCEPT ![t] = "closing"]
  <2>1. CASE Open(t) \/ BeginTurn(t) \/ ControllerReturns(t) \/ Persist(t) \/ Release(t)
    BY <2>1 DEF Open, BeginTurn, ControllerReturns, Persist, Release, LockedSteps
  <2>2. CASE OpenFails(t) \/ Finalize(t)
    BY <2>2 DEF OpenFails, Finalize
  <2> QED
    BY <2>1, <2>2
<1>3. \A u \in Turns : task'[u] \in LockedSteps => task[u] \in LockedSteps
  BY <1>2 DEF IInv, TypeOK, LockedSteps
<1> QED
  BY <1>1, <1>3, StillFlow DEF BusStays, StreamsForward

LEMMA PublishingFlow ==
  ASSUME IInv, Flow, NEW t \in Turns,
         EarlyExit(t) \/ StreamToken(t) \/ ControllerFails(t) \/ Finish(t)
  PROVE  Flow'
<1>1. UNCHANGED <<bus, req, end>>
  BY DEF EarlyExit, StreamToken, ControllerFails, Finish, Step, stream
<1>2. BusStays
  BY <1>1 DEF EarlyExit, StreamToken, ControllerFails, Finish, Step, Goto, Return,
     IInv, TypeOK, LockedSteps, BusStays
<1>3. CASE EarlyExit(t) \/ StreamToken(t)
  <2>1. task[t] \in LockedSteps /\ PublishToken(t)
    BY <1>3 DEF EarlyExit, StreamToken, Step, LockedSteps
  <2> QED
    BY <1>1, <1>2, <2>1, TokenFlow
<1>4. CASE ControllerFails(t)
  BY <1>1, <1>2, <1>4, LastFlow DEF ControllerFails, PublishError, LastPuts
<1>5. CASE Finish(t)
  BY <1>1, <1>2, <1>5, LastFlow DEF Finish, PublishDone, LastPuts
<1> QED
  BY <1>3, <1>4, <1>5

LEMMA InitialFlow == Init => Flow
<1> SUFFICES ASSUME Init, NEW t \in Turns PROVE Flows(t)
  BY DEF Flow
<1>1. queue[t] = <<>> /\ Len(<<>>) = 0 /\ 1..0 = {}
  BY DEF Init
<1>2. Evictable(queue[t]) = {}
  BY <1>1 DEF Evictable
<1>3. Left(queue[t]) = 0
  BY <1>2, FS_EmptySet DEF Left
<1>4. Pure(queue[t], t) /\ Ordered(queue[t], t)
  BY <1>1 DEF Pure, Ordered
<1> QED
  BY <1>3, <1>4 DEF Init, Flows

LEMMA NextFlow == IInv /\ Flow /\ [Next]_vars => Flow'
<1> SUFFICES ASSUME IInv, Flow, [Next]_vars PROVE Flow'
  OBVIOUS
<1>1. ASSUME NEW t \in Turns,
             \/ Accept(t) \/ ConstructFails(t) \/ Subscribe(t) \/ Disconnect(t) \/ Collect(t)
             \/ StreamSteps(t)
      PROVE  Flow'
  BY <1>1, RequestFlow, SubscribeFlow, StopFlow, CollectFlow, ReceiveFlow, DrainErrorFlow
     DEF StreamSteps
<1>2. ASSUME NEW t \in Turns, TaskSteps(t)
      PROVE  Flow'
  BY <1>2, SilentFlow, PublishingFlow DEF TaskSteps
<1>3. CASE UNCHANGED vars
  BY <1>3 DEF vars, stream, handler, Flow, Flows
<1> QED
  BY <1>1, <1>2, <1>3 DEF Next

\* A client whose stream closed on its own turn's DONE has read every token
\* the bus took for it and did not evict, at any queue size and whichever
\* turns' streams and late DONEs the bus has carried meanwhile.
THEOREM Wholeness == Spec => []AnswerIsWhole
<1>1. Init => Flow
  BY InitialFlow
<1>2. IInv /\ Flow /\ [Next]_vars => Flow'
  BY NextFlow
<1>3. Flow => AnswerIsWhole
  BY DEF Flow, Flows, AnswerIsWhole
<1> QED
  BY <1>1, <1>2, <1>3, Inductive, PTL DEF Spec
=============================================================================
