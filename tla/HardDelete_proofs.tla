-------------------------- MODULE HardDelete_proofs --------------------------
(***************************************************************************)
(* Proofs about the two deletions of a conversation.  First HardDelete,    *)
(* for every number of calls on either route, turns, handlers and workers: *)
(* the argument runs over the delete run, which the row names until some-  *)
(* body removes the row, whose event is begun by at most one worker, and   *)
(* that worker finds no row or deletes it before it reports anything.      *)
(* Then AuditedDelete, the synchronous one.                                *)
(***************************************************************************)
EXTENDS Deletions, FiniteSetTheorems, TLAPS

(***************************************************************************)
(* An event follows its delete_run, and until some worker has begun the    *)
(* event the row stays with the run, or somebody else has removed it.      *)
(***************************************************************************)
EventsFollowRuns ==
  \A r \in Requests :
    /\ rpc[r] \in {"idle", "locked"} => runs[r] = "none" /\ r \notin events
    /\ rpc[r] = "accepted" => runs[r] # "none" /\ r \notin events
    /\ rpc[r] = "accepted" => Owned(r)
    /\ r \in events /\ ledger[r] = "none" => Owned(r)
    /\ r \in events => runs[r] # "none"
    /\ ledger[r] # "none" => r \in events
    /\ ledger[r] = "none" => r \notin announced /\ runs[r] \in {"none", "REQUESTED"}

\* A busy worker has a ledger row that no other worker has.
WorkersHoldEffects ==
  /\ \A w \in Workers : wpc[w] # "idle" => job[w] \in Requests /\ ledger[job[w]] # "none"
  /\ \A v, w \in Workers :
       wpc[v] # "idle" /\ wpc[w] # "idle" /\ job[v] = job[w] => v = w

\* A run that is overtaken was accepted, and never comes back to a row.
OvertakenArePast ==
  /\ deleter # NoRun => runs[deleter] # "none"
  /\ \A r \in overtaken : runs[r] # "none" /\ deleter # r

\* What a worker has done by the time it reports.
WorkersAreThorough ==
  \A w \in Workers :
    /\ wpc[w] \in {"points", "row"} => job[w] \in geometry
    /\ wpc[w] \in {"mark", "announce", "complete"} =>
         job[w] \in geometry \cup overtaken /\ deleter # job[w]

CoreInv ==
  /\ TypeOK
  /\ EventsFollowRuns
  /\ WorkersHoldEffects
  /\ WorkersAreThorough
  /\ OvertakenArePast
  /\ PurgersOwnTheRow
  /\ CompletionIsTrue

Accepted == {r \in Requests : runs[r] # "none"}

\* An ACTIVE conversation has a run left to accept.
LivesCounted ==
  /\ Cardinality(Accepted) <= gen
  /\ conv = "ACTIVE" => Cardinality(Accepted) < gen

IInv == CoreInv /\ LivesCounted

\* The initial state has no run, no event and no busy worker.
LEMMA CoreInit == Init => CoreInv
<1> SUFFICES ASSUME Init PROVE CoreInv
  OBVIOUS
<1> USE DEF Init
<1>1. TypeOK
  <2>1. gen \in 1..MaxGen /\ faults \in 0..MaxFaults
    BY BoundAssumption
  <2>2. wpc \in [Workers -> {"idle"}] /\ job \in [Workers -> {NoRun}]
    OBVIOUS
  <2> QED
    BY <2>1, <2>2 DEF TypeOK
<1>2. EventsFollowRuns
  BY DEF EventsFollowRuns
<1>3. WorkersHoldEffects /\ WorkersAreThorough /\ OvertakenArePast
  BY DEF WorkersHoldEffects, WorkersAreThorough, OvertakenArePast
<1>4. PurgersOwnTheRow
  BY DEF PurgersOwnTheRow, Purging, PurgeSteps
<1>5. CompletionIsTrue
  BY DEF CompletionIsTrue
<1> QED
  BY <1>1, <1>2, <1>3, <1>4, <1>5 DEF CoreInv

LEMMA LivesInit == Init => LivesCounted
<1>1. Init => Accepted = {}
  BY DEF Init, Accepted
<1> QED
  BY <1>1, FS_EmptySet DEF Init, LivesCounted

-----------------------------------------------------------------------------
(***************************************************************************)
(* A step that leaves runs, events and workers alone, and accepts no call, *)
(* keeps the invariant: the steps of turns and handlers, and those of a    *)
(* call other than its two writes, and of a call at /cima/v1 but for its   *)
(* row.                                                                    *)
(***************************************************************************)
LEMMA Framed ==
  ASSUME CoreInv, TypeOK',
         UNCHANGED <<conv, deleter, async, wpc, job, overtaken>>,
         \A r \in Requests :
           \/ rpc'[r] \in {rpc[r], "release", "done"}
           \/ rpc[r] = "idle" /\ rpc'[r] = "locked"
  PROVE  CoreInv'
<1> USE DEF CoreInv, async
<1>1. EventsFollowRuns'
  BY DEF EventsFollowRuns, Owned
<1>2. WorkersHoldEffects' /\ WorkersAreThorough' /\ OvertakenArePast'
  BY DEF WorkersHoldEffects, WorkersAreThorough, OvertakenArePast
<1>3. PurgersOwnTheRow' /\ CompletionIsTrue'
  BY DEF PurgersOwnTheRow, Purging, Owned, CompletionIsTrue
<1> QED
  BY <1>1, <1>2, <1>3

\* Taking the mutex accepts nothing.
LEMMA LockForDeleteStep ==
  ASSUME CoreInv, NEW q \in Requests, LockForDelete(q)
  PROVE  CoreInv'
<1> USE DEF CoreInv, LockForDelete, database, async, erasing
<1>1. TypeOK'
  BY DEF TypeOK
<1>2. \A r \in Requests :
        rpc'[r] \in {rpc[r], "release", "done"} \/ (rpc[r] = "idle" /\ rpc'[r] = "locked")
  BY DEF TypeOK
<1> QED
  BY <1>1, <1>2, Framed

\* An ACTIVE row names no run yet, and no worker has heard of this one.
LEMMA BeginHardDeleteStep ==
  ASSUME CoreInv, NEW q \in Requests, BeginHardDelete(q)
  PROVE  CoreInv'
<1> USE DEF CoreInv, BeginHardDelete, Deletable, database, async, erasing
<1>1. TypeOK'
  BY DEF TypeOK
<1>2. EventsFollowRuns'
  BY DEF TypeOK, EventsFollowRuns, Owned
<1>3. WorkersHoldEffects'
  BY DEF WorkersHoldEffects
<1>4. WorkersAreThorough'
  BY DEF WorkersAreThorough, WorkersHoldEffects, EventsFollowRuns
<1>5. PurgersOwnTheRow'
  BY DEF PurgersOwnTheRow, Purging, Owned
<1>6. CompletionIsTrue'
  BY DEF CompletionIsTrue, EventsFollowRuns
<1>7. OvertakenArePast'
  BY DEF OvertakenArePast, TypeOK, EventsFollowRuns
<1> QED
  BY <1>1, <1>2, <1>3, <1>4, <1>5, <1>6, <1>7

\* A refused call leaves the row as it is.
LEMMA HardDeleteRefusedStep ==
  ASSUME CoreInv, NEW q \in Requests, HardDeleteRefused(q)
  PROVE  CoreInv'
<1> USE DEF CoreInv, HardDeleteRefused, database, async, erasing
<1>1. TypeOK'
  BY DEF TypeOK
<1>2. \A r \in Requests :
        rpc'[r] \in {rpc[r], "release", "done"} \/ (rpc[r] = "idle" /\ rpc'[r] = "locked")
  BY DEF TypeOK
<1> QED
  BY <1>1, <1>2, Framed

\* The event appears while the row names its run.
LEMMA AppendRequestedStep ==
  ASSUME CoreInv, NEW q \in Requests, AppendRequested(q)
  PROVE  CoreInv'
<1> USE DEF CoreInv, AppendRequested, database, async, erasing
<1>1. TypeOK'
  BY DEF TypeOK
<1>2. EventsFollowRuns'
  BY DEF TypeOK, EventsFollowRuns, Owned
<1>3. WorkersHoldEffects'
  BY DEF WorkersHoldEffects
<1>4. WorkersAreThorough'
  BY DEF WorkersAreThorough
<1>5. PurgersOwnTheRow'
  BY DEF PurgersOwnTheRow, Purging, Owned
<1>6. CompletionIsTrue'
  BY DEF CompletionIsTrue
<1>7. OvertakenArePast'
  BY DEF OvertakenArePast, TypeOK
<1> QED
  BY <1>1, <1>2, <1>3, <1>4, <1>5, <1>6, <1>7

\* Freeing the mutex touches neither runs nor workers.
LEMMA ReleaseAfterDeleteStep ==
  ASSUME CoreInv, NEW q \in Requests, ReleaseAfterDelete(q)
  PROVE  CoreInv'
<1> USE DEF CoreInv, ReleaseAfterDelete, database, async, erasing
<1>1. TypeOK'
  BY DEF TypeOK
<1>2. \A r \in Requests :
        rpc'[r] \in {rpc[r], "release", "done"} \/ (rpc[r] = "idle" /\ rpc'[r] = "locked")
  BY DEF TypeOK
<1> QED
  BY <1>1, <1>2, Framed

\* A call that raises leaves its run behind.
LEMMA AbandonRequestStep ==
  ASSUME CoreInv, NEW q \in Requests, AbandonRequest(q)
  PROVE  CoreInv'
<1> USE DEF CoreInv, AbandonRequest, database, async, erasing
<1>1. TypeOK'
  BY BoundAssumption DEF TypeOK, Fault
<1>2. \A r \in Requests :
        rpc'[r] \in {rpc[r], "release", "done"} \/ (rpc[r] = "idle" /\ rpc'[r] = "locked")
  BY DEF TypeOK
<1> QED
  BY <1>1, <1>2, Framed

\* Opening the id again: no run and no worker is left at the old row.
LEMMA CreateConversationStep ==
  ASSUME CoreInv, NEW t \in Turns, CreateConversation(t)
  PROVE  CoreInv'
<1> USE DEF CoreInv, CreateConversation, database, async, erasing
<1>1. TypeOK'
  BY BoundAssumption DEF TypeOK
<1>2. EventsFollowRuns'
  BY DEF EventsFollowRuns, Owned
<1>3. WorkersHoldEffects'
  BY DEF WorkersHoldEffects
<1>4. WorkersAreThorough'
  BY RequestAssumption DEF WorkersAreThorough, WorkersHoldEffects
<1>5. PurgersOwnTheRow'
  BY DEF PurgersOwnTheRow, Purging, Owned
<1>6. CompletionIsTrue'
  BY RequestAssumption DEF CompletionIsTrue
<1>7. OvertakenArePast'
  BY RequestAssumption DEF OvertakenArePast, TypeOK
<1> QED
  BY <1>1, <1>2, <1>3, <1>4, <1>5, <1>6, <1>7

\* EnsureActive touches neither runs nor workers.
LEMMA EnsureActiveStep ==
  ASSUME CoreInv, NEW t \in Turns, EnsureActive(t)
  PROVE  CoreInv'
<1> USE DEF CoreInv, EnsureActive, database, async, erasing
<1>1. TypeOK'
  BY DEF TypeOK
<1> QED
  BY <1>1, Framed

\* LockForTurn touches neither runs nor workers.
LEMMA LockForTurnStep ==
  ASSUME CoreInv, NEW t \in Turns, LockForTurn(t)
  PROVE  CoreInv'
<1> USE DEF CoreInv, LockForTurn, database, async, erasing
<1>1. TypeOK'
  BY DEF TypeOK
<1> QED
  BY <1>1, Framed

\* FinishTurn touches neither runs nor workers.
LEMMA FinishTurnStep ==
  ASSUME CoreInv, NEW t \in Turns, FinishTurn(t)
  PROVE  CoreInv'
<1> USE DEF CoreInv, FinishTurn, database, async, erasing
<1>1. TypeOK'
  BY DEF TypeOK
<1> QED
  BY <1>1, Framed

\* NeedsAttachment touches neither runs nor workers.
LEMMA NeedsAttachmentStep ==
  ASSUME CoreInv, NEW t \in Turns, NeedsAttachment(t)
  PROVE  CoreInv'
<1> USE DEF CoreInv, NeedsAttachment, database, async, erasing
<1>1. TypeOK'
  BY DEF TypeOK
<1> QED
  BY <1>1, Framed

\* AbandonTurn touches neither runs nor workers.
LEMMA AbandonTurnStep ==
  ASSUME CoreInv, NEW t \in Turns, AbandonTurn(t)
  PROVE  CoreInv'
<1> USE DEF CoreInv, AbandonTurn, database, async, erasing
<1>1. TypeOK'
  BY BoundAssumption DEF TypeOK, Fault
<1> QED
  BY <1>1, Framed

\* GuardHandler touches neither runs nor workers.
LEMMA GuardHandlerStep ==
  ASSUME CoreInv, NEW h \in Handlers, GuardHandler(h)
  PROVE  CoreInv'
<1> USE DEF CoreInv, GuardHandler, database, async, erasing
<1>1. TypeOK'
  BY DEF TypeOK
<1> QED
  BY <1>1, Framed

\* SaveEdus touches neither runs nor workers.
LEMMA SaveEdusStep ==
  ASSUME CoreInv, NEW h \in Handlers, SaveEdus(h)
  PROVE  CoreInv'
<1> USE DEF CoreInv, SaveEdus, database, async, erasing
<1>1. TypeOK'
  BY DEF TypeOK
<1> QED
  BY <1>1, Framed

\* UpsertPoint touches neither runs nor workers.
LEMMA UpsertPointStep ==
  ASSUME CoreInv, NEW h \in Handlers, UpsertPoint(h)
  PROVE  CoreInv'
<1> USE DEF CoreInv, UpsertPoint, database, async, erasing
<1>1. TypeOK'
  BY DEF TypeOK
<1> QED
  BY <1>1, Framed

\* A fresh event belongs to the run the row names.
LEMMA BeginEffectStep ==
  ASSUME CoreInv, NEW x \in Workers, NEW q \in Requests, BeginEffect(x, q)
  PROVE  CoreInv'
<1> USE DEF CoreInv, BeginEffect, Fresh, database, async, erasing
<1>1. TypeOK'
  BY DEF TypeOK
<1>2. EventsFollowRuns'
  BY DEF EventsFollowRuns, Owned
<1>3. WorkersHoldEffects'
  BY DEF TypeOK, WorkersHoldEffects
<1>4. WorkersAreThorough'
  BY DEF WorkersAreThorough
<1>5. PurgersOwnTheRow'
  <2>1. \A w \in Workers : w # x /\ wpc[w] # "idle" => job[w] # q /\ job'[w] = job[w] /\ wpc'[w] = wpc[w]
    BY DEF TypeOK, WorkersHoldEffects
  <2>2. job'[x] = q /\ Owned(q)' /\ (\A r \in Requests : Owned(r)' = Owned(r))
    BY DEF TypeOK, EventsFollowRuns, Owned
  <2>3. \A w \in Workers : w # x => wpc'[w] = wpc[w] /\ job'[w] = job[w]
    BY DEF TypeOK
  <2>4. \A w \in Workers : Purging(w) => wpc[w] # "idle"
    BY DEF Purging, PurgeSteps
  <2>5. \A w \in Workers : w # x => Purging(w)' = Purging(w)
    BY <2>3 DEF Purging
  <2> QED
    BY <2>1, <2>2, <2>3, <2>4, <2>5 DEF PurgersOwnTheRow, WorkersHoldEffects
<1>6. CompletionIsTrue'
  BY DEF CompletionIsTrue
<1>7. OvertakenArePast'
  BY DEF OvertakenArePast, TypeOK
<1> QED
  BY <1>1, <1>2, <1>3, <1>4, <1>5, <1>6, <1>7

\* A worker that begins finds the row.
LEMMA LoadConversationStep ==
  ASSUME CoreInv, NEW x \in Workers, LoadConversation(x)
  PROVE  CoreInv'
<1> USE DEF CoreInv, LoadConversation, database, async, erasing
<1>1. TypeOK'
  BY DEF TypeOK, PurgeSteps
<1>2. EventsFollowRuns'
  BY DEF EventsFollowRuns, Owned
<1>3. WorkersHoldEffects'
  BY DEF WorkersHoldEffects
<1>4. WorkersAreThorough'
  BY DEF WorkersAreThorough, PurgersOwnTheRow, Purging, Owned, OvertakenArePast
<1>5. PurgersOwnTheRow'
  BY DEF PurgersOwnTheRow, Purging, Owned
<1>6. CompletionIsTrue'
  BY DEF CompletionIsTrue
<1>7. OvertakenArePast'
  BY DEF OvertakenArePast, TypeOK
<1> QED
  BY <1>1, <1>2, <1>3, <1>4, <1>5, <1>6, <1>7

\* The geometry command precedes every report.
LEMMA RequestGeometryPurgeStep ==
  ASSUME CoreInv, NEW x \in Workers, RequestGeometryPurge(x)
  PROVE  CoreInv'
<1> USE DEF CoreInv, RequestGeometryPurge, database, async, erasing
<1>1. TypeOK'
  BY DEF TypeOK, PurgeSteps, WorkersHoldEffects
<1>2. EventsFollowRuns'
  BY DEF EventsFollowRuns, Owned
<1>3. WorkersHoldEffects'
  BY DEF WorkersHoldEffects
<1>4. WorkersAreThorough'
  BY DEF WorkersAreThorough
<1>5. PurgersOwnTheRow'
  BY DEF PurgersOwnTheRow, Purging, Owned, PurgeSteps
<1>6. CompletionIsTrue'
  BY DEF CompletionIsTrue
<1>7. OvertakenArePast'
  BY DEF OvertakenArePast, TypeOK
<1> QED
  BY <1>1, <1>2, <1>3, <1>4, <1>5, <1>6, <1>7

\* Deleting the points changes no run.
LEMMA DeletePointsStep ==
  ASSUME CoreInv, NEW x \in Workers, DeletePoints(x)
  PROVE  CoreInv'
<1> USE DEF CoreInv, DeletePoints, database, async, erasing
<1>1. TypeOK'
  BY DEF TypeOK, PurgeSteps
<1>2. EventsFollowRuns'
  BY DEF EventsFollowRuns, Owned
<1>3. WorkersHoldEffects'
  BY DEF WorkersHoldEffects
<1>4. WorkersAreThorough'
  BY DEF WorkersAreThorough
<1>5. PurgersOwnTheRow'
  BY DEF PurgersOwnTheRow, Purging, Owned, PurgeSteps
<1>6. CompletionIsTrue'
  BY DEF CompletionIsTrue
<1>7. OvertakenArePast'
  BY DEF OvertakenArePast, TypeOK
<1> QED
  BY <1>1, <1>2, <1>3, <1>4, <1>5, <1>6, <1>7

\* No fresh event and no other worker is left at the row when it goes.
LEMMA DeleteConversationStep ==
  ASSUME CoreInv, NEW x \in Workers, DeleteConversation(x)
  PROVE  CoreInv'
<1> USE DEF CoreInv, DeleteConversation, DropRow, database, async, erasing
<1>1. TypeOK'
  BY DEF TypeOK
<1>2. EventsFollowRuns'
  BY RequestAssumption DEF EventsFollowRuns, Owned, WorkersHoldEffects
<1>3. WorkersHoldEffects'
  BY DEF WorkersHoldEffects
<1>4. WorkersAreThorough'
  BY RequestAssumption DEF WorkersAreThorough, WorkersHoldEffects
<1>5. PurgersOwnTheRow'
  BY RequestAssumption DEF TypeOK, PurgersOwnTheRow, Purging, Owned, PurgeSteps,
     WorkersHoldEffects
<1>6. CompletionIsTrue'
  BY RequestAssumption DEF CompletionIsTrue
<1>7. OvertakenArePast'
  BY RequestAssumption DEF OvertakenArePast, TypeOK, PurgersOwnTheRow, Purging, PurgeSteps, Owned
<1> QED
  BY <1>1, <1>2, <1>3, <1>4, <1>5, <1>6, <1>7

\* The run is recorded after its row is gone.
LEMMA MarkCompletedStep ==
  ASSUME CoreInv, NEW x \in Workers, MarkCompleted(x)
  PROVE  CoreInv'
<1> USE DEF CoreInv, MarkCompleted, database, async, erasing
<1>1. TypeOK'
  BY DEF TypeOK
<1>2. EventsFollowRuns'
  BY DEF EventsFollowRuns, Owned, WorkersHoldEffects
<1>3. WorkersHoldEffects'
  BY DEF WorkersHoldEffects
<1>4. WorkersAreThorough'
  BY DEF WorkersAreThorough
<1>5. PurgersOwnTheRow'
  BY DEF PurgersOwnTheRow, Purging, Owned, PurgeSteps
<1>6. CompletionIsTrue'
  BY DEF CompletionIsTrue, WorkersAreThorough
<1>7. OvertakenArePast'
  BY DEF OvertakenArePast, TypeOK
<1> QED
  BY <1>1, <1>2, <1>3, <1>4, <1>5, <1>6, <1>7

\* The completed event follows the record.
LEMMA AppendCompletedStep ==
  ASSUME CoreInv, NEW x \in Workers, AppendCompleted(x)
  PROVE  CoreInv'
<1> USE DEF CoreInv, AppendCompleted, database, async, erasing
<1>1. TypeOK'
  BY DEF TypeOK, WorkersHoldEffects
<1>2. EventsFollowRuns'
  BY DEF EventsFollowRuns, Owned, WorkersHoldEffects
<1>3. WorkersHoldEffects'
  BY DEF WorkersHoldEffects
<1>4. WorkersAreThorough'
  BY DEF WorkersAreThorough
<1>5. PurgersOwnTheRow'
  BY DEF PurgersOwnTheRow, Purging, Owned, PurgeSteps
<1>6. CompletionIsTrue'
  BY DEF CompletionIsTrue, WorkersAreThorough
<1>7. OvertakenArePast'
  BY DEF OvertakenArePast, TypeOK
<1> QED
  BY <1>1, <1>2, <1>3, <1>4, <1>5, <1>6, <1>7

\* A completed ledger row stays a row.
LEMMA CompleteEffectStep ==
  ASSUME CoreInv, NEW x \in Workers, CompleteEffect(x)
  PROVE  CoreInv'
<1> USE DEF CoreInv, CompleteEffect, database, async, erasing
<1>1. TypeOK'
  BY DEF TypeOK
<1>2. EventsFollowRuns'
  BY DEF EventsFollowRuns, Owned, WorkersHoldEffects
<1>3. WorkersHoldEffects'
  BY DEF TypeOK, WorkersHoldEffects
<1>4. WorkersAreThorough'
  BY DEF TypeOK, WorkersAreThorough
<1>5. PurgersOwnTheRow'
  BY DEF PurgersOwnTheRow, Purging, Owned, PurgeSteps
<1>6. CompletionIsTrue'
  BY DEF CompletionIsTrue
<1>7. OvertakenArePast'
  BY DEF OvertakenArePast, TypeOK
<1> QED
  BY <1>1, <1>2, <1>3, <1>4, <1>5, <1>6, <1>7

\* A worker that raises purges no more.
LEMMA HandlerRaisesStep ==
  ASSUME CoreInv, NEW x \in Workers, HandlerRaises(x)
  PROVE  CoreInv'
<1> USE DEF CoreInv, HandlerRaises, database, async, erasing
<1>1. TypeOK'
  BY BoundAssumption DEF TypeOK, Fault
<1>2. EventsFollowRuns'
  BY DEF EventsFollowRuns, Owned
<1>3. WorkersHoldEffects'
  BY DEF WorkersHoldEffects
<1>4. WorkersAreThorough'
  BY DEF WorkersAreThorough
<1>5. PurgersOwnTheRow'
  BY DEF PurgersOwnTheRow, Purging, Owned, PurgeSteps
<1>6. CompletionIsTrue'
  BY DEF CompletionIsTrue
<1>7. OvertakenArePast'
  BY DEF OvertakenArePast, TypeOK
<1> QED
  BY <1>1, <1>2, <1>3, <1>4, <1>5, <1>6, <1>7

\* A failed run has an event that was begun.
LEMMA MarkFailedStep ==
  ASSUME CoreInv, NEW x \in Workers, MarkFailed(x)
  PROVE  CoreInv'
<1> USE DEF CoreInv, MarkFailed, database, async, erasing
<1>1. TypeOK'
  BY DEF TypeOK
<1>2. EventsFollowRuns'
  BY DEF EventsFollowRuns, Owned, WorkersHoldEffects
<1>3. WorkersHoldEffects'
  BY DEF TypeOK, WorkersHoldEffects
<1>4. WorkersAreThorough'
  BY DEF WorkersAreThorough
<1>5. PurgersOwnTheRow'
  BY DEF PurgersOwnTheRow, Purging, Owned, PurgeSteps
<1>6. CompletionIsTrue'
  BY DEF CompletionIsTrue
<1>7. OvertakenArePast'
  BY DEF OvertakenArePast, TypeOK
<1> QED
  BY <1>1, <1>2, <1>3, <1>4, <1>5, <1>6, <1>7

\* A worker that is gone holds nothing.
LEMMA CrashWorkerStep ==
  ASSUME CoreInv, NEW x \in Workers, CrashWorker(x)
  PROVE  CoreInv'
<1> USE DEF CoreInv, CrashWorker, database, async, erasing
<1>1. TypeOK'
  BY BoundAssumption DEF TypeOK, Fault
<1>2. EventsFollowRuns'
  BY DEF EventsFollowRuns, Owned
<1>3. WorkersHoldEffects'
  BY DEF TypeOK, WorkersHoldEffects
<1>4. WorkersAreThorough'
  BY DEF TypeOK, WorkersAreThorough
<1>5. PurgersOwnTheRow'
  BY DEF TypeOK, PurgersOwnTheRow, Purging, Owned, PurgeSteps
<1>6. CompletionIsTrue'
  BY DEF CompletionIsTrue
<1>7. OvertakenArePast'
  BY DEF OvertakenArePast, TypeOK
<1> QED
  BY <1>1, <1>2, <1>3, <1>4, <1>5, <1>6, <1>7

\* Taking the mutex at /cima/v1 removes nothing.
LEMMA LockForErasureStep ==
  ASSUME CoreInv, NEW e \in Erasers, LockForErasure(e)
  PROVE  CoreInv'
<1> USE DEF CoreInv, LockForErasure, database, async, control, erasing
<1>1. TypeOK'
  BY DEF TypeOK
<1> QED
  BY <1>1, Framed

\* The row goes from under its run, which is overtaken then.
LEMMA EraseRowStep ==
  ASSUME CoreInv, NEW e \in Erasers, EraseRow(e)
  PROVE  CoreInv'
<1> USE DEF CoreInv, EraseRow, DropRow, database, async, control, erasing
<1>1. TypeOK'
  BY DEF TypeOK
<1>2. EventsFollowRuns'
  BY RequestAssumption DEF EventsFollowRuns, Owned
<1>3. WorkersHoldEffects'
  BY DEF WorkersHoldEffects
<1>4. WorkersAreThorough'
  BY RequestAssumption DEF WorkersAreThorough, WorkersHoldEffects
<1>5. PurgersOwnTheRow'
  BY RequestAssumption DEF PurgersOwnTheRow, Purging, Owned, WorkersHoldEffects, PurgeSteps
<1>6. CompletionIsTrue'
  BY RequestAssumption DEF CompletionIsTrue
<1>7. OvertakenArePast'
  BY RequestAssumption DEF OvertakenArePast, TypeOK
<1> QED
  BY <1>1, <1>2, <1>3, <1>4, <1>5, <1>6, <1>7

\* Nor does its answer,
LEMMA AnswerErasureStep ==
  ASSUME CoreInv, NEW e \in Erasers, AnswerErasure(e)
  PROVE  CoreInv'
<1> USE DEF CoreInv, AnswerErasure, database, async, control, erasing
<1>1. TypeOK'
  BY DEF TypeOK
<1> QED
  BY <1>1, Framed

\* nor a call that raises,
LEMMA ErasureRaisesStep ==
  ASSUME CoreInv, NEW e \in Erasers, ErasureRaises(e)
  PROVE  CoreInv'
<1> USE DEF CoreInv, ErasureRaises, database, async, control, erasing
<1>1. TypeOK'
  BY BoundAssumption DEF TypeOK, Fault
<1> QED
  BY <1>1, Framed

\* nor the release,
LEMMA ReleaseAfterErasureStep ==
  ASSUME CoreInv, NEW e \in Erasers, ReleaseAfterErasure(e)
  PROVE  CoreInv'
<1> USE DEF CoreInv, ReleaseAfterErasure, database, async, control, erasing
<1>1. TypeOK'
  BY DEF TypeOK
<1> QED
  BY <1>1, Framed

\* nor its end.
LEMMA AbandonErasureStep ==
  ASSUME CoreInv, NEW e \in Erasers, AbandonErasure(e)
  PROVE  CoreInv'
<1> USE DEF CoreInv, AbandonErasure, database, async, control, erasing
<1>1. TypeOK'
  BY BoundAssumption DEF TypeOK, Fault
<1> QED
  BY <1>1, Framed

-----------------------------------------------------------------------------
\* Every step keeps the part of the invariant that is about the run.
LEMMA CoreNext == CoreInv /\ [Next]_vars => CoreInv'
<1> SUFFICES ASSUME CoreInv, [Next]_vars
             PROVE  CoreInv'
  OBVIOUS
<1>1. CASE UNCHANGED vars
  BY <1>1 DEF vars, database, async, control, erasing, CoreInv, TypeOK, EventsFollowRuns,
     WorkersHoldEffects, WorkersAreThorough, OvertakenArePast, PurgersOwnTheRow, Purging, Owned,
     CompletionIsTrue
<1>2. ASSUME NEW q \in Requests, RequestStep(q) \/ AbandonRequest(q)
      PROVE  CoreInv'
  BY <1>2, LockForDeleteStep, BeginHardDeleteStep, HardDeleteRefusedStep,
     AppendRequestedStep, ReleaseAfterDeleteStep, AbandonRequestStep DEF RequestStep
<1>3. ASSUME NEW t \in Turns, TurnStep(t) \/ AbandonTurn(t)
      PROVE  CoreInv'
  BY <1>3, CreateConversationStep, EnsureActiveStep, LockForTurnStep, FinishTurnStep,
     NeedsAttachmentStep, AbandonTurnStep DEF TurnStep
<1>4. ASSUME NEW h \in Handlers, HandlerStep(h)
      PROVE  CoreInv'
  BY <1>4, GuardHandlerStep, SaveEdusStep, UpsertPointStep DEF HandlerStep
<1>5. ASSUME NEW x \in Workers, WorkerStep(x) \/ HandlerRaises(x) \/ CrashWorker(x)
      PROVE  CoreInv'
  BY <1>5, BeginEffectStep, LoadConversationStep, RequestGeometryPurgeStep,
     DeletePointsStep, DeleteConversationStep, MarkCompletedStep, AppendCompletedStep,
     CompleteEffectStep, MarkFailedStep, HandlerRaisesStep, CrashWorkerStep DEF WorkerStep
<1>6. ASSUME NEW e \in Erasers, EraserStep(e) \/ ErasureRaises(e) \/ AbandonErasure(e)
      PROVE  CoreInv'
  BY <1>6, LockForErasureStep, EraseRowStep, AnswerErasureStep, ErasureRaisesStep,
     ReleaseAfterErasureStep, AbandonErasureStep DEF EraserStep
<1> QED
  BY <1>1, <1>2, <1>3, <1>4, <1>5, <1>6 DEF Next

\* Only begin_hard_delete turns "none" into a status.
LEMMA OnlyOneAccepts ==
  ASSUME CoreInv, Next
  PROVE  \/ UNCHANGED Accepted
         \/ conv = "ACTIVE" /\ conv' # "ACTIVE" /\ gen' = gen
              /\ \E q \in Requests : Accepted' = Accepted \cup {q}
<1> USE DEF database, async
<1>1. ASSUME UNCHANGED runs
      PROVE  UNCHANGED Accepted
  BY <1>1 DEF Accepted
<1>2. ASSUME NEW q \in Requests, RequestStep(q) \/ AbandonRequest(q)
      PROVE  \/ UNCHANGED runs
             \/ conv = "ACTIVE" /\ conv' # "ACTIVE" /\ gen' = gen
                  /\ Accepted' = Accepted \cup {q}
  <2>1. CASE BeginHardDelete(q)
    BY <2>1 DEF BeginHardDelete, Deletable, Accepted, CoreInv, TypeOK
  <2> QED
    BY <1>2, <2>1 DEF RequestStep, LockForDelete, HardDeleteRefused, AppendRequested,
       ReleaseAfterDelete, AbandonRequest
<1>3. ASSUME NEW t \in Turns, TurnStep(t) \/ AbandonTurn(t)
      PROVE  UNCHANGED runs
  BY <1>3 DEF TurnStep, CreateConversation, EnsureActive, LockForTurn, FinishTurn, NeedsAttachment,
     AbandonTurn
<1>4. ASSUME NEW h \in Handlers, HandlerStep(h)
      PROVE  UNCHANGED runs
  BY <1>4 DEF HandlerStep, GuardHandler, SaveEdus, UpsertPoint
<1>5. ASSUME NEW x \in Workers, WorkerStep(x) \/ HandlerRaises(x) \/ CrashWorker(x)
      PROVE  UNCHANGED Accepted
  <2>1. ASSUME MarkCompleted(x) \/ MarkFailed(x)
        PROVE  UNCHANGED Accepted
    <3>1. job[x] \in Requests /\ runs[job[x]] # "none"
      BY <2>1 DEF MarkCompleted, MarkFailed, CoreInv, WorkersHoldEffects, EventsFollowRuns
    <3>2. \A r \in Requests : (runs'[r] # "none") <=> (runs[r] # "none")
      BY <2>1, <3>1 DEF MarkCompleted, MarkFailed, CoreInv, TypeOK
    <3> QED
      BY <3>2 DEF Accepted
  <2> QED
    BY <1>1, <1>5, <2>1 DEF WorkerStep, BeginEffect, LoadConversation, RequestGeometryPurge,
       DeletePoints, DeleteConversation, AppendCompleted, CompleteEffect, HandlerRaises,
       CrashWorker
<1>6. ASSUME NEW e \in Erasers, EraserStep(e) \/ ErasureRaises(e) \/ AbandonErasure(e)
      PROVE  UNCHANGED runs
  BY <1>6 DEF EraserStep, LockForErasure, EraseRow, AnswerErasure, ErasureRaises,
     ReleaseAfterErasure, AbandonErasure
<1> QED
  BY <1>1, <1>2, <1>3, <1>4, <1>5, <1>6 DEF Next

\* Only the OpenAI route makes the row ACTIVE, and that starts another life.
LEMMA OnlyCreationActivates ==
  ASSUME CoreInv, Next
  PROVE  /\ gen' = gen \/ gen' = gen + 1
         /\ conv' = "ACTIVE" => conv = "ACTIVE" \/ gen' = gen + 1
<1> USE DEF database
<1> QED
  BY DEF CoreInv, TypeOK, Next, RequestStep, LockForDelete, BeginHardDelete,
     HardDeleteRefused, AppendRequested, ReleaseAfterDelete, AbandonRequest, TurnStep,
     CreateConversation, EnsureActive, LockForTurn, FinishTurn, NeedsAttachment,
     AbandonTurn, HandlerStep,
     GuardHandler, SaveEdus, UpsertPoint, WorkerStep, BeginEffect,
     LoadConversation, RequestGeometryPurge, DeletePoints, DeleteConversation,
     MarkCompleted, AppendCompleted, CompleteEffect, HandlerRaises, MarkFailed, CrashWorker,
     DropRow, EraserStep, LockForErasure, EraseRow, AnswerErasure, ErasureRaises,
     ReleaseAfterErasure, AbandonErasure

LEMMA LivesNext == CoreInv /\ LivesCounted /\ [Next]_vars => LivesCounted'
<1> SUFFICES ASSUME CoreInv, LivesCounted, [Next]_vars
             PROVE  LivesCounted'
  OBVIOUS
<1>1. IsFiniteSet(Accepted) /\ Cardinality(Accepted) \in Nat
  BY RequestAssumption, FS_Subset, FS_CardinalityType DEF Accepted
<1>2. gen \in Nat
  BY DEF CoreInv, TypeOK
<1>3. CASE UNCHANGED vars
  BY <1>3 DEF vars, database, async, LivesCounted, Accepted
<1>4. CASE Next
  <2>1. gen' \in {gen, gen + 1} /\ (conv' = "ACTIVE" => conv = "ACTIVE" \/ gen' = gen + 1)
    BY <1>4, OnlyCreationActivates
  <2>2. CASE UNCHANGED Accepted
    BY <1>1, <1>2, <2>1, <2>2 DEF LivesCounted
  <2>3. ASSUME conv = "ACTIVE", conv' # "ACTIVE", gen' = gen,
               NEW q \in Requests, Accepted' = Accepted \cup {q}
        PROVE  LivesCounted'
    <3>1. /\ IsFiniteSet(Accepted \cup {q})
          /\ Cardinality(Accepted \cup {q}) \in {Cardinality(Accepted),
             Cardinality(Accepted) + 1}
      BY <1>1, FS_AddElement
    <3>2. Cardinality(Accepted') \in Nat /\ Cardinality(Accepted') <= Cardinality(Accepted) + 1
      BY <1>1, <2>3, <3>1
    <3> QED
      BY <1>1, <1>2, <2>3, <3>1, <3>2 DEF LivesCounted
  <2> QED
    BY <1>4, <2>2, <2>3, OnlyOneAccepts
<1> QED
  BY <1>3, <1>4

-----------------------------------------------------------------------------
\* The inductive invariant holds in every reachable state.
THEOREM Inductive == Spec => []IInv
<1>1. Init => IInv
  BY CoreInit, LivesInit DEF IInv
<1>2. IInv /\ [Next]_vars => IInv'
  BY CoreNext, LivesNext DEF IInv
<1> QED
  BY <1>1, <1>2, PTL DEF Spec

\* Every variable keeps its type (the states of the handlers and the tables).
THEOREM TypeCorrect == Spec => []TypeOK
<1>1. IInv => TypeOK
  BY DEF IInv, CoreInv
<1> QED
  BY <1>1, Inductive, PTL

(***************************************************************************)
(* The worker that purges works for the run the row names, or for one      *)
(* whose row somebody else has removed, and no other purges for that run,  *)
(* whatever is redelivered, crashes, is requested again or deleted at      *)
(* /cima/v1 meanwhile.                                                     *)
(***************************************************************************)
THEOREM PurgeIsExclusive == Spec => []PurgersOwnTheRow
<1>1. IInv => PurgersOwnTheRow
  BY DEF IInv, CoreInv
<1> QED
  BY <1>1, Inductive, PTL

(***************************************************************************)
(* mark_hard_delete_completed and the completed event tell the truth: the  *)
(* row is gone, and the geometry service has been told unless somebody     *)
(* else removed the row first.                                             *)
(***************************************************************************)
THEOREM ReportsAreTrue == Spec => []CompletionIsTrue
<1>1. IInv => CompletionIsTrue
  BY DEF IInv, CoreInv
<1> QED
  BY <1>1, Inductive, PTL

(***************************************************************************)
(* begin_hard_delete accepts at most one run in each life of the id.       *)
(***************************************************************************)
THEOREM RunsAreCounted == Spec => []OneRunPerLife
<1>1. IInv => OneRunPerLife
  BY DEF IInv, LivesCounted, OneRunPerLife, Accepted
<1> QED
  BY <1>1, Inductive, PTL

(***************************************************************************)
(* No step takes a point, a chunk or the row from an ACTIVE conversation   *)
(* but that of a call at /cima/v1, and of a worker whose run's row some-   *)
(* body else has removed: a late or repeated purge of any other run never  *)
(* reaches the conversation opened under the same id.                      *)
(***************************************************************************)
THEOREM ActiveIsSafe == Spec => ActiveIsUntouched
<1> DEFINE Untouched ==
      conv = "ACTIVE" /\ ~Unheeding =>
        /\ conv' # "GONE"
        /\ points \subseteq points'
        /\ \A h \in Handlers : chunk'[h] = "GONE" => chunk[h] = "GONE"
<1>1. ASSUME IInv, [Next]_vars
      PROVE  Untouched \/ UNCHANGED vars
  <2> SUFFICES ASSUME conv = "ACTIVE", ~Unheeding, Next
               PROVE  Untouched
    BY <1>1
  <2> USE DEF database
  <2>1. ASSUME NEW q \in Requests, RequestStep(q) \/ AbandonRequest(q)
        PROVE  Untouched
    BY <2>1 DEF RequestStep, LockForDelete, BeginHardDelete, HardDeleteRefused,
       AppendRequested, ReleaseAfterDelete, AbandonRequest
  <2>2. ASSUME NEW t \in Turns, TurnStep(t) \/ AbandonTurn(t)
        PROVE  Untouched
    BY <2>2 DEF TurnStep, CreateConversation, EnsureActive, LockForTurn, FinishTurn, NeedsAttachment,
     AbandonTurn
  <2>3. ASSUME NEW h \in Handlers, HandlerStep(h)
        PROVE  Untouched
    BY <1>1, <2>3 DEF HandlerStep, GuardHandler, SaveEdus, UpsertPoint, IInv,
       CoreInv, TypeOK
  <2>4. ASSUME NEW x \in Workers, WorkerStep(x) \/ HandlerRaises(x) \/ CrashWorker(x)
        PROVE  Untouched
    <3>1. CASE Purging(x)
      <4>1. wpc'[x] = wpc[x]
        BY <1>1, <3>1 DEF IInv, CoreInv, PurgersOwnTheRow, Owned, Unheeding
      <4> QED
        BY <1>1, <2>4, <3>1, <4>1 DEF IInv, CoreInv, TypeOK, Purging, PurgeSteps, WorkerStep,
           BeginEffect, LoadConversation, RequestGeometryPurge, DeletePoints,
           DeleteConversation, MarkCompleted, AppendCompleted, CompleteEffect, HandlerRaises,
           MarkFailed, CrashWorker
    <3>2. CASE ~Purging(x)
      BY <2>4, <3>2 DEF Purging, PurgeSteps, WorkerStep, BeginEffect, LoadConversation,
         RequestGeometryPurge, DeletePoints, DeleteConversation, MarkCompleted,
         AppendCompleted, CompleteEffect, HandlerRaises, MarkFailed, CrashWorker
    <3> QED
      BY <3>1, <3>2
  <2>5. ASSUME NEW e \in Erasers, EraserStep(e) \/ ErasureRaises(e) \/ AbandonErasure(e)
        PROVE  Untouched
    <3>1. ~EraseRow(e)
      BY <1>1 DEF EraseRow, Unheeding, IInv, CoreInv, TypeOK
    <3> QED
      BY <2>5, <3>1 DEF EraserStep, LockForErasure, AnswerErasure, ErasureRaises,
         ReleaseAfterErasure, AbandonErasure
  <2> QED
    BY <2>1, <2>2, <2>3, <2>4, <2>5 DEF Next
<1> QED
  BY <1>1, Inductive, PTL DEF Spec, ActiveIsUntouched

-----------------------------------------------------------------------------
(***************************************************************************)
(* The synchronous delete, for any number of calls, turns, indexers and gc *)
(* workers.                                                                *)
(* The invariant rests on three facts: what was stored when a call took    *)
(* the mutex never comes back once it is gone, for a writer writes once;   *)
(* the mutex tells calls and turns apart until a call or a gc worker frees *)
(* that of somebody else; and a call's audits say what its last look found.        *)
(***************************************************************************)
CallPlaces ==
  {"idle", "lock", "before", "points", "row", "sweep", "count", "fetch", "audit", "trace",
   "recount", "refetch", "reaudit", "release", "done"}
Answers == {"none", "404", "409", "500", "204", "residue"}
Items == [kind : Audited!Kinds, by : Openers \cup Indexers \cup {Nobody}]

AuditTypes ==
  /\ row \in BOOLEAN
  /\ holder \in Calls \cup Openers \cup {Nobody}
  /\ data \subseteq Items
  /\ audits \subseteq [of : Calls, ok : BOOLEAN, error : BOOLEAN]
  /\ cpc \in [Calls -> CallPlaces]
  /\ owed \in [Calls -> SUBSET Items]
  /\ clean \in [Calls -> [rows : BOOLEAN, points : BOOLEAN]]
  /\ answer \in [Calls -> Answers]
  /\ at \in [Openers -> {"idle", "opened", "running", "wrote", "done"}]
  /\ ipc \in [Indexers -> {"idle", "sees", "done"}]
  /\ unsure \subseteq Calls /\ blind \in BOOLEAN

(* Who has not written yet, and so is the writer of nothing. *)
Silent ==
  {t \in Openers : at[t] \in {"idle", "opened", "running"}}
    \cup {i \in Indexers : ipc[i] # "done"}
WritersWriteOnce ==
  /\ \A d \in data : d.by \notin Silent
  /\ \A c \in Calls : \A d \in owed[c] : d.by \notin Silent

(* A promoted memory holds on to the row. *)
PromotedKeepsRow == Audited!Rows({"promoted"}) # {} => row

(* What a call still leaves of what it owes, by where it stands. *)
Remains(c, kinds) == \A d \in owed[c] \cap data : d.kind \in kinds
Looked(c) == cpc[c] \in {"fetch", "audit", "trace"} \/ answer[c] = "204"
Erasing(c) ==
  /\ cpc[c] = "row" => Remains(c, Audited!Kinds \ {"point"})
  /\ cpc[c] \in {"sweep", "count"} => Remains(c, {"left"})
  /\ Looked(c) => Remains(c, IF clean[c].rows THEN {} ELSE {"left"})

(* The audits of a call. *)
AuditsOf(c) == {a \in audits : a.of = c}
Accounted(c) ==
  /\ cpc[c] \in {"idle", "lock", "before", "points", "row", "sweep", "count", "fetch", "audit"}
       => AuditsOf(c) = {}
  /\ cpc[c] = "trace" \/ answer[c] \in {"204", "residue"} =>
       AuditsOf(c) = {[of |-> c, ok |-> Audited!CleanupOk(c), error |-> FALSE]}
  /\ cpc[c] = "release" \/ (answer[c] = "500" /\ c \notin unsure) => AuditsOf(c) # {}
  /\ answer[c] = "204" => Audited!CleanupOk(c)
  /\ answer[c] = "residue" => ~Audited!CleanupOk(c)
  /\ answer[c] # "none" <=> cpc[c] = "done"

(* The mutex. *)
HoldsWhile(c) ==
  holder = c =>
    \/ cpc[c] \in {"before", "points", "row", "recount", "refetch", "reaudit", "release"}
    \/ cpc[c] = "done" /\ c \in unsure
MutexExcludes ==
  ~blind =>
    /\ \A t \in Openers : Audited!Running(t) => holder = t
    /\ \A c \in Calls : cpc[c] \in {"before", "points", "row"} => holder = c

AuditInv ==
  /\ AuditTypes /\ WritersWriteOnce /\ PromotedKeepsRow /\ MutexExcludes
  /\ \A c \in Calls : Erasing(c) /\ Accounted(c) /\ HoldsWhile(c)

-----------------------------------------------------------------------------
CallStep(c) ==
  \/ Audited!Look(c) \/ Audited!Lock(c) \/ Audited!CountBefore(c) \/ Audited!DeletePoints(c)
     \/ Audited!DeleteConversation(c)
  \/ Audited!CountRows(c) \/ Audited!FetchPoints(c) \/ Audited!Audit(c) \/ Audited!Trace(c)
  \/ Audited!Raise(c) \/ Audited!AuditError(c) \/ Audited!Release(c) \/ Audited!RaiseAgain(c)
OtherStep ==
  \/ \E t \in Openers : Audited!Open(t) \/ Audited!Enter(t) \/ Audited!Write(t)
     \/ Audited!Leave(t)
  \/ \E i \in Indexers : Audited!Index(i)
  \/ \E g \in Collectors : Audited!Collect(g)

\* A call, turn or indexer takes each step.
LEMMA StepCases ==
  ASSUME Audited!Next
  PROVE  (\E c \in Calls : CallStep(c)) \/ OtherStep
BY DEF Audited!Next, CallStep, OtherStep

LEMMA AuditBegins == Audited!AuditAssumption /\ Audited!Init => AuditInv
<1> SUFFICES ASSUME Audited!AuditAssumption, Audited!Init PROVE AuditInv
  OBVIOUS
<1>1. AuditTypes
  <2>1. row \in BOOLEAN /\ blind \in BOOLEAN
    BY DEF Audited!Init
  <2>2. data \subseteq Items
    BY DEF Audited!Init, Items, Audited!Item, Audited!Kinds
  <2>3. QED
    BY <2>1, <2>2 DEF Audited!Init, AuditTypes, CallPlaces, Answers
<1>2. WritersWriteOnce
  BY DEF Audited!AuditAssumption, Audited!Init, WritersWriteOnce, Silent, Audited!Item
<1>3. PromotedKeepsRow
  BY DEF Audited!Init, PromotedKeepsRow, Audited!Rows
<1>4. MutexExcludes
  BY DEF Audited!Init, MutexExcludes, Audited!Running
<1>5. \A c \in Calls : Erasing(c) /\ Accounted(c) /\ HoldsWhile(c)
  BY DEF Audited!AuditAssumption, Audited!Init, Erasing, Looked, Accounted, AuditsOf, HoldsWhile
<1>6. QED
  BY <1>1, <1>2, <1>3, <1>4, <1>5 DEF AuditInv

-----------------------------------------------------------------------------
\* The values of the variables.
LEMMA CallKeepsTypes ==
  ASSUME Audited!AuditAssumption, AuditTypes, NEW c \in Calls, CallStep(c)
  PROVE  AuditTypes'
<1> USE DEF AuditTypes, CallPlaces, Answers, Audited!Goto, Audited!Reply, Audited!others
<1>1. CASE Audited!Look(c)
  BY <1>1 DEF Audited!Look
<1>2. CASE Audited!Lock(c)
  BY <1>2 DEF Audited!Lock
<1>3. CASE Audited!CountBefore(c)
  BY <1>3 DEF Audited!CountBefore, Audited!Fault
<1>4. CASE Audited!DeletePoints(c)
  BY <1>4 DEF Audited!DeletePoints
<1>5. CASE Audited!DeleteConversation(c)
  <2>1. data' \subseteq data /\ row' \in BOOLEAN /\ holder' \in {holder, Nobody}
    BY <1>5 DEF Audited!DeleteConversation, Audited!Held,
     Audited!DropRows
  <2>2. PICK p \in {"recount", "sweep"} : cpc' = [cpc EXCEPT ![c] = p]
    BY <1>5 DEF Audited!DeleteConversation, Audited!Held,
     Audited!DropRows
  <2>3. cpc' \in [Calls -> CallPlaces]
    BY <2>2
  <2>4. QED
    BY <1>5, <2>1, <2>3 DEF Audited!DeleteConversation, Audited!Held,
     Audited!DropRows
<1>6. CASE Audited!CountRows(c)
  <2>1. PICK b \in BOOLEAN : clean' = [clean EXCEPT ![c].rows = b]
    BY <1>6 DEF Audited!CountRows
  <2>2. clean' \in [Calls -> [rows : BOOLEAN, points : BOOLEAN]]
    BY <2>1
  <2>3. QED
    BY <1>6, <2>2 DEF Audited!CountRows
<1>7. CASE Audited!FetchPoints(c)
  BY <1>7 DEF Audited!FetchPoints
<1>8. CASE Audited!Audit(c)
  <2>1. [of |-> c, ok |-> Audited!CleanupOk(c), error |-> FALSE] \in [of : Calls, ok : BOOLEAN,
     error : BOOLEAN]
    BY DEF Audited!CleanupOk
  <2>2. audits' \subseteq [of : Calls, ok : BOOLEAN, error : BOOLEAN]
    BY <1>8, <2>1 DEF Audited!Audit
  <2>3. QED
    BY <1>8, <2>2 DEF Audited!Audit
<1>9. CASE Audited!Trace(c)
  BY <1>9 DEF Audited!Trace
<1>10. CASE Audited!Raise(c)
  BY <1>10 DEF Audited!Raise, Audited!Fault
<1>11. CASE Audited!AuditError(c)
  <2>1. [of |-> c, ok |-> Audited!CleanupOk(c), error |-> TRUE] \in [of : Calls, ok : BOOLEAN,
     error : BOOLEAN]
    BY DEF Audited!CleanupOk
  <2>2. audits' \subseteq [of : Calls, ok : BOOLEAN, error : BOOLEAN]
    BY <1>11, <2>1 DEF Audited!AuditError
  <2>3. QED
    BY <1>11, <2>2 DEF Audited!AuditError
<1>12. CASE Audited!Release(c)
  BY <1>12 DEF Audited!Release
<1>13. CASE Audited!RaiseAgain(c)
  BY <1>13 DEF Audited!RaiseAgain, Audited!Fault
<1>14. QED
  BY <1>1, <1>2, <1>3, <1>4, <1>5, <1>6, <1>7, <1>8, <1>9, <1>10, <1>11, <1>12,
     <1>13 DEF CallStep

LEMMA OtherTypes ==
  ASSUME Audited!AuditAssumption, AuditTypes, OtherStep
  PROVE  AuditTypes'
<1> USE DEF AuditTypes
<1>1. ASSUME NEW t \in Openers, Audited!Open(t) PROVE AuditTypes'
  BY <1>1 DEF Audited!Open
<1>2. ASSUME NEW t \in Openers, Audited!Enter(t) PROVE AuditTypes'
  BY <1>2 DEF Audited!Enter
<1>3. ASSUME NEW t \in Openers, Audited!Write(t) PROVE AuditTypes'
  BY <1>3 DEF Audited!Write, Items, Audited!Item, Audited!Kinds
<1>4. ASSUME NEW t \in Openers, Audited!Leave(t) PROVE AuditTypes'
  BY <1>4 DEF Audited!Leave
<1>5. ASSUME NEW i \in Indexers, Audited!Index(i) PROVE AuditTypes'
  BY <1>5 DEF Audited!Index,
     Audited!Collect, Audited!DropRows, Items, Audited!Item, Audited!Kinds
<1>6. ASSUME NEW g \in Collectors, Audited!Collect(g) PROVE AuditTypes'
  <2>1. row' \in BOOLEAN /\ holder' \in {holder, Nobody} /\ data' \subseteq data
        /\ blind' \in BOOLEAN
    BY <1>6 DEF Audited!Collect, Audited!DropRows
  <2>2. QED
    BY <1>6, <2>1 DEF Audited!Collect
<1>7. QED
  BY <1>1, <1>2, <1>3, <1>4, <1>5, <1>6 DEF OtherStep

-----------------------------------------------------------------------------
\* What a call has in its own hands, and what it leaves of another's.
Unmoved(u) ==
  /\ cpc'[u] = cpc[u] /\ answer'[u] = answer[u]
  /\ owed'[u] = owed[u] /\ clean'[u] = clean[u]
  /\ (u \in unsure') = (u \in unsure)
  /\ AuditsOf(u)' = AuditsOf(u)

\* No call touches what is another's, except the mutex.
LEMMA CallsKeepApart ==
  ASSUME Audited!AuditAssumption, AuditTypes, NEW c \in Calls, CallStep(c), NEW u \in Calls,
         u # c
  PROVE  Unmoved(u)
<1> USE DEF AuditTypes, Audited!Goto, Audited!Reply, Unmoved, AuditsOf
<1>1. CASE Audited!Look(c)
  BY <1>1 DEF Audited!Look
<1>2. CASE Audited!Lock(c)
  BY <1>2 DEF Audited!Lock
<1>3. CASE Audited!CountBefore(c)
  BY <1>3 DEF Audited!CountBefore
<1>4. CASE Audited!DeletePoints(c)
  BY <1>4 DEF Audited!DeletePoints
<1>5. CASE Audited!DeleteConversation(c)
  BY <1>5 DEF Audited!DeleteConversation, Audited!Held,
     Audited!DropRows
<1>6. CASE Audited!CountRows(c)
  BY <1>6 DEF Audited!CountRows
<1>7. CASE Audited!FetchPoints(c)
  BY <1>7 DEF Audited!FetchPoints
<1>8. CASE Audited!Audit(c)
  BY <1>8 DEF Audited!Audit
<1>9. CASE Audited!Trace(c)
  BY <1>9 DEF Audited!Trace
<1>10. CASE Audited!Raise(c)
  BY <1>10 DEF Audited!Raise
<1>11. CASE Audited!AuditError(c)
  BY <1>11 DEF Audited!AuditError
<1>12. CASE Audited!Release(c)
  BY <1>12 DEF Audited!Release
<1>13. CASE Audited!RaiseAgain(c)
  BY <1>13 DEF Audited!RaiseAgain
<1>14. QED
  BY <1>1, <1>2, <1>3, <1>4, <1>5, <1>6, <1>7, <1>8, <1>9, <1>10, <1>11, <1>12,
     <1>13 DEF CallStep

LEMMA OthersKeepApart ==
  ASSUME OtherStep, NEW u \in Calls
  PROVE  Unmoved(u)
BY DEF OtherStep, Audited!Open, Audited!Enter, Audited!Write, Audited!Leave, Audited!Index,
     Audited!Collect, Audited!DropRows,
   Unmoved, AuditsOf

\* A step adds only what a writer writes that was silent.
LEMMA OnlyTheSilentWrite ==
  ASSUME Audited!AuditAssumption, AuditTypes, Audited!Next
  PROVE  /\ \A d \in data' \ data : d.by \in Silent \ Silent' /\ d.kind \in {"left", "point"}
         /\ Silent' \subseteq Silent
<1>1. ASSUME NEW c \in Calls, CallStep(c)
      PROVE  data' \subseteq data /\ UNCHANGED <<at, ipc>>
  BY <1>1 DEF CallStep, Audited!Look, Audited!Lock, Audited!CountBefore, Audited!DeletePoints,
     Audited!DeleteConversation, Audited!Held,
     Audited!DropRows, Audited!CountRows, Audited!FetchPoints, Audited!Audit,
     Audited!Trace, Audited!Raise, Audited!AuditError, Audited!Release, Audited!RaiseAgain,
     Audited!others
<1>2. CASE OtherStep
  <2> USE DEF AuditTypes, Audited!AuditAssumption, Silent
  <2>1. ASSUME NEW t \in Openers, Audited!Open(t) \/ Audited!Enter(t) \/ Audited!Leave(t)
        PROVE  data' = data /\ Silent' \subseteq Silent
    BY <2>1 DEF Audited!Open, Audited!Enter, Audited!Leave, Audited!Running
  <2>2. ASSUME NEW t \in Openers, Audited!Write(t)
        PROVE  /\ data' \subseteq data \cup {Audited!Item("left", t), Audited!Item("point", t)}
               /\ Silent' \subseteq Silent /\ t \in Silent /\ t \notin Silent'
    BY <2>2 DEF Audited!Write
  <2>3. ASSUME NEW i \in Indexers, Audited!Index(i)
        PROVE  \/ data' = data /\ Silent' \subseteq Silent
               \/ /\ data' = data \cup {Audited!Item("point", i)}
                  /\ Silent' \subseteq Silent /\ i \in Silent /\ i \notin Silent'
    BY <2>3 DEF Audited!Index,
     Audited!Collect, Audited!DropRows
  <2>4. ASSUME NEW g \in Collectors, Audited!Collect(g)
        PROVE  data' \subseteq data /\ Silent' = Silent
    BY <2>4 DEF Audited!Collect, Audited!DropRows
  <2>5. QED
    BY <1>2, <2>1, <2>2, <2>3, <2>4 DEF OtherStep, Audited!Item
<1>3. QED
  BY <1>1, <1>2, StepCases DEF Silent

-----------------------------------------------------------------------------
\* What is gone of what a call owes stays gone.
LEMMA GoneStaysGone ==
  ASSUME Audited!AuditAssumption, AuditTypes, WritersWriteOnce, Audited!Next, NEW u \in Calls,
         NEW d \in owed[u], d \in data'
  PROVE  d \in data
BY OnlyTheSilentWrite DEF WritersWriteOnce

LEMMA WritersWriteOnceHolds ==
  ASSUME Audited!AuditAssumption, AuditTypes, WritersWriteOnce, Audited!Next
  PROVE  WritersWriteOnce'
<1>1. \A d \in data' : d.by \notin Silent'
  BY OnlyTheSilentWrite DEF WritersWriteOnce
<1>2. ASSUME NEW c \in Calls, CallStep(c), NEW u \in Calls
      PROVE  owed'[u] = owed[u] \/ owed'[u] = data
  BY <1>2 DEF CallStep, Audited!Look, Audited!Lock, Audited!CountBefore, Audited!DeletePoints,
     Audited!DeleteConversation, Audited!Held,
     Audited!DropRows, Audited!CountRows, Audited!FetchPoints, Audited!Audit,
     Audited!Trace, Audited!Raise, Audited!AuditError, Audited!Release, Audited!RaiseAgain,
     Audited!others, AuditTypes
<1>3. ASSUME NEW u \in Calls
      PROVE  owed'[u] = owed[u] \/ owed'[u] = data
  BY <1>2, StepCases, OthersKeepApart DEF Unmoved
<1>4. QED
  BY <1>1, <1>3, OnlyTheSilentWrite DEF WritersWriteOnce

LEMMA PromotedKeepsRowHolds ==
  ASSUME Audited!AuditAssumption, AuditTypes, PromotedKeepsRow, Audited!Next
  PROVE  PromotedKeepsRow'
<1>1. ASSUME NEW d \in data', d.kind = "promoted" PROVE d \in data
  BY <1>1, OnlyTheSilentWrite
<1>2. Audited!Rows({"promoted"})' # {} => Audited!Rows({"promoted"}) # {} /\ row
  BY <1>1 DEF Audited!Rows, PromotedKeepsRow
<1>3. ASSUME NEW c \in Calls, CallStep(c)
      PROVE  row' = row \/ Audited!Rows({"promoted"}) = {} \/ ~row
  BY <1>3 DEF CallStep, Audited!Look, Audited!Lock, Audited!CountBefore, Audited!DeletePoints,
     Audited!DeleteConversation, Audited!Held,
     Audited!DropRows, Audited!CountRows, Audited!FetchPoints, Audited!Audit,
     Audited!Trace, Audited!Raise, Audited!AuditError, Audited!Release, Audited!RaiseAgain
<1>4. OtherStep => row' = row \/ Audited!Rows({"promoted"}) = {} \/ ~row
  BY DEF OtherStep, Audited!Open, Audited!Enter, Audited!Write, Audited!Leave, Audited!Index,
     Audited!Collect, Audited!Held, AuditTypes
<1>5. QED
  BY <1>2, <1>3, <1>4, StepCases DEF PromotedKeepsRow

\* Until a call releases the mutex of somebody else, it is set by whoever
\* erases or runs, and freed by nobody else.
LEMMA MutexExcludesHolds ==
  ASSUME Audited!AuditAssumption, AuditTypes, MutexExcludes, \A c \in Calls : HoldsWhile(c),
         Audited!Next
  PROVE  MutexExcludes'
<1> SUFFICES ASSUME ~blind'
             PROVE  /\ \A t \in Openers : Audited!Running(t)' => holder' = t
                    /\ \A c \in Calls : cpc'[c] \in {"before", "points", "row"} => holder' = c
  BY DEF MutexExcludes
<1> USE DEF AuditTypes, Audited!AuditAssumption
<1>1. ASSUME NEW c \in Calls, CallStep(c)
      PROVE  ~blind /\ UNCHANGED at
  BY <1>1 DEF CallStep, Audited!Look, Audited!Lock, Audited!CountBefore, Audited!DeletePoints,
     Audited!DeleteConversation, Audited!Held,
     Audited!DropRows, Audited!CountRows, Audited!FetchPoints, Audited!Audit,
     Audited!Trace, Audited!Raise, Audited!AuditError, Audited!Release, Audited!RaiseAgain,
     Audited!others
<1>2. ASSUME NEW c \in Calls, Audited!Lock(c)
      PROVE  (holder' = holder /\ cpc'[c] = "done") \/ (holder = Nobody /\ holder' = c)
  BY <1>2 DEF Audited!Lock, Audited!MutexFree, Audited!Reply, Audited!Goto
<1>3. ASSUME NEW c \in Calls, Audited!DeleteConversation(c)
      PROVE  (holder' = Nobody /\ cpc'[c] = "sweep") \/ (holder' = holder /\ cpc'[c] = "recount")
  BY <1>3 DEF Audited!DeleteConversation, Audited!Held,
     Audited!DropRows, Audited!Goto
<1>4. ASSUME NEW c \in Calls, Audited!Release(c) PROVE holder \in {c,
   Nobody} /\ holder' = Nobody /\ cpc'[c] = "done"
  BY <1>4 DEF Audited!Release, Audited!Reply
<1>5. ASSUME NEW c \in Calls, CallStep(c), ~Audited!Lock(c), ~Audited!DeleteConversation(c),
   ~Audited!Release(c)
      PROVE  /\ holder' = holder
             /\ cpc'[c] \in {"before", "points", "row"} => cpc[c] \in {"before", "points", "row"}
  BY <1>5 DEF CallStep, Audited!Look, Audited!CountBefore, Audited!DeletePoints,
     Audited!CountRows, Audited!FetchPoints, Audited!Audit, Audited!Trace, Audited!Raise,
     Audited!AuditError, Audited!RaiseAgain, Audited!Goto, Audited!Reply
<1>6. ASSUME NEW c \in Calls, CallStep(c)
      PROVE  /\ \A t \in Openers : Audited!Running(t)' => holder' = t
             /\ \A u \in Calls : cpc'[u] \in {"before", "points", "row"} => holder' = u
  <2>1. \A u \in Calls \ {c} : cpc'[u] = cpc[u]
    BY <1>6, CallsKeepApart DEF Unmoved
  <2>2. \A t \in Openers : Audited!Running(t)' = Audited!Running(t)
    BY <1>1, <1>6 DEF Audited!Running
  <2>3. ~blind /\ (\A t \in Openers : Audited!Running(t) => holder = t)
        /\ (\A u \in Calls : cpc[u] \in {"before", "points", "row"} => holder = u)
    BY <1>1, <1>6 DEF MutexExcludes
  <2>4. CASE Audited!Lock(c)
    BY <1>2, <2>1, <2>2, <2>3, <2>4
  <2>5. CASE Audited!DeleteConversation(c)
    <3>1. holder = c
      BY <2>3, <2>5 DEF Audited!DeleteConversation, Audited!Held,
     Audited!DropRows
    <3>2. QED
      BY <1>3, <2>1, <2>2, <2>3, <2>5, <3>1
  <2>6. CASE Audited!Release(c)
    BY <1>4, <2>1, <2>2, <2>3, <2>6
  <2>7. CASE ~Audited!Lock(c) /\ ~Audited!DeleteConversation(c) /\ ~Audited!Release(c)
    BY <1>5, <1>6, <2>1, <2>2, <2>3, <2>7
  <2>8. QED
    BY <2>4, <2>5, <2>6, <2>7
<1>7. CASE OtherStep
  <2>1. ~blind /\ UNCHANGED cpc
    BY <1>7 DEF OtherStep, Audited!Open, Audited!Enter, Audited!Write, Audited!Leave,
       Audited!Index,
     Audited!Collect, Audited!DropRows
  <2>2. (\A t \in Openers : Audited!Running(t) => holder = t)
        /\ (\A u \in Calls : cpc[u] \in {"before", "points", "row"} => holder = u)
    BY <2>1 DEF MutexExcludes
  <2>3. ASSUME NEW t \in Openers, Audited!Open(t) \/ Audited!Enter(t) \/ Audited!Write(t)
     \/ Audited!Leave(t)
        PROVE  /\ \A u \in Openers : Audited!Running(u)' => holder' = u
               /\ \A u \in Calls : cpc'[u] \in {"before", "points", "row"} => holder' = u
    BY <2>1, <2>2, <2>3 DEF Audited!Open, Audited!Enter, Audited!Write, Audited!Leave,
       Audited!MutexFree, Audited!Running
  <2>4. ASSUME NEW i \in Indexers, Audited!Index(i)
        PROVE  UNCHANGED <<at, holder>>
    BY <2>4 DEF Audited!Index,
     Audited!Collect, Audited!DropRows
  <2>5. ASSUME NEW g \in Collectors, Audited!Collect(g)
        PROVE  UNCHANGED <<at, holder>>
    BY <2>5 DEF Audited!Collect, Audited!DropRows
  <2>6. QED
    BY <1>7, <2>1, <2>2, <2>3, <2>4, <2>5 DEF OtherStep, Audited!Running
<1>8. QED
  BY <1>6, <1>7, StepCases

-----------------------------------------------------------------------------
\* A call whose turn it is not keeps what it has said and done.
LEMMA UnmovedKeeps ==
  ASSUME Audited!AuditAssumption, AuditTypes, WritersWriteOnce, Audited!Next, NEW u \in Calls,
         Unmoved(u), Erasing(u), Accounted(u)
  PROVE  Erasing(u)' /\ Accounted(u)'
<1>1. (owed[u] \cap data)' \subseteq owed[u] \cap data
  BY GoneStaysGone DEF Unmoved
<1>2. Erasing(u)'
  <2>1. /\ Looked(u)' = Looked(u)
        /\ clean'[u] = clean[u] /\ cpc'[u] = cpc[u]
    BY DEF Looked, Unmoved
  <2>2. (cpc[u] = "row" => Remains(u, Audited!Kinds \ {"point"}))'
    BY <1>1, <2>1 DEF Erasing, Remains
  <2>3. (cpc[u] \in {"sweep", "count"} => Remains(u, {"left"}))'
    BY <1>1, <2>1 DEF Erasing, Remains
  <2>4. (Looked(u) => Remains(u, IF clean[u].rows THEN {} ELSE {"left"}))'
    BY <1>1, <2>1 DEF Erasing, Remains
  <2>5. QED
    BY <2>2, <2>3, <2>4 DEF Erasing
<1>3. Accounted(u)'
  BY DEF Accounted, Audited!CleanupOk, Unmoved
<1>4. QED
  BY <1>2, <1>3

\* The call that takes a step: what it has erased,
LEMMA MovedErases ==
  ASSUME Audited!AuditAssumption, AuditTypes, WritersWriteOnce, PromotedKeepsRow,
         NEW c \in Calls, CallStep(c), Erasing(c), Accounted(c)
  PROVE  Erasing(c)'
<1> USE DEF AuditTypes, Erasing, Looked, Remains, Audited!Goto, Audited!Reply
<1>1. \A d \in data : d.kind \in Audited!Kinds
  BY DEF Items
<1>2. CASE Audited!Look(c)
  BY <1>2 DEF Audited!Look
<1>3. CASE Audited!Lock(c)
  <2>1. cpc'[c] \in {"before", "done"} /\ answer'[c] \in {answer[c], "409"} /\ cpc[c] = "lock"
    BY <1>3 DEF Audited!Lock
  <2>2. answer[c] = "none"
    BY <2>1 DEF Accounted
  <2>3. QED
    BY <2>1, <2>2
<1>4. CASE Audited!CountBefore(c)
  BY <1>4 DEF Audited!CountBefore, Accounted
<1>5. CASE Audited!DeletePoints(c)
  BY <1>1, <1>5 DEF Audited!DeletePoints, Audited!Rows, Accounted
<1>6. CASE Audited!DeleteConversation(c)
  <2>1. answer'[c] = "none"
    BY <1>6 DEF Audited!DeleteConversation, Audited!Held,
     Audited!DropRows, Accounted
  <2>2. CASE row /\ Audited!Rows({"promoted"}) # {}
    BY <1>6, <2>1, <2>2 DEF Audited!DeleteConversation, Audited!Held,
     Audited!DropRows
  <2>3. CASE Audited!Rows({"promoted"}) = {}
    <3>1. data' = data \ Audited!Rows({"cascading",
       "cleared"}) /\ owed' = owed /\ cpc'[c] = "sweep"
      BY <1>6, <2>3 DEF Audited!DeleteConversation, Audited!Held,
     Audited!DropRows
    <3>2. \A d \in owed[c] \cap data' : d.kind \in {"left"}
      BY <1>1, <1>6, <2>3, <3>1 DEF Audited!DeleteConversation, Audited!Held,
     Audited!DropRows, Audited!Rows, Audited!Kinds
    <3>3. QED
      BY <2>1, <3>1, <3>2
  <2>4. QED
    BY <2>2, <2>3 DEF PromotedKeepsRow
<1>7. CASE Audited!CountRows(c)
  <2>1. answer'[c] = "none" /\ cpc'[c] \in {"fetch", "refetch"} /\ UNCHANGED <<owed, data>>
    BY <1>7 DEF Audited!CountRows, Accounted
  <2>2. clean'[c].rows => \A d \in data : d.kind # "left"
    BY <1>7 DEF Audited!CountRows, Audited!Rows, Audited!Relational, Audited!Kinds
  <2>3. cpc'[c] = "fetch" => \A d \in owed[c] \cap data : d.kind = "left"
    BY <1>7 DEF Audited!CountRows
  <2>4. cpc'[c] = "fetch" => (Remains(c, IF clean[c].rows THEN {} ELSE {"left"}))'
    BY <2>1, <2>2, <2>3
  <2>5. QED
    BY <2>1, <2>4
<1>8. CASE Audited!FetchPoints(c)
  <2>1. /\ UNCHANGED <<owed, data>> /\ clean'[c].rows = clean[c].rows
        /\ answer'[c] = "none" /\ cpc'[c] \in {"audit", "reaudit"}
        /\ cpc'[c] = "audit" => cpc[c] = "fetch"
    BY <1>8 DEF Audited!FetchPoints, Accounted
  <2>2. QED
    BY <2>1
<1>9. CASE Audited!Audit(c)
  BY <1>9 DEF Audited!Audit, Accounted
<1>10. CASE Audited!Trace(c)
  BY <1>10 DEF Audited!Trace, Accounted
<1>11. CASE Audited!Raise(c) \/ Audited!AuditError(c) \/ Audited!Release(c)
   \/ Audited!RaiseAgain(c)
  <2>1. answer'[c] \in {"none", "500"} /\ cpc'[c] \in {"recount", "release", "done"}
    BY <1>11 DEF Audited!Raise, Audited!AuditError, Audited!Release, Audited!RaiseAgain,
       Accounted
  <2>2. QED
    BY <2>1
<1>12. QED
  BY <1>2, <1>3, <1>4, <1>5, <1>6, <1>7, <1>8, <1>9, <1>10, <1>11 DEF CallStep

\* and what it has audited and answered.
LEMMA MovedAccounts ==
  ASSUME Audited!AuditAssumption, AuditTypes, NEW c \in Calls, CallStep(c), Accounted(c)
  PROVE  Accounted(c)'
<1> USE DEF AuditTypes, Audited!Goto, Audited!Reply
<1>1. answer[c] = "none"
  BY DEF Accounted, CallStep, Audited!Look, Audited!Lock, Audited!CountBefore,
     Audited!DeletePoints, Audited!DeleteConversation, Audited!Held,
     Audited!DropRows, Audited!CountRows, Audited!FetchPoints,
     Audited!Audit, Audited!Trace, Audited!Raise, Audited!AuditError, Audited!Release,
     Audited!RaiseAgain
<1>2. CASE Audited!Look(c)
  BY <1>1, <1>2 DEF Audited!Look, Accounted, AuditsOf
<1>3. CASE Audited!Lock(c)
  BY <1>1, <1>3 DEF Audited!Lock, Accounted, AuditsOf
<1>4. CASE Audited!CountBefore(c)
  BY <1>1, <1>4 DEF Audited!CountBefore, Accounted, AuditsOf
<1>5. CASE Audited!DeletePoints(c)
  BY <1>1, <1>5 DEF Audited!DeletePoints, Accounted, AuditsOf
<1>6. CASE Audited!DeleteConversation(c)
  BY <1>1, <1>6 DEF Audited!DeleteConversation, Audited!Held,
     Audited!DropRows, Accounted, AuditsOf
<1>7. CASE Audited!CountRows(c)
  BY <1>1, <1>7 DEF Audited!CountRows, Accounted, AuditsOf
<1>8. CASE Audited!FetchPoints(c)
  BY <1>1, <1>8 DEF Audited!FetchPoints, Accounted, AuditsOf
<1>9. CASE Audited!Audit(c)
  <2>1. AuditsOf(c)' = {[of |-> c, ok |-> Audited!CleanupOk(c), error |-> FALSE]}
    BY <1>9 DEF Audited!Audit, Accounted, AuditsOf
  <2>2. Audited!CleanupOk(c)' = Audited!CleanupOk(c) /\ answer'[c] = "none" /\ cpc'[c] = "trace"
    BY <1>1, <1>9 DEF Audited!Audit, Audited!CleanupOk
  <2>3. QED
    BY <2>1, <2>2 DEF Accounted
<1>10. CASE Audited!Trace(c)
  <2>1. AuditsOf(c)' = {[of |-> c, ok |-> Audited!CleanupOk(c), error |-> FALSE]}
    BY <1>10 DEF Audited!Trace, Accounted, AuditsOf
  <2>2. /\ Audited!CleanupOk(c)' = Audited!CleanupOk(c) /\ cpc'[c] = "done"
        /\ answer'[c] = IF Audited!CleanupOk(c) THEN "204" ELSE "residue"
    BY <1>10 DEF Audited!Trace, Audited!CleanupOk
  <2>3. QED
    BY <2>1, <2>2 DEF Accounted
<1>11. CASE Audited!Raise(c)
  BY <1>1, <1>11 DEF Audited!Raise, Accounted
<1>12. CASE Audited!AuditError(c)
  <2>1. AuditsOf(c)' # {} /\ answer'[c] = "none" /\ cpc'[c] = "release"
    <3>1. [of |-> c, ok |-> Audited!CleanupOk(c), error |-> TRUE] \in AuditsOf(c)'
      BY <1>12 DEF Audited!AuditError, AuditsOf
    <3>2. answer'[c] = "none" /\ cpc'[c] = "release"
      BY <1>1, <1>12 DEF Audited!AuditError
    <3>3. QED
      BY <3>1, <3>2
  <2>2. QED
    BY <2>1 DEF Accounted
<1>13. CASE Audited!Release(c)
  <2>1. AuditsOf(c)' # {} /\ answer'[c] = "500" /\ cpc'[c] = "done"
    BY <1>13 DEF Audited!Release, Accounted, AuditsOf
  <2>2. QED
    BY <2>1 DEF Accounted
<1>14. CASE Audited!RaiseAgain(c)
  BY <1>1, <1>14 DEF Audited!RaiseAgain, Accounted
<1>15. QED
  BY <1>2, <1>3, <1>4, <1>5, <1>6, <1>7, <1>8, <1>9, <1>10, <1>11, <1>12, <1>13,
     <1>14 DEF CallStep

\* The mutex of a call is given back before it answers, or the release raised.
LEMMA HoldsWhileHolds ==
  ASSUME Audited!AuditAssumption, AuditTypes, Audited!Next, NEW u \in Calls, HoldsWhile(u)
  PROVE  HoldsWhile(u)'
<1> USE DEF AuditTypes, Audited!Goto, Audited!Reply, Audited!AuditAssumption
<1>1. ASSUME NEW c \in Calls, CallStep(c), c # u PROVE HoldsWhile(u)'
  <2>1. Unmoved(u)
    BY <1>1, CallsKeepApart
  <2>2. holder' = u => holder = u
    BY <1>1 DEF CallStep, Audited!Look, Audited!Lock, Audited!CountBefore, Audited!DeletePoints,
       Audited!DeleteConversation, Audited!Held,
     Audited!DropRows, Audited!CountRows, Audited!FetchPoints, Audited!Audit,
       Audited!Trace, Audited!Raise, Audited!AuditError, Audited!Release, Audited!RaiseAgain
  <2>3. QED
    BY <2>1, <2>2 DEF Unmoved, HoldsWhile
<1>2. CASE OtherStep
  <2>1. Unmoved(u)
    BY <1>2, OthersKeepApart
  <2>2. holder' = u => holder = u
    BY <1>2 DEF OtherStep, Audited!Open, Audited!Enter, Audited!Write, Audited!Leave,
       Audited!Index,
     Audited!Collect, Audited!DropRows
  <2>3. QED
    BY <2>1, <2>2 DEF Unmoved, HoldsWhile
<1>3. CASE Audited!Look(u) \/ Audited!Lock(u) \/ Audited!CountBefore(u)
   \/ Audited!DeletePoints(u) \/ Audited!DeleteConversation(u)
  BY <1>3 DEF Audited!Look, Audited!Lock, Audited!CountBefore, Audited!DeletePoints,
     Audited!DeleteConversation, Audited!Held,
     Audited!DropRows, HoldsWhile
<1>4. CASE Audited!CountRows(u) \/ Audited!FetchPoints(u) \/ Audited!Audit(u) \/ Audited!Trace(u)
  BY <1>4 DEF Audited!CountRows, Audited!FetchPoints, Audited!Audit, Audited!Trace, HoldsWhile
<1>5. CASE Audited!Raise(u) \/ Audited!AuditError(u) \/ Audited!Release(u)
   \/ Audited!RaiseAgain(u)
  BY <1>5 DEF Audited!Raise, Audited!AuditError, Audited!Release, Audited!RaiseAgain, HoldsWhile
<1>6. QED
  BY <1>1, <1>2, <1>3, <1>4, <1>5, StepCases DEF CallStep

-----------------------------------------------------------------------------
(***************************************************************************)
(* The invariant is inductive: of a call that moves, of one that does not, *)
(* and of the turns and indexers beside them.                              *)
(***************************************************************************)
THEOREM AuditInductive == Audited!Spec => []AuditInv
<1> USE AuditedAssumption
<1>1. Audited!Init => AuditInv
  BY AuditBegins
<1>2. AuditInv /\ Audited!Next => AuditInv'
  <2> SUFFICES ASSUME AuditInv, Audited!Next PROVE AuditInv'
    OBVIOUS
  <2> USE DEF AuditInv
  <2>1. AuditTypes' /\ WritersWriteOnce' /\ PromotedKeepsRow' /\ MutexExcludes'
    BY CallKeepsTypes, OtherTypes, StepCases, WritersWriteOnceHolds, PromotedKeepsRowHolds,
       MutexExcludesHolds
  <2>2. ASSUME NEW u \in Calls PROVE Erasing(u)' /\ Accounted(u)' /\ HoldsWhile(u)'
    <3>1. HoldsWhile(u)'
      BY HoldsWhileHolds
    <3>2. CASE Unmoved(u)
      BY <3>1, <3>2, UnmovedKeeps
    <3>3. CASE CallStep(u)
      BY <3>1, <3>3, MovedErases, MovedAccounts
    <3>4. QED
      BY <3>2, <3>3, StepCases, CallsKeepApart, OthersKeepApart
  <2>3. QED
    BY <2>1, <2>2
<1>3. AuditInv /\ UNCHANGED Audited!vars => AuditInv'
  <2> SUFFICES ASSUME AuditInv, UNCHANGED Audited!vars PROVE AuditInv'
    OBVIOUS
  <2>1. AuditTypes' /\ WritersWriteOnce' /\ PromotedKeepsRow' /\ MutexExcludes'
    BY DEF Audited!vars, AuditInv, AuditTypes, WritersWriteOnce, Silent, PromotedKeepsRow,
       Audited!Rows, MutexExcludes, Audited!Running
  <2>2. \A c \in Calls : (Erasing(c) /\ Accounted(c) /\ HoldsWhile(c))'
    BY DEF Audited!vars, AuditInv, Erasing, Looked, Remains, Accounted, AuditsOf,
       Audited!CleanupOk, HoldsWhile
  <2>3. QED
    BY <2>1, <2>2 DEF AuditInv
<1>4. QED
  BY <1>1, <1>2, <1>3, PTL DEF Audited!Spec

(***************************************************************************)
(* Whatever calls, turns, indexers and gc workers run beside each other,   *)
(* however often a database raises: a call that answers 204 has erased     *)
(* what was stored when it took the mutex, and its audit says so; one that *)
(* found a residue has not said otherwise; a call that has ended left an   *)
(* audit and not the mutex; and turns exclude each other until the mutex   *)
(* of one is freed by somebody else (_delete_conversation_sync_audited).   *)
(***************************************************************************)
THEOREM DeleteAccounts == Audited!Spec => []DeleteIsAccountable
<1> USE AuditedAssumption
<1>1. AuditInv => DeleteIsAccountable
  <2> SUFFICES ASSUME AuditInv PROVE DeleteIsAccountable
    OBVIOUS
  <2> USE DEF AuditInv
  <2>1. ASSUME NEW c \in Calls, answer[c] = "204"
        PROVE  owed[c] \cap data = {} /\ [of |-> c, ok |-> TRUE, error |-> FALSE] \in audits
    <3>1. Audited!CleanupOk(c) /\ AuditsOf(c) = {[of |-> c, ok |-> Audited!CleanupOk(c),
       error |-> FALSE]}
      BY <2>1 DEF Accounted
    <3>2. Audited!CleanupOk(c) = TRUE
      BY <3>1 DEF Audited!CleanupOk, AuditTypes
    <3>3. [of |-> c, ok |-> TRUE, error |-> FALSE] \in audits
      BY <3>1, <3>2 DEF AuditsOf
    <3>4. \A d \in owed[c] \cap data : d.kind \in {}
      BY <2>1, <3>1 DEF Erasing, Looked, Remains, Audited!CleanupOk
    <3>5. QED
      BY <3>3, <3>4
  <2>2. ASSUME NEW c \in Calls, answer[c] = "residue", NEW a \in audits, a.of = c
        PROVE  ~a.ok
    <3>1. ~Audited!CleanupOk(c) /\ AuditsOf(c) = {[of |-> c, ok |-> Audited!CleanupOk(c),
       error |-> FALSE]}
      BY <2>2 DEF Accounted
    <3>2. a = [of |-> c, ok |-> Audited!CleanupOk(c), error |-> FALSE]
      BY <2>2, <3>1 DEF AuditsOf
    <3>3. QED
      BY <3>1, <3>2
  <2>3. Audited!CallsAreClosed
    BY DEF Audited!CallsAreClosed, Accounted, AuditsOf, HoldsWhile
  <2>4. Audited!TurnsApart
    BY DEF Audited!TurnsApart, MutexExcludes
  <2>5. QED
    BY <2>1, <2>2, <2>3, <2>4 DEF DeleteIsAccountable, Audited!DeleteIsAccountable,
       Audited!SuccessIsTrue
<1>2. QED
  BY <1>1, AuditInductive, PTL

(***************************************************************************)
(* Deletions adds nothing to its two modules: whatever is proved of        *)
(* HardDelete and of AuditedDelete holds of what the runs check.           *)
(***************************************************************************)
THEOREM BothDelete == BothSpec => Spec /\ Audited!Spec
<1>1. BothInit => Init /\ Audited!Init
  BY DEF BothInit
<1>2. [BothNext]_<<vars, auditVars>> => [Next]_vars /\ [Audited!Next]_(Audited!vars)
  BY DEF BothNext, auditVars, Audited!vars
<1>3. QED
  BY <1>1, <1>2, PTL DEF BothSpec, Spec, Audited!Spec
=============================================================================
