----------------------------- MODULE HardDelete -----------------------------
(***************************************************************************)
(* The hard delete of one conversation in the full runtime: the DELETE     *)
(* route that schedules it, the gc workers that carry it out, and the two  *)
(* kinds of writer it races with, chat turns and semantic consumers; and   *)
(* the other route that deletes the same row, /cima/v1, which asks for the *)
(* mutex alone (AuditedDelete has what it counts and audits).              *)
(*                                                                         *)
(* The route takes the turn mutex, marks the row DELETING together with a  *)
(* delete_run, appends the request event, and frees the mutex.  A worker   *)
(* that gets the event deletes the vectors, then the row and with it every *)
(* table that cascades.  A client may open the same id again afterwards,   *)
(* and an event may still be pending whose row the other route removed.    *)
(***************************************************************************)
EXTENDS Naturals, FiniteSets

CONSTANTS
  Requests,     \* DELETE calls; each brings a delete_run_id of its own
  Turns,        \* chat turns
  Handlers,     \* chunk.created events in the hands of a semantic consumer
  Workers,      \* gc workers
  Erasers,      \* DELETE calls at /cima/v1, which delete in the request itself
  NoRun,        \* no delete run
  MaxFaults,    \* bound: crashes and raised calls in a behaviour
  MaxGen        \* bound: times the conversation row is inserted

ASSUME RequestAssumption == IsFiniteSet(Requests) /\ NoRun \notin Requests
ASSUME BoundAssumption == MaxFaults \in Nat /\ MaxGen \in Nat \ {0}

VARIABLES
  conv,       \* conversations.status, "GONE" when there is no row
  deleter,    \* conversations.delete_run_id
  gen,        \* times the row has been inserted
  mutex,      \* task_memory.turn_in_progress, FALSE when there is no row
  chunk,      \* the row of each handler's chunk, "GONE" when there is none
  points,     \* handlers whose chunk has a point in Qdrant
  runs,       \* status of each delete_run row, "none" when there is none
  events,     \* runs whose request event is in the outbox or in Kafka
  ledger,     \* consumer_effect row of each run's event
  geometry,   \* runs whose geometry purge command is in the outbox
  announced,  \* runs whose completed event is in the outbox
  rpc,        \* where each DELETE call stands
  tpc,        \* where each turn stands
  hpc,        \* where each handler stands
  wpc,        \* where each worker stands
  job,        \* the run a worker carries out
  epc,        \* where each call at /cima/v1 stands
  overtaken,  \* runs whose DELETING row somebody else has removed
  faults      \* crashes and raised calls so far

database == <<conv, deleter, gen, mutex, chunk>>
async == <<runs, events, ledger, geometry, announced>>
control == <<rpc, tpc, hpc, wpc, job>>
erasing == <<epc, overtaken>>

vars == <<database, points, async, control, erasing, faults>>

\* Worker steps at which the conversation has not been deleted yet.
PurgeSteps == {"geometry", "points", "row"}

TypeOK ==
  /\ conv \in {"ACTIVE", "DELETING", "GONE"}
  /\ deleter \in Requests \cup {NoRun}
  /\ gen \in 1..MaxGen
  /\ mutex \in BOOLEAN
  /\ chunk \in [Handlers -> {"THERE", "GONE"}]
  /\ points \subseteq Handlers
  /\ runs \in [Requests -> {"none", "REQUESTED", "SUCCEEDED", "FAILED"}]
  /\ events \subseteq Requests
  /\ ledger \in [Requests -> {"none", "STARTED", "SUCCEEDED"}]
  /\ geometry \subseteq Requests
  /\ announced \subseteq Requests
  /\ rpc \in [Requests -> {"idle", "locked", "accepted", "release", "done"}]
  /\ tpc \in [Turns -> {"idle", "created", "checked", "running", "left", "done"}]
  /\ hpc \in [Handlers -> {"idle", "save", "upsert", "done"}]
  /\ wpc \in [Workers -> {"idle", "load", "mark", "announce", "complete", "raised"}
                           \cup PurgeSteps]
  /\ job \in [Workers -> Requests \cup {NoRun}]
  /\ epc \in [Erasers -> {"idle", "row", "after", "release", "done"}]
  /\ overtaken \subseteq Requests
  /\ faults \in 0..MaxFaults

Init ==
  /\ conv = "ACTIVE"
  /\ deleter = NoRun
  /\ gen = 1
  /\ mutex = FALSE
  /\ chunk = [h \in Handlers |-> "THERE"]
  /\ points = {}
  /\ runs = [r \in Requests |-> "none"]
  /\ events = {}
  /\ ledger = [r \in Requests |-> "none"]
  /\ geometry = {}
  /\ announced = {}
  /\ rpc = [r \in Requests |-> "idle"]
  /\ tpc = [t \in Turns |-> "idle"]
  /\ hpc = [h \in Handlers |-> "idle"]
  /\ wpc = [w \in Workers |-> "idle"]
  /\ job = [w \in Workers |-> NoRun]
  /\ epc = [e \in Erasers |-> "idle"]
  /\ overtaken = {}
  /\ faults = 0

Fault == faults < MaxFaults /\ faults' = faults + 1

\* try_set_turn_in_progress: there is a row, and it says FALSE.  Mutant: the
\* old value is not tested.
RowExists == conv # "GONE"
MutexFree == RowExists /\ ~mutex

-----------------------------------------------------------------------------
(***************************************************************************)
(* DELETE /conversations/{id}: 404 or 409 unless the mutex can be taken.   *)
(***************************************************************************)
LockForDelete(r) ==
  /\ rpc[r] = "idle"
  /\ mutex' = (mutex \/ MutexFree)
  /\ rpc' = [rpc EXCEPT ![r] = IF MutexFree THEN "locked" ELSE "done"]
  /\ UNCHANGED <<conv, deleter, gen, chunk, points, async, tpc, hpc, wpc, job, faults, erasing>>

\* begin_hard_delete's WHERE clause.  Mutant: RowExists, without the test of
\* the status.
Deletable == conv = "ACTIVE"

\* begin_hard_delete: one transaction for the row and the delete_run.
BeginHardDelete(r) ==
  /\ rpc[r] = "locked"
  /\ Deletable
  /\ conv' = "DELETING"
  /\ deleter' = r
  /\ runs' = [runs EXCEPT ![r] = "REQUESTED"]
  /\ rpc' = [rpc EXCEPT ![r] = "accepted"]
  /\ UNCHANGED <<gen, mutex, chunk, points, events, ledger, geometry, announced>>
  /\ UNCHANGED <<tpc, hpc, wpc, job, faults, erasing>>

\* Not accepted: the route goes on to free the mutex.
HardDeleteRefused(r) ==
  /\ rpc[r] = "locked"
  /\ ~Deletable
  /\ rpc' = [rpc EXCEPT ![r] = "release"]
  /\ UNCHANGED <<database, points, async, tpc, hpc, wpc, job, faults, erasing>>

\* The request event, in a transaction of its own.  Mutant: it is lost.
RequestedLost(r) ==
  /\ rpc[r] = "accepted"
  /\ rpc' = [rpc EXCEPT ![r] = "release"]
  /\ UNCHANGED <<database, points, async, tpc, hpc, wpc, job, faults, erasing>>
AppendRequested(r) ==
  /\ rpc[r] = "accepted"
  /\ events' = events \cup {r}
  /\ rpc' = [rpc EXCEPT ![r] = "release"]
  /\ UNCHANGED <<database, points, runs, ledger, geometry, announced>>
  /\ UNCHANGED <<tpc, hpc, wpc, job, faults, erasing>>

\* release_turn_in_progress, and the 202 answer.
ReleaseAfterDelete(r) ==
  /\ rpc[r] = "release"
  /\ mutex' = FALSE
  /\ rpc' = [rpc EXCEPT ![r] = "done"]
  /\ UNCHANGED <<conv, deleter, gen, chunk, points, async, tpc, hpc, wpc, job, faults, erasing>>

\* A call raises, or the process ends: nothing in the route frees the mutex.
AbandonRequest(r) ==
  /\ rpc[r] \in {"locked", "accepted", "release"}
  /\ Fault
  /\ rpc' = [rpc EXCEPT ![r] = "done"]
  /\ UNCHANGED <<database, points, async, tpc, hpc, wpc, job, erasing>>

-----------------------------------------------------------------------------
\* The OpenAI route upserts the conversation and its task_memory row.
CreateConversation(t) ==
  /\ tpc[t] = "idle"
  /\ conv = "GONE" => gen < MaxGen
  /\ conv' = IF conv = "GONE" THEN "ACTIVE" ELSE conv
  /\ gen' = IF conv = "GONE" THEN gen + 1 ELSE gen
  /\ deleter' = IF conv = "GONE" THEN NoRun ELSE deleter
  /\ tpc' = [tpc EXCEPT ![t] = "created"]
  /\ UNCHANGED <<mutex, chunk, points, async, rpc, hpc, wpc, job, faults, erasing>>

\* ensure_active_conversation: 404 or 409 unless the row is ACTIVE.  On the
\* native route it is the first thing a turn does.
EnsureActive(t) ==
  /\ tpc[t] \in {"idle", "created"}
  /\ tpc' = [tpc EXCEPT ![t] = IF conv = "ACTIVE" THEN "checked" ELSE "done"]
  /\ UNCHANGED <<database, points, async, rpc, hpc, wpc, job, faults, erasing>>

\* try_set_turn_in_progress, after the uploads were read; 409 when it fails.
LockForTurn(t) ==
  /\ tpc[t] = "checked"
  /\ mutex' = (mutex \/ MutexFree)
  /\ tpc' = [tpc EXCEPT ![t] = IF MutexFree THEN "running" ELSE "done"]
  /\ UNCHANGED <<conv, deleter, gen, chunk, points, async, rpc, hpc, wpc, job, faults, erasing>>

\* handle_turn's last save of task_memory, or release_turn_in_progress.
\* Mutant: a failed save is only logged.
FinishTurnLogged(t) ==
  /\ tpc[t] = "running"
  /\ tpc' = [tpc EXCEPT ![t] = "done"]
  /\ UNCHANGED <<database, points, async, rpc, hpc, wpc, job, faults, erasing>>
FinishTurn(t) ==
  /\ tpc[t] = "running"
  /\ mutex' = FALSE
  /\ tpc' = [tpc EXCEPT ![t] = "done"]
  /\ UNCHANGED <<conv, deleter, gen, chunk, points, async, rpc, hpc, wpc, job, faults, erasing>>

\* handle_turn asks for a file that the message speaks of and did not bring,
\* and returns: the mutex stays.
NeedsAttachment(t) ==
  /\ tpc[t] = "running"
  /\ tpc' = [tpc EXCEPT ![t] = "left"]
  /\ UNCHANGED <<database, points, async, rpc, hpc, wpc, job, faults, erasing>>

\* The API process ends in the middle of a turn.
AbandonTurn(t) ==
  /\ tpc[t] = "running"
  /\ Fault
  /\ tpc' = [tpc EXCEPT ![t] = "done"]
  /\ UNCHANGED <<database, points, async, rpc, hpc, wpc, job, erasing>>

-----------------------------------------------------------------------------
(***************************************************************************)
(* A semantic consumer on a chunk.created event whose ledger row it has    *)
(* just inserted: complete_if_conversation_not_active, read once.          *)
(***************************************************************************)
GuardHandler(h) ==
  /\ hpc[h] = "idle"
  /\ hpc' = [hpc EXCEPT ![h] = IF conv = "ACTIVE" THEN "save" ELSE "done"]
  /\ UNCHANGED <<database, points, async, rpc, tpc, wpc, job, faults, erasing>>

\* The EDU rows refer to the chunk: without it the handler ends, or raises.
SaveEdus(h) ==
  /\ hpc[h] = "save"
  /\ hpc' = [hpc EXCEPT ![h] = IF chunk[h] = "GONE" THEN "done" ELSE "upsert"]
  /\ UNCHANGED <<database, points, async, rpc, tpc, wpc, job, faults, erasing>>

\* upsert_points, after the embedding call.  The vector_state that follows is
\* VectorPlane's subject.
UpsertPoint(h) ==
  /\ hpc[h] = "upsert"
  /\ points' = points \cup {h}
  /\ hpc' = [hpc EXCEPT ![h] = "done"]
  /\ UNCHANGED <<database, async, rpc, tpc, wpc, job, faults, erasing>>

-----------------------------------------------------------------------------
\* The ledger lets the event in.  Mutant: a STARTED row is taken up again.
FreshOrStarted(r) == ledger[r] # "SUCCEEDED"
Fresh(r) == ledger[r] = "none"

(***************************************************************************)
(* A worker is handed the event, perhaps not for the first time, and       *)
(* begins it; when the ledger has its row already nothing happens.         *)
(***************************************************************************)
BeginEffect(w, r) ==
  /\ wpc[w] = "idle"
  /\ r \in events
  /\ Fresh(r)
  /\ ledger' = [ledger EXCEPT ![r] = "STARTED"]
  /\ job' = [job EXCEPT ![w] = r]
  /\ wpc' = [wpc EXCEPT ![w] = "load"]
  /\ UNCHANGED <<database, points, runs, events, geometry, announced>>
  /\ UNCHANGED <<rpc, tpc, hpc, faults, erasing>>

\* get_conversation: without a row there is nothing to purge.
LoadConversation(w) ==
  /\ wpc[w] = "load"
  /\ wpc' = [wpc EXCEPT ![w] = IF conv = "GONE" THEN "mark" ELSE "geometry"]
  /\ UNCHANGED <<database, points, async, rpc, tpc, hpc, job, faults, erasing>>

\* The purge command for the geometry service, appended to the outbox.
RequestGeometryPurge(w) ==
  /\ wpc[w] = "geometry"
  /\ geometry' = geometry \cup {job[w]}
  /\ wpc' = [wpc EXCEPT ![w] = "points"]
  /\ UNCHANGED <<database, points, runs, events, ledger, announced>>
  /\ UNCHANGED <<rpc, tpc, hpc, job, faults, erasing>>

\* delete_by_conversation: the filter deletes what Qdrant holds just now.
\* Mutant: the run is recorded as completed before the row is deleted.
DeleteMarks(w) ==
  /\ wpc[w] = "points"
  /\ points' = {}
  /\ runs' = [runs EXCEPT ![job[w]] = "SUCCEEDED"]
  /\ wpc' = [wpc EXCEPT ![w] = "row"]
  /\ UNCHANGED <<database, events, ledger, geometry, announced, rpc, tpc, hpc, job, faults, erasing>>
DeletePoints(w) ==
  /\ wpc[w] = "points"
  /\ points' = {}
  /\ wpc' = [wpc EXCEPT ![w] = "row"]
  /\ UNCHANGED <<database, async, rpc, tpc, hpc, job, faults, erasing>>

\* delete_conversation: the row goes, and every row that refers to it.  Whose
\* run it names is not asked.
DropRow ==
  /\ conv' = "GONE"
  /\ deleter' = NoRun
  /\ mutex' = FALSE
  /\ chunk' = [h \in Handlers |-> "GONE"]

\* Mutant: the row is kept, with the status the column's CHECK still allows.
SoftDelete(w) ==
  /\ wpc[w] = "row"
  /\ conv' = "DELETED"
  /\ wpc' = [wpc EXCEPT ![w] = "mark"]
  /\ UNCHANGED <<deleter, gen, mutex, chunk, points, async, rpc, tpc, hpc, job, faults, erasing>>
DeleteConversation(w) ==
  /\ wpc[w] = "row"
  /\ DropRow
  /\ overtaken' = overtaken \cup ({deleter} \ {job[w], NoRun})
  /\ wpc' = [wpc EXCEPT ![w] = "mark"]
  /\ UNCHANGED <<gen, points, async, rpc, tpc, hpc, job, epc, faults>>

MarkCompleted(w) ==
  /\ wpc[w] = "mark"
  /\ runs' = [runs EXCEPT ![job[w]] = "SUCCEEDED"]
  /\ wpc' = [wpc EXCEPT ![w] = "announce"]
  /\ UNCHANGED <<database, points, events, ledger, geometry, announced>>
  /\ UNCHANGED <<rpc, tpc, hpc, job, faults, erasing>>

AppendCompleted(w) ==
  /\ wpc[w] = "announce"
  /\ announced' = announced \cup {job[w]}
  /\ wpc' = [wpc EXCEPT ![w] = "complete"]
  /\ UNCHANGED <<database, points, runs, events, ledger, geometry>>
  /\ UNCHANGED <<rpc, tpc, hpc, job, faults, erasing>>

CompleteEffect(w) ==
  /\ wpc[w] = "complete"
  /\ ledger' = [ledger EXCEPT ![job[w]] = "SUCCEEDED"]
  /\ wpc' = [wpc EXCEPT ![w] = "idle"]
  /\ job' = [job EXCEPT ![w] = NoRun]
  /\ UNCHANGED <<database, points, runs, events, geometry, announced>>
  /\ UNCHANGED <<rpc, tpc, hpc, faults, erasing>>

\* Any call of the handler raises, to its except clause.
HandlerRaises(w) ==
  /\ wpc[w] \notin {"idle", "raised"}
  /\ Fault
  /\ wpc' = [wpc EXCEPT ![w] = "raised"]
  /\ UNCHANGED <<database, points, async, rpc, tpc, hpc, job, erasing>>

\* mark_hard_delete_failed; the worker ends, and another takes its place.
MarkFailed(w) ==
  /\ wpc[w] = "raised"
  /\ runs' = [runs EXCEPT ![job[w]] = "FAILED"]
  /\ wpc' = [wpc EXCEPT ![w] = "idle"]
  /\ job' = [job EXCEPT ![w] = NoRun]
  /\ UNCHANGED <<database, points, events, ledger, geometry, announced>>
  /\ UNCHANGED <<rpc, tpc, hpc, faults, erasing>>

\* The worker process ends and is started again.
CrashWorker(w) ==
  /\ wpc[w] # "idle"
  /\ Fault
  /\ wpc' = [wpc EXCEPT ![w] = "idle"]
  /\ job' = [job EXCEPT ![w] = NoRun]
  /\ UNCHANGED <<database, points, async, rpc, tpc, hpc, erasing>>

-----------------------------------------------------------------------------
(***************************************************************************)
(* DELETE /cima/v1/conversations/{id}: the status is not looked at.  Its   *)
(* points are those of the local collection; the chunks' stay.             *)
(***************************************************************************)
LockForErasure(e) ==
  /\ epc[e] = "idle"
  /\ mutex' = (mutex \/ MutexFree)
  /\ epc' = [epc EXCEPT ![e] = IF MutexFree THEN "row" ELSE "done"]
  /\ UNCHANGED <<conv, deleter, gen, chunk, points, async, control, overtaken, faults>>

EraseRow(e) ==
  /\ epc[e] = "row"
  /\ DropRow
  /\ overtaken' = overtaken \cup ({deleter} \ {NoRun})
  /\ epc' = [epc EXCEPT ![e] = "after"]
  /\ UNCHANGED <<gen, points, async, control, faults>>

\* The second sweep and the audit, then the answer.
AnswerErasure(e) ==
  /\ epc[e] = "after"
  /\ epc' = [epc EXCEPT ![e] = "done"]
  /\ UNCHANGED <<database, points, async, control, overtaken, faults>>

\* A call within its try block raises; then the mutex is released, whoever
\* holds it by now.
ErasureRaises(e) ==
  /\ epc[e] \in {"row", "after"}
  /\ Fault
  /\ epc' = [epc EXCEPT ![e] = "release"]
  /\ UNCHANGED <<database, points, async, control, overtaken>>
ReleaseAfterErasure(e) ==
  /\ epc[e] = "release"
  /\ mutex' = FALSE
  /\ epc' = [epc EXCEPT ![e] = "done"]
  /\ UNCHANGED <<conv, deleter, gen, chunk, points, async, control, overtaken, faults>>

\* A call outside the try block raises, or the process ends.
AbandonErasure(e) ==
  /\ epc[e] \in {"row", "after", "release"}
  /\ Fault
  /\ epc' = [epc EXCEPT ![e] = "done"]
  /\ UNCHANGED <<database, points, async, control, overtaken>>

-----------------------------------------------------------------------------
\* What each process does of its own accord once it has begun.
RequestStep(r) ==
  \/ LockForDelete(r)
  \/ BeginHardDelete(r)
  \/ HardDeleteRefused(r)
  \/ AppendRequested(r)
  \/ ReleaseAfterDelete(r)

TurnStep(t) ==
  \/ CreateConversation(t)
  \/ EnsureActive(t)
  \/ LockForTurn(t)
  \/ FinishTurn(t)
  \/ NeedsAttachment(t)

HandlerStep(h) ==
  \/ GuardHandler(h)
  \/ SaveEdus(h)
  \/ UpsertPoint(h)

WorkerStep(w) ==
  \/ \E r \in Requests : BeginEffect(w, r)
  \/ LoadConversation(w)
  \/ RequestGeometryPurge(w)
  \/ DeletePoints(w)
  \/ DeleteConversation(w)
  \/ MarkCompleted(w)
  \/ AppendCompleted(w)
  \/ CompleteEffect(w)
  \/ MarkFailed(w)

EraserStep(e) ==
  \/ LockForErasure(e)
  \/ EraseRow(e)
  \/ AnswerErasure(e)
  \/ ReleaseAfterErasure(e)

Next ==
  \/ \E r \in Requests : RequestStep(r) \/ AbandonRequest(r)
  \/ \E t \in Turns : TurnStep(t) \/ AbandonTurn(t)
  \/ \E h \in Handlers : HandlerStep(h)
  \/ \E w \in Workers : WorkerStep(w) \/ HandlerRaises(w) \/ CrashWorker(w)
  \/ \E e \in Erasers : EraserStep(e) \/ ErasureRaises(e) \/ AbandonErasure(e)

Spec == Init /\ [][Next]_vars

(***************************************************************************)
(* A call or a turn that holds the mutex goes on, and a worker handles     *)
(* what the outbox delivers.  Nobody owes a call, a turn, or a fault.  No  *)
(* process goes on for ever, so fairness to all of them together is as     *)
(* much as fairness to each.                                               *)
(***************************************************************************)
Progress ==
  \/ \E r \in Requests : rpc[r] # "idle" /\ RequestStep(r)
  \/ \E t \in Turns : FinishTurn(t)
  \/ \E w \in Workers : WorkerStep(w)
  \/ \E e \in Erasers : epc[e] # "idle" /\ EraserStep(e)

FairSpec == Spec /\ WF_vars(Progress)

-----------------------------------------------------------------------------
(***************************************************************************)
(* A worker that still has something to delete works for the run the row   *)
(* names, unless somebody else has removed that run's row; and no two      *)
(* workers purge for one run: no late, repeated or second delivery purges. *)
(***************************************************************************)
Purging(w) == wpc[w] \in PurgeSteps \cup {"load"}
Owned(r) == (conv = "DELETING" /\ deleter = r) \/ r \in overtaken

PurgersOwnTheRow ==
  /\ \A w \in Workers : Purging(w) => Owned(job[w])
  /\ \A v, w \in Workers : Purging(v) /\ Purging(w) /\ job[v] = job[w] => v = w

(***************************************************************************)
(* A run that is recorded as SUCCEEDED, or announced as completed, has no  *)
(* row left and has told the geometry service, unless somebody else had    *)
(* removed its row before.                                                 *)
(***************************************************************************)
CompletionIsTrue ==
  \A r \in Requests :
    runs[r] = "SUCCEEDED" \/ r \in announced =>
      deleter # r /\ r \in geometry \cup overtaken

(***************************************************************************)
(* However many DELETE calls race, each life of the conversation accepts   *)
(* at most one delete run.                                                 *)
(***************************************************************************)
OneRunPerLife == Cardinality({r \in Requests : runs[r] # "none"}) <= gen

(***************************************************************************)
(* Nothing an ACTIVE conversation holds is deleted: a delete that is late  *)
(* or repeated does not touch the conversation opened under the same id.   *)
(* But for a call at /cima/v1, which may delete it, and for the worker of  *)
(* a run whose row somebody else has removed: it looks at neither status   *)
(* nor run, and purges what is there.                                      *)
(***************************************************************************)
Unheeding ==
  \/ \E e \in Erasers : epc[e] = "row" /\ epc'[e] = "after"
  \/ \E w \in Workers : Purging(w) /\ job[w] \in overtaken /\ wpc'[w] # wpc[w]

ActiveIsUntouched ==
  [][conv = "ACTIVE" /\ ~Unheeding =>
       /\ conv' # "GONE"
       /\ points \subseteq points'
       /\ \A h \in Handlers : chunk'[h] = "GONE" => chunk[h] = "GONE"]_vars

(***************************************************************************)
(* No conversation stays DELETING: its row is deleted, by the run it names *)
(* or by somebody else, unless a fault occurs.  (Only finitely many calls  *)
(* can make it DELETING again, so that it ends when each of them ends.)    *)
(***************************************************************************)
DeletionCompletes == <>[](conv = "DELETING" => faults > 0)

(***************************************************************************)
(* Whoever takes the turn mutex frees it: later turns are not refused for  *)
(* ever; unless a fault occurs, or a turn has returned to ask for a file.  *)
(***************************************************************************)
MutexIsFreed == <>[](mutex => faults > 0 \/ \E t \in Turns : tpc[t] = "left")

(***************************************************************************)
(* lifecycle_guard.py: "Late events must not resurrect work for            *)
(* conversations already entering DELETING or DELETED states": once the    *)
(* delete run has succeeded, no vector of the conversation is left.        *)
(***************************************************************************)
NothingResurrected ==
  conv = "GONE" /\ (\E r \in Requests : runs[r] = "SUCCEEDED") => points = {}

=============================================================================
