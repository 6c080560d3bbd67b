----------------------------- MODULE VectorPlane -----------------------------
(***************************************************************************)
(* Rows in Postgres, points in Qdrant, and the vector events that tell the *)
(* rest of the system about them.  Writers make points: the handlers of    *)
(* the semantic consumer, the promotion of global items, and the mirror    *)
(* that leases ephemeral points for the items of a turn.  Some save a row  *)
(* first, vector_state and all: the builder of summaries, which makes no   *)
(* point, and the promotion.  Maintenance runs take points away: thinning, *)
(* ephemeral expiry, and reconciliation, which also repairs what the       *)
(* others left.  No transaction spans the two stores and no handler locks  *)
(* anything: what agrees, agrees because of the order of the calls.  The   *)
(* rows of a restored handoff are not items here: they are written after   *)
(* their points, and no event announces them.                              *)
(***************************************************************************)
EXTENDS Naturals, FiniteSets

CONSTANTS
  Items,      \* rows that may have a point
  KindOf,     \* the kind of each item, and so its collection
  Pinned,     \* items whose row has is_pinned
  Cited,      \* items whose row has was_cited
  Writers,    \* handled events and mirrored turns
  Saves,      \* the items each writer saves the row of, before any point
  Writes,     \* the items each writer upserts
  Jobs,       \* maintenance runs
  Task,       \* "THINNING", "EPHEMERAL_EXPIRY" or "RECONCILE"
  Subject,    \* "conv" or "*": the partition key of the run's event
  MaxRuns,    \* bound: runs that are begun
  MaxFaults   \* bound: crashes and raised calls

\* The kinds, by the stage in which a reconciliation comes to them, and the
\* place of each in the order in which collections are visited.
LocalKinds == {"chunk", "local_citem", "local_summary"}
EphemeralKinds == {"ephemeral"}
GlobalKinds == {"global_citem", "global_summary"}
AllKinds == LocalKinds \cup EphemeralKinds \cup GlobalKinds
Place ==
  [chunk |-> 1, local_citem |-> 2, local_summary |-> 3, ephemeral |-> 4,
   global_citem |-> 5, global_summary |-> 6]

ASSUME KindAssumption == KindOf \in [Items -> AllKinds]
ASSUME JobAssumption ==
  /\ Task \in [Jobs -> {"THINNING", "EPHEMERAL_EXPIRY", "RECONCILE"}]
  /\ Subject \in [Jobs -> {"conv", "*"}]
ASSUME BoundAssumption == MaxRuns \in Nat /\ MaxFaults \in Nat

OfKind(k) == {i \in Items : KindOf[i] = k}
OfKinds(kinds) == {i \in Items : KindOf[i] \in kinds}
Ephemeral == OfKind("ephemeral")

\* Of the rows that are saved before a point, only those of local summaries
\* are saved by a handler that makes none.
ASSUME WriterAssumption ==
  /\ Writes \in [Writers -> SUBSET Items]
  /\ Saves \in [Writers -> SUBSET Items]
  /\ \A w \in Writers : Saves[w] \subseteq OfKind("local_summary") \cup (Writes[w] \cap OfKinds(GlobalKinds))

RowStates == {"NONE", "INDEXED", "THINNED", "ACTIVE", "EXPIRED", "PURGED"}

VARIABLES
  row,        \* vector_state of a row, lifecycle_state of a lease
  points,     \* items with a point
  said,       \* the last vector event about each item
  wpc,        \* where each writer stands
  wtodo,      \* the items it has still to write
  wtell,      \* the item it has written and not announced
  held,       \* the states of the rows it is about to save, as it has read them
  run,        \* maintenance_run.status
  jpc,        \* where each run stands
  reads,      \* the kinds whose rows it reads next
  visits,     \* the kinds whose collections it works on next
  stages,     \* the kinds of the later stages of a reconciliation
  seen,       \* items chosen from the rows as it has read them
  jtodo,      \* the items its current loop has still to go through
  missing,    \* of the collection at hand: live rows without a point
  jtell,      \* the item it has changed and not announced
  faults,
  raced,      \* of each item: whether a writer and a run have met on it, or a row
              \* has changed that a builder is about to save
  quiet       \* of each run: the items no writer has touched since it, or any run
              \* that is still at them, began

plane == <<row, points, said>>
writing == <<wpc, wtodo, wtell, held>>
reading == <<reads, visits, stages, seen>>
working == <<run, jpc, reading, jtodo, missing, jtell>>
ghosts == <<raced, quiet>>
vars == <<plane, writing, working, faults, ghosts>>

\* What a reader of the row takes to have a point.
Live(i) == row[i] \in {"INDEXED", "ACTIVE", "EXPIRED"}

Started(pc) == pc \notin {"none", "requested", "sent", "done", "dead"}
Active(j) == Started(jpc[j])
Working(j) == Active(j) /\ jpc[j] # "close"

Touches(w) == Saves[w] \cup Writes[w]
AtWork(w) == wpc[w] \in {"look", "saved", "write"}
Writing(i) == \E w \in Writers : AtWork(w) /\ i \in Touches(w)

\* The builder has read the state of a summary's row, and will save it.
Holding(w, i) == wpc[w] = "look" /\ i \in Saves[w] /\ KindOf[i] = "local_summary"

\* The collections a run goes through.  Those without an item of the instance
\* take no step.
Kinds == [j \in Jobs |->
  {k \in (CASE Task[j] = "THINNING" -> LocalKinds
            [] Task[j] = "EPHEMERAL_EXPIRY" -> EphemeralKinds
            [] Subject[j] = "conv" -> LocalKinds \cup EphemeralKinds
            [] OTHER -> AllKinds) : OfKind(k) # {}}]
Scope == [j \in Jobs |-> OfKinds(Kinds[j])]

\* The stage of a set of kinds that comes first: its rows are read together.
Stage(kinds) ==
  IF kinds \cap LocalKinds # {} THEN kinds \cap LocalKinds
  ELSE IF kinds \cap EphemeralKinds # {} THEN kinds \cap EphemeralKinds ELSE kinds

\* Of some kinds the first, and the items of the first kind.
First(kinds) == {k \in kinds : \A o \in kinds : Place[k] <= Place[o]}
FirstOf(S) == {i \in S : \A k \in S : Place[KindOf[i]] <= Place[KindOf[k]]}

TypeOK ==
  /\ row \in [Items -> RowStates]
  /\ points \subseteq Items
  /\ said \in [Items -> {"NONE", "UPSERTED", "DELETED"}]
  /\ wpc \in [Writers -> {"idle", "look", "saved", "write", "done", "dead"}]
  /\ wtodo \in [Writers -> SUBSET Items]
  /\ wtell \in [Writers -> SUBSET Items]
  /\ held \in [Writers -> [Items -> RowStates]]
  /\ run \in [Jobs -> {"none", "REQUESTED", "RUNNING", "SUCCEEDED", "FAILED"}]
  /\ jpc \in [Jobs -> {"none", "requested", "sent", "rows", "expire", "erase",
                       "list", "report", "mark", "succeed", "close", "done", "dead"}]
  /\ reads \in [Jobs -> SUBSET AllKinds]
  /\ visits \in [Jobs -> SUBSET AllKinds]
  /\ stages \in [Jobs -> SUBSET AllKinds]
  /\ seen \in [Jobs -> SUBSET Items]
  /\ jtodo \in [Jobs -> SUBSET Items]
  /\ missing \in [Jobs -> SUBSET Items]
  /\ jtell \in [Jobs -> SUBSET Items]
  /\ faults \in 0..MaxFaults
  /\ raced \in [Items -> {"never", "repaired", "raced"}]
  /\ quiet \in [Jobs -> SUBSET Items]

\* What a writer holds that has read no row.
Nothing == [i \in Items |-> "NONE"]

Init ==
  /\ row = [i \in Items |-> "NONE"]
  /\ points = {}
  /\ said = [i \in Items |-> "NONE"]
  /\ wpc = [w \in Writers |-> "idle"]
  /\ wtodo = [w \in Writers |-> {}]
  /\ wtell = [w \in Writers |-> {}]
  /\ held = [w \in Writers |-> Nothing]
  /\ run = [j \in Jobs |-> "none"]
  /\ jpc = [j \in Jobs |-> "none"]
  /\ reads = [j \in Jobs |-> {}]
  /\ visits = [j \in Jobs |-> {}]
  /\ stages = [j \in Jobs |-> {}]
  /\ seen = [j \in Jobs |-> {}]
  /\ jtodo = [j \in Jobs |-> {}]
  /\ missing = [j \in Jobs |-> {}]
  /\ jtell = [j \in Jobs |-> {}]
  /\ faults = 0
  /\ raced = [i \in Items |-> "never"]
  /\ quiet = [j \in Jobs |-> {}]

-----------------------------------------------------------------------------
(***************************************************************************)
(* Bookkeeping of the properties: what a writer works on while a run goes  *)
(* over it is raced, and not quiet for that run; so is an item whose row   *)
(* has changed under a builder.                                            *)
(***************************************************************************)
Suspect(S) ==
  /\ raced' = [i \in Items |-> IF i \in S THEN "raced" ELSE raced[i]]
  /\ quiet' = [j \in Jobs |-> quiet[j] \ S]

Meet ==
  Suspect({i \in Items :
             \/ /\ \E j \in Jobs : Active(j) /\ i \in Scope[j]
                /\ \E w \in Writers : i \in Touches(w) /\ (AtWork(w) \/ AtWork(w)')
             \/ row'[i] # row[i] /\ \E w \in Writers : Holding(w, i) /\ Holding(w, i)'})

\* What a run that stops half way may have left undone is suspect.
Abort(j) ==
  LET left == IF jpc[j] \in {"requested", "close"} THEN {} ELSE Scope[j] IN
  /\ raced' = [i \in Items |-> IF i \in left THEN "raced" ELSE raced[i]]
  /\ quiet' = [o \in Jobs |-> IF o = j THEN {} ELSE quiet[o] \ left]

Fault == faults < MaxFaults /\ faults' = faults + 1

-----------------------------------------------------------------------------
(***************************************************************************)
(* Writers.  A builder, or a promotion, looks for the row it is to save,   *)
(* builds the item and saves it.  A handler of the semantic consumer reads *)
(* its rows and embeds their texts; the mirror looks at the conversation   *)
(* and prepares its items.  All but the builder then upsert their points   *)
(* in one call and go through the items: the row, the event, the next row. *)
(***************************************************************************)
Look(w) ==
  /\ wpc[w] = "idle"
  /\ Saves[w] # {}
  /\ held' = [held EXCEPT ![w] = [i \in Items |-> IF i \in Saves[w] THEN row[i] ELSE "NONE"]]
  /\ wpc' = [wpc EXCEPT ![w] = "look"]
  /\ UNCHANGED <<plane, wtodo, wtell, working, faults>>
  /\ Meet

\* The state a row is saved with: that of a local summary as it was read, that
\* of a global summary NONE, and a global C-item is saved if there was none.
Saved(w, i) ==
  CASE KindOf[i] = "local_summary" -> held[w][i]
    [] KindOf[i] = "global_citem" /\ held[w][i] # "NONE" -> row[i]
    [] OTHER -> "NONE"

SaveRow(w) ==
  /\ wpc[w] = "look"
  /\ row' = [i \in Items |-> IF i \in Saves[w] THEN Saved(w, i) ELSE row[i]]
  /\ held' = [held EXCEPT ![w] = Nothing]
  /\ wpc' = [wpc EXCEPT ![w] = IF Writes[w] = {} THEN "done" ELSE "saved"]
  /\ UNCHANGED <<points, said, wtodo, wtell, working, faults>>
  /\ Meet

UpsertPoints(w) ==
  /\ wpc[w] = IF Saves[w] = {} THEN "idle" ELSE "saved"
  /\ points' = points \cup Writes[w]
  /\ wpc' = [wpc EXCEPT ![w] = "write"]
  /\ wtodo' = [wtodo EXCEPT ![w] = Writes[w]]
  /\ UNCHANGED <<row, said, wtell, held, working, faults>>
  /\ Meet

\* The row of the next item, in its new state.
WriteRow(w, i, rows) ==
  /\ wpc[w] = "write"
  /\ wtell[w] = {}
  /\ i \in wtodo[w]
  /\ row' = rows
  /\ wtell' = [wtell EXCEPT ![w] = {i}]
  /\ UNCHANGED <<points, said, wpc, wtodo, held, working, faults>>
  /\ Meet

\* update_*_vector_state: INDEXED, whatever the row says by now.
IndexRow(w, i) ==
  /\ i \notin Ephemeral
  /\ WriteRow(w, i, [row EXCEPT ![i] = "INDEXED"])

\* save_ephemeral_vector_record: a lease in any state is ACTIVE again, with a
\* new time to live.
SaveLease(i) == [row EXCEPT ![i] = "ACTIVE"]

RegisterLease(w, i) ==
  /\ i \in Ephemeral
  /\ WriteRow(w, i, SaveLease(i))

\* VECTOR_UPSERTED, in a transaction of its own.  After the last one the ledger
\* is completed, or the mirror returns.
TellUpserted(w, i) ==
  /\ wpc[w] = "write"
  /\ i \in wtell[w]
  /\ said' = [said EXCEPT ![i] = "UPSERTED"]
  /\ wtell' = [wtell EXCEPT ![w] = {}]
  /\ wtodo' = [wtodo EXCEPT ![w] = @ \ {i}]
  /\ wpc' = [wpc EXCEPT ![w] = IF wtodo[w] = {i} THEN "done" ELSE "write"]
  /\ UNCHANGED <<row, points, held, working, faults>>
  /\ Meet

\* A crash or a raised call: the ledger skips the redelivery.
WriterFails(w) ==
  /\ AtWork(w)
  /\ Fault
  /\ wpc' = [wpc EXCEPT ![w] = "dead"]
  /\ wtodo' = [wtodo EXCEPT ![w] = {}]
  /\ wtell' = [wtell EXCEPT ![w] = {}]
  /\ held' = [held EXCEPT ![w] = Nothing]
  /\ UNCHANGED <<plane, working>>
  /\ Suspect(Touches(w))

-----------------------------------------------------------------------------
(***************************************************************************)
(* Scheduling and taking a run.  The row and the event are two             *)
(* transactions.  Runs of one key are in one partition, handled in turn.   *)
(***************************************************************************)
BeginRun(j) ==
  /\ jpc[j] = "none"
  /\ Cardinality({o \in Jobs : jpc[o] # "none"}) < MaxRuns
  /\ jpc' = [jpc EXCEPT ![j] = "requested"]
  /\ run' = [run EXCEPT ![j] = "REQUESTED"]
  /\ UNCHANGED <<plane, writing, reading, jtodo, missing, jtell, faults, ghosts>>

AppendRun(j) ==
  /\ jpc[j] = "requested"
  /\ jpc' = [jpc EXCEPT ![j] = "sent"]
  /\ UNCHANGED <<plane, writing, run, reading, jtodo, missing, jtell, faults, ghosts>>

\* What follows the last row: a thinning erases points, an expiry marks its
\* leases EXPIRED before it does, a reconciliation lists the first collection.
AfterRows(j) ==
  CASE Task[j] = "THINNING" -> "erase"
    [] Task[j] = "EPHEMERAL_EXPIRY" -> "expire"
    [] OTHER -> "list"

\* The ledger lets the event in, the run is marked RUNNING, and the handler of
\* its task starts with the first stage.
TakeRun(j) ==
  /\ jpc[j] = "sent"
  /\ \A other \in Jobs : Subject[other] = Subject[j] => ~Active(other)
  /\ run' = [run EXCEPT ![j] = "RUNNING"]
  /\ jpc' = [jpc EXCEPT ![j] = IF Kinds[j] = {} THEN AfterRows(j) ELSE "rows"]
  /\ reads' = [reads EXCEPT ![j] = Stage(Kinds[j])]
  /\ visits' = [visits EXCEPT ![j] = Stage(Kinds[j])]
  /\ stages' = [stages EXCEPT ![j] = Kinds[j] \ Stage(Kinds[j])]
  /\ quiet' = [quiet EXCEPT ![j] =
                 {i \in Scope[j] :
                    /\ ~Writing(i)
                    /\ \A other \in Jobs : Working(other) /\ i \in Scope[other] => i \in quiet[other]}]
  /\ raced' = [i \in Items |-> IF Writing(i) /\ i \in Scope[j] THEN "raced" ELSE raced[i]]
  /\ UNCHANGED <<plane, writing, seen, jtodo, missing, jtell, faults>>

\* _thinning_candidate but for the age.  Chunk rows have no pin.
Candidate(i) ==
  /\ row[i] = "INDEXED"
  /\ i \notin Pinned \/ KindOf[i] = "chunk"
  /\ i \notin Cited

\* Mutant: a reconciliation takes only INDEXED rows for owners of points.
SelectionsIndexed(j, kinds) ==
  CASE Task[j] = "THINNING" -> SUBSET {i \in OfKinds(kinds) : Candidate(i)}
    [] Task[j] = "EPHEMERAL_EXPIRY" ->
         {{i \in OfKinds(kinds) : row[i] = "EXPIRED"} \cup due :
            due \in SUBSET {i \in OfKinds(kinds) : row[i] = "ACTIVE"}}
    [] OTHER -> {{i \in OfKinds(kinds) : row[i] = "INDEXED"}}
\* The rows of a kind a run may choose: for a thinning the candidates that are
\* old enough, for an expiry the leases that are EXPIRED or due, for a
\* reconciliation all that are live.  Which are old or due is the clock's
\* choice.
Selections(j, kinds) ==
  CASE Task[j] = "THINNING" -> SUBSET {i \in OfKinds(kinds) : Candidate(i)}
    [] Task[j] = "EPHEMERAL_EXPIRY" ->
         {{i \in OfKinds(kinds) : row[i] = "EXPIRED"} \cup due :
            due \in SUBSET {i \in OfKinds(kinds) : row[i] = "ACTIVE"}}
    [] OTHER -> {{i \in OfKinds(kinds) : Live(i)}}

\* One SELECT for each kind of the stage.
ReadRows(j) ==
  /\ jpc[j] = "rows"
  /\ reads[j] # {}
  /\ \E chosen \in Selections(j, First(reads[j])) :
       /\ seen' = [seen EXCEPT ![j] = @ \cup chosen]
       /\ jtodo' = [jtodo EXCEPT ![j] = IF Task[j] = "EPHEMERAL_EXPIRY"
                                        THEN {i \in chosen : row[i] = "ACTIVE"} ELSE {}]
  /\ reads' = [reads EXCEPT ![j] = @ \ First(@)]
  /\ jpc' = [jpc EXCEPT ![j] = IF reads'[j] = {} THEN AfterRows(j) ELSE "rows"]
  /\ UNCHANGED <<plane, writing, run, visits, stages, missing, jtell, faults, ghosts>>

\* The loop of the step at hand has gone through its items.
LoopDone(j) == jtodo[j] = {} /\ jtell[j] = {}

-----------------------------------------------------------------------------
(***************************************************************************)
(* Thinning and expiry: points first, then the row and the event of each.  *)
(***************************************************************************)
MarkExpired(j, i) ==
  /\ jpc[j] = "expire"
  /\ i \in jtodo[j]
  /\ row' = [row EXCEPT ![i] = IF @ = "ACTIVE" THEN "EXPIRED" ELSE @]
  /\ jtodo' = [jtodo EXCEPT ![j] = @ \ {i}]
  /\ UNCHANGED <<points, said, writing, run, jpc, reading, missing, jtell, faults, ghosts>>

ExpiredAll(j) ==
  /\ jpc[j] = "expire"
  /\ LoopDone(j)
  /\ jpc' = [jpc EXCEPT ![j] = "erase"]
  /\ UNCHANGED <<plane, writing, run, reading, jtodo, missing, jtell, faults, ghosts>>

\* delete_point_ids: one call for each collection.
EraseChosen(j) ==
  /\ jpc[j] = "erase"
  /\ Task[j] # "RECONCILE"
  /\ visits[j] # {}
  /\ points' = points \ (seen[j] \cap OfKinds(First(visits[j])))
  /\ visits' = [visits EXCEPT ![j] = @ \ First(@)]
  /\ UNCHANGED <<row, said, writing, run, jpc, reads, stages, seen, jtodo, missing, jtell>>
  /\ UNCHANGED <<faults, ghosts>>

\* Mutant: the loop over the rows is left out.
ErasedNoMark(j) ==
  /\ jpc[j] = "erase"
  /\ Task[j] # "RECONCILE"
  /\ visits[j] = {}
  /\ jpc' = [jpc EXCEPT ![j] = "succeed"]
  /\ UNCHANGED <<plane, writing, run, reading, jtodo, missing, jtell, faults, ghosts>>
ErasedAll(j) ==
  /\ jpc[j] = "erase"
  /\ Task[j] # "RECONCILE"
  /\ visits[j] = {}
  /\ jpc' = [jpc EXCEPT ![j] = "mark"]
  /\ jtodo' = [jtodo EXCEPT ![j] = seen[j]]
  /\ UNCHANGED <<plane, writing, run, reading, missing, jtell, faults, ghosts>>

\* The row after its point has gone: THINNED whatever it says by now, a lease
\* PURGED unless it is so already.
Gone(i) ==
  IF KindOf[i] # "ephemeral" THEN "THINNED"
  ELSE IF row[i] \in {"ACTIVE", "EXPIRED"} THEN "PURGED" ELSE row[i]

\* The loops go through one kind after the other.
MarkGone(j, i) ==
  /\ jpc[j] = "mark"
  /\ jtell[j] = {}
  /\ i \in FirstOf(jtodo[j])
  /\ row' = [row EXCEPT ![i] = Gone(i)]
  /\ jtell' = [jtell EXCEPT ![j] = {i}]
  /\ UNCHANGED <<points, said, writing, run, jpc, reading, jtodo, missing, faults, ghosts>>

\* VECTOR_DELETED.  The orphans of a reconciliation have had no row to change.
TellDeleted(j, i) ==
  /\ \/ jpc[j] = "mark" /\ i \in jtell[j]
     \/ jpc[j] = "report" /\ i \in jtodo[j]
  /\ said' = [said EXCEPT ![i] = "DELETED"]
  /\ jtell' = [jtell EXCEPT ![j] = {}]
  /\ jtodo' = [jtodo EXCEPT ![j] = @ \ {i}]
  /\ UNCHANGED <<row, points, writing, run, jpc, reading, missing, faults, ghosts>>

-----------------------------------------------------------------------------
(***************************************************************************)
(* Reconciliation: the points of a collection against the rows read before *)
(* them.  A point without a live row goes, a live row without a point is   *)
(* marked.  Then the next collection of the stage, or the next stage.      *)
(***************************************************************************)
ListPoints(j) ==
  LET at == OfKinds(First(visits[j])) IN
  /\ jpc[j] = "list"
  /\ visits[j] # {}
  /\ jtodo' = [jtodo EXCEPT ![j] = (points \cap at) \ seen[j]]
  /\ missing' = [missing EXCEPT ![j] = (seen[j] \cap at) \ points]
  /\ jpc' = [jpc EXCEPT ![j] = "erase"]
  /\ UNCHANGED <<plane, writing, run, reading, jtell, faults, ghosts>>

EraseOrphans(j) ==
  /\ jpc[j] = "erase"
  /\ Task[j] = "RECONCILE"
  /\ points' = points \ jtodo[j]
  /\ jpc' = [jpc EXCEPT ![j] = "report"]
  /\ UNCHANGED <<row, said, writing, run, reading, jtodo, missing, jtell, faults, ghosts>>

OrphansReported(j) ==
  /\ jpc[j] = "report"
  /\ LoopDone(j)
  /\ jpc' = [jpc EXCEPT ![j] = "mark"]
  /\ jtodo' = [jtodo EXCEPT ![j] = missing[j]]
  /\ missing' = [missing EXCEPT ![j] = {}]
  /\ UNCHANGED <<plane, writing, run, reading, jtell, faults, ghosts>>

NextCollection(j) ==
  /\ jpc[j] = "mark"
  /\ LoopDone(j)
  /\ Task[j] = "RECONCILE"
  /\ visits' = [visits EXCEPT ![j] = @ \ First(@)]
  /\ jpc' = [jpc EXCEPT ![j] = "list"]
  /\ UNCHANGED <<plane, writing, run, reads, stages, seen, jtodo, missing, jtell, faults, ghosts>>

NextStage(j) ==
  /\ jpc[j] = "list"
  /\ visits[j] = {}
  /\ stages[j] # {}
  /\ reads' = [reads EXCEPT ![j] = Stage(stages[j])]
  /\ visits' = [visits EXCEPT ![j] = Stage(stages[j])]
  /\ stages' = [stages EXCEPT ![j] = @ \ Stage(@)]
  /\ jpc' = [jpc EXCEPT ![j] = "rows"]
  /\ UNCHANGED <<plane, writing, run, seen, jtodo, missing, jtell, faults, ghosts>>

AllDone(j) ==
  /\ \/ jpc[j] = "list" /\ visits[j] = {} /\ stages[j] = {}
     \/ jpc[j] = "mark" /\ LoopDone(j) /\ Task[j] # "RECONCILE"
  /\ jpc' = [jpc EXCEPT ![j] = "succeed"]
  /\ UNCHANGED <<plane, writing, run, reading, jtodo, missing, jtell, faults, ghosts>>

\* mark_maintenance_run_completed.  What a reconciliation has gone over in
\* peace counts as repaired.
Succeed(j) ==
  /\ jpc[j] = "succeed"
  /\ run' = [run EXCEPT ![j] = "SUCCEEDED"]
  /\ jpc' = [jpc EXCEPT ![j] = "close"]
  /\ raced' = [i \in Items |-> IF Task[j] = "RECONCILE" /\ i \in quiet[j] /\ raced[i] = "raced"
                               THEN "repaired" ELSE raced[i]]
  /\ seen' = [seen EXCEPT ![j] = {}]
  /\ UNCHANGED <<plane, writing, reads, visits, stages, jtodo, missing, jtell, faults, quiet>>

\* The ledger is completed.
CloseRun(j) ==
  /\ jpc[j] = "close"
  /\ jpc' = [jpc EXCEPT ![j] = "done"]
  /\ quiet' = [quiet EXCEPT ![j] = {}]
  /\ UNCHANGED <<plane, writing, run, reading, jtodo, missing, jtell, faults, raced>>

\* What a handler held in its frame goes with it.
Drop(j) ==
  /\ jpc' = [jpc EXCEPT ![j] = "dead"]
  /\ reads' = [reads EXCEPT ![j] = {}]
  /\ visits' = [visits EXCEPT ![j] = {}]
  /\ stages' = [stages EXCEPT ![j] = {}]
  /\ seen' = [seen EXCEPT ![j] = {}]
  /\ jtodo' = [jtodo EXCEPT ![j] = {}]
  /\ missing' = [missing EXCEPT ![j] = {}]
  /\ jtell' = [jtell EXCEPT ![j] = {}]

\* A call raises: the run is marked FAILED, SUCCEEDED or not.
RunRaises(j) ==
  /\ Active(j)
  /\ Fault
  /\ run' = [run EXCEPT ![j] = "FAILED"]
  /\ Drop(j)
  /\ Abort(j)
  /\ UNCHANGED <<plane, writing>>

\* The worker dies, or the scheduler before it has appended the event.
RunCrashes(j) ==
  /\ Active(j) \/ jpc[j] = "requested"
  /\ Fault
  /\ Drop(j)
  /\ Abort(j)
  /\ UNCHANGED <<plane, writing, run>>

-----------------------------------------------------------------------------
WriterSteps(w) ==
  \/ Look(w) \/ SaveRow(w) \/ UpsertPoints(w)
  \/ \E i \in Items : IndexRow(w, i) \/ RegisterLease(w, i) \/ TellUpserted(w, i)

RunSteps(j) ==
  \/ AppendRun(j) \/ TakeRun(j) \/ ReadRows(j)
  \/ ExpiredAll(j) \/ EraseChosen(j) \/ ErasedAll(j)
  \/ ListPoints(j) \/ EraseOrphans(j) \/ OrphansReported(j)
  \/ NextCollection(j) \/ NextStage(j) \/ AllDone(j) \/ Succeed(j) \/ CloseRun(j)
  \/ \E i \in Items : MarkExpired(j, i) \/ MarkGone(j, i) \/ TellDeleted(j, i)

Next ==
  \/ \E w \in Writers : WriterSteps(w) \/ WriterFails(w)
  \/ \E j \in Jobs : BeginRun(j) \/ RunSteps(j) \/ RunRaises(j) \/ RunCrashes(j)

Spec == Init /\ [][Next]_vars

-----------------------------------------------------------------------------
AtRest(i) ==
  /\ ~Writing(i)
  /\ \A j \in Jobs : Working(j) => i \notin Scope[j]

(***************************************************************************)
(* An item on which no writer and no run have met, whose row has not       *)
(* changed between a builder's reading it and its saving it, and on which  *)
(* nothing has failed, is in order whenever nobody works on it: it has a   *)
(* point exactly when its row is live, and exactly when the last event     *)
(* says so.  The order point, row, event of the writers and point, row,    *)
(* event of the runs would not give this without the choice of rows each   *)
(* of them makes.  What is excused does happen: a builder that has read    *)
(* NONE while the semantic consumer indexes the summary sets the row of an *)
(* indexed summary back to NONE, beside its point.                         *)
(***************************************************************************)
StoresAgree ==
  /\ TypeOK
  /\ \A i \in Items : AtRest(i) /\ raced[i] = "never" =>
       /\ i \in points <=> Live(i)
       /\ i \in points <=> said[i] = "UPSERTED"

(***************************************************************************)
(* Whatever the races and failures before: an item that a reconciliation   *)
(* has gone over while no writer touched it has a point exactly when its   *)
(* row is live, until a writer and a run meet on it again, a call fails,   *)
(* or a builder saves a state the row had before.  And no reconciliation   *)
(* takes the point of a live row, whatever other runs do beside it, unless *)
(* a writer works on the item meanwhile.  It reads the rows before the     *)
(* points: what it takes for an orphan must be one still.                  *)
(***************************************************************************)
Repaired ==
  \A i \in Items : AtRest(i) /\ raced[i] = "repaired" => (i \in points <=> Live(i))

ReconcileIsRight ==
  [][/\ Repaired'
     /\ \A j \in Jobs, i \in Items :
          EraseOrphans(j) /\ i \in quiet[j] \cap (points \ points') => ~Live(i)]_vars
=============================================================================
