------------------------- MODULE VectorPlane_proofs -------------------------
(***************************************************************************)
(* StoresAgree and ReconcileIsRight hold of any number of writers and runs *)
(* on any items, two writers of one lease included.  The argument is about *)
(* one item at a time.  While no writer is at it (it is quiet for every    *)
(* run that goes over it) points and live rows of it only disappear, so    *)
(* what a run has read stays good enough: a chosen item whose point is     *)
(* still there is still live, what has been erased stays away, an orphan   *)
(* stays one.  A row that is ahead of its point is owed by some run, and   *)
(* runs pay before they succeed.                                           *)
(***************************************************************************)
EXTENDS VectorPlane, TLAPS

-----------------------------------------------------------------------------
(* The shape of the state: leases have the states of leases, writers and    *)
(* runs hold only what is theirs, and nothing before or after their work.   *)

LeaseStates == {"NONE", "ACTIVE", "EXPIRED", "PURGED"}
Leases == \A i \in Items : KindOf[i] = "ephemeral" => row[i] \in LeaseStates

WriterFrame(w) ==
  /\ wtell[w] \subseteq wtodo[w]
  /\ wtodo[w] \subseteq Writes[w]
  /\ wpc[w] # "write" => wtodo[w] = {}

Unread(j) == jpc[j] \in {"none", "requested", "sent"}

RunFrame(j) ==
  /\ seen[j] \subseteq Scope[j]
  /\ jtodo[j] \subseteq Scope[j]
  /\ missing[j] \subseteq Scope[j]
  /\ jtell[j] \subseteq jtodo[j]
  /\ jpc[j] # "mark" => jtell[j] = {}
  /\ Unread(j) => seen[j] = {} /\ jtodo[j] = {} /\ missing[j] = {}

KindFrame(j) ==
  /\ visits[j] \cup stages[j] \subseteq Kinds[j]
  /\ reads[j] \subseteq visits[j]
  /\ jpc[j] # "rows" => reads[j] = {}
  /\ jpc[j] = "expire" => Task[j] # "RECONCILE"
  /\ jpc[j] \in {"list", "report"} => Task[j] = "RECONCILE"
  /\ jpc[j] = "succeed" /\ Task[j] = "RECONCILE" => visits[j] = {} /\ stages[j] = {}

QuietFrame(j) ==
  /\ quiet[j] \subseteq Scope[j]
  /\ ~Active(j) => quiet[j] = {}

Shape ==
  /\ TypeOK
  /\ Leases
  /\ \A w \in Writers : WriterFrame(w)
  /\ \A j \in Jobs : RunFrame(j) /\ KindFrame(j) /\ QuietFrame(j)

-----------------------------------------------------------------------------
(* The operators of the model.                                              *)

\* A run's kinds are kinds, and its scope the items of these kinds.
LEMMA ScopeFacts ==
  /\ Kinds \in [Jobs -> SUBSET AllKinds]
  /\ Scope \in [Jobs -> SUBSET Items]
  /\ \A j \in Jobs, i \in Items : i \in Scope[j] <=> KindOf[i] \in Kinds[j]
<1>1. Kinds \in [Jobs -> SUBSET AllKinds]
  BY DEF Kinds, AllKinds
<1>2. QED
  BY <1>1 DEF Scope, OfKinds

\* What comes first of some kinds is among them.
LEMMA FirstFacts ==
  /\ \A kinds : Stage(kinds) \subseteq kinds /\ First(kinds) \subseteq kinds
  /\ \A S : FirstOf(S) \subseteq S
BY DEF Stage, First, FirstOf

\* A run chooses among the rows of the kinds it reads, and live ones only; a
\* reconciliation chooses all of them that are live.
LEMMA SelectionFacts ==
  ASSUME NEW j \in Jobs, NEW kinds, NEW chosen \in Selections(j, kinds)
  PROVE  /\ chosen \subseteq {i \in Items : KindOf[i] \in kinds /\ Live(i)}
         /\ Task[j] = "RECONCILE" => \A i \in Items : KindOf[i] \in kinds /\ Live(i) => i \in chosen
<1>1. CASE Task[j] = "THINNING"
  BY <1>1 DEF Selections, OfKinds, Candidate, Live
<1>2. CASE Task[j] = "EPHEMERAL_EXPIRY"
  BY <1>2 DEF Selections, OfKinds, Live
<1>3. CASE Task[j] = "RECONCILE"
  BY <1>3 DEF Selections, OfKinds, Live
<1>4. QED
  BY <1>1, <1>2, <1>3, JobAssumption

\* The step that follows the rows, by task.
LEMMA AfterRowsFacts ==
  ASSUME NEW j \in Jobs
  PROVE  /\ AfterRows(j) \in {"erase", "expire", "list"}
         /\ AfterRows(j) = "list" <=> Task[j] = "RECONCILE"
         /\ AfterRows(j) = "erase" => Task[j] # "RECONCILE"
BY JobAssumption DEF AfterRows

\* What a race makes of the bookkeeping is of its types, and leaves the frames.
LEMMA SuspectFacts ==
  ASSUME NEW S, TypeOK, Suspect(S)
  PROVE  /\ raced' \in [Items -> {"never", "repaired", "raced"}]
         /\ quiet' \in [Jobs -> SUBSET Items]
         /\ \A j \in Jobs : quiet'[j] = quiet[j] \ S
         /\ \A i \in Items : raced'[i] = IF i \in S THEN "raced" ELSE raced[i]
BY DEF Suspect, TypeOK

\* And so is what a failed run makes of it.
LEMMA AbortFacts ==
  ASSUME NEW j \in Jobs, TypeOK, Abort(j)
  PROVE  /\ raced' \in [Items -> {"never", "repaired", "raced"}]
         /\ quiet' \in [Jobs -> SUBSET Items]
         /\ quiet'[j] = {}
         /\ \A o \in Jobs : quiet'[o] \subseteq quiet[o]
BY DEF Abort, TypeOK

LEMMA InitShape == Init => Shape
<1> SUFFICES ASSUME Init PROVE Shape
  OBVIOUS
<1>1. TypeOK
  BY BoundAssumption DEF Init, TypeOK, Nothing, RowStates
<1>2. Leases
  BY DEF Init, Leases, LeaseStates
<1>3. ASSUME NEW w \in Writers PROVE WriterFrame(w)
  BY DEF Init, WriterFrame
<1>4. ASSUME NEW j \in Jobs PROVE RunFrame(j) /\ KindFrame(j) /\ QuietFrame(j)
  BY DEF Init, RunFrame, KindFrame, QuietFrame, Unread
<1>5. QED
  BY <1>1, <1>2, <1>3, <1>4 DEF Shape

\* The steps of the writers keep the shape.
LEMMA WritersKeepShape ==
  ASSUME Shape, NEW w \in Writers, WriterSteps(w) \/ WriterFails(w)
  PROVE  Shape'
<1>1. TypeOK
  BY DEF Shape
<1>2. PICK S : Suspect(S)
  BY DEF WriterSteps, Look, SaveRow, UpsertPoints, IndexRow, RegisterLease, WriteRow, TellUpserted, WriterFails, Meet
<1>3. UNCHANGED working
  BY DEF WriterSteps, Look, SaveRow, UpsertPoints, IndexRow, RegisterLease, WriteRow, TellUpserted, WriterFails
<1>4. ASSUME NEW j \in Jobs PROVE RunFrame(j)' /\ KindFrame(j)' /\ QuietFrame(j)'
  <2>1. RunFrame(j)' /\ KindFrame(j)'
    BY <1>3 DEF Shape, RunFrame, KindFrame, Unread, working, reading
  <2>2. QuietFrame(j)'
    BY <1>1, <1>2, <1>3, SuspectFacts DEF Shape, QuietFrame, Active, Started, working
  <2>3. QED
    BY <2>1, <2>2
<1>10. CASE Look(w)
  <2>1. held' \in [Writers -> [Items -> RowStates]]
    BY <1>1, <1>10 DEF TypeOK, Look, RowStates
  <2>2. TypeOK'
    BY <1>1, <1>2, <1>10, <2>1, SuspectFacts DEF TypeOK, Look, plane, working, reading
  <2>3. Leases' /\ \A v \in Writers : WriterFrame(v)'
    BY <1>1, <1>10 DEF TypeOK, Shape, Look, Leases, WriterFrame, plane
  <2>4. QED
    BY <1>4, <2>2, <2>3 DEF Shape
<1>11. CASE SaveRow(w)
  <2>1. \A i \in Saves[w] : Saved(w, i) \in RowStates /\ KindOf[i] # "ephemeral"
    BY <1>1, WriterAssumption DEF TypeOK, Saved, RowStates, OfKind, OfKinds, GlobalKinds
  <2>2. row' \in [Items -> RowStates] /\ \A i \in Items : KindOf[i] = "ephemeral" => row'[i] = row[i]
    BY <1>1, <1>11, <2>1 DEF TypeOK, SaveRow
  <2>3. held' \in [Writers -> [Items -> RowStates]]
    BY <1>1, <1>11 DEF TypeOK, SaveRow, Nothing, RowStates
  <2>4. TypeOK'
    BY <1>1, <1>2, <1>11, <2>2, <2>3, SuspectFacts DEF TypeOK, SaveRow, working, reading
  <2>5. Leases' /\ \A v \in Writers : WriterFrame(v)'
    BY <1>1, <1>11, <2>2 DEF TypeOK, Shape, SaveRow, Leases, WriterFrame
  <2>6. QED
    BY <1>4, <2>4, <2>5 DEF Shape
<1>5. CASE UpsertPoints(w)
  <2>1. TypeOK'
    BY <1>1, <1>2, <1>5, SuspectFacts, WriterAssumption DEF TypeOK, UpsertPoints, working, reading
  <2>2. Leases' /\ \A v \in Writers : WriterFrame(v)'
    BY <1>1, <1>5, WriterAssumption DEF TypeOK, Shape, UpsertPoints, Leases, WriterFrame
  <2>3. QED
    BY <1>4, <2>1, <2>2 DEF Shape
<1>6. ASSUME NEW i \in Items, IndexRow(w, i) \/ RegisterLease(w, i) PROVE Shape'
  <2>1. \E state \in {"INDEXED", "ACTIVE"} :
          /\ row' = [row EXCEPT ![i] = state]
          /\ state = "ACTIVE" <=> KindOf[i] = "ephemeral"
          /\ WriteRow(w, i, row')
    BY <1>6 DEF IndexRow, RegisterLease, WriteRow, SaveLease, Ephemeral, OfKind
  <2>2. TypeOK'
    <3>1. row' \in [Items -> RowStates]
      BY <1>1, <2>1 DEF TypeOK, RowStates
    <3>2. wtell' \in [Writers -> SUBSET Items]
      BY <1>1, <2>1 DEF TypeOK, WriteRow
    <3>3. UNCHANGED <<points, said, wpc, wtodo, held, working, faults>>
      BY <2>1 DEF WriteRow
    <3>4. /\ raced' \in [Items -> {"never", "repaired", "raced"}]
          /\ quiet' \in [Jobs -> SUBSET Items]
      BY <1>1, <1>2, SuspectFacts
    <3>5. QED
      BY <1>1, <3>1, <3>2, <3>3, <3>4 DEF TypeOK, working, reading
  <2>3. Leases' /\ \A v \in Writers : WriterFrame(v)'
    BY <1>1, <2>1 DEF TypeOK, Shape, WriteRow, Leases, LeaseStates, WriterFrame
  <2>4. QED
    BY <1>4, <2>2, <2>3 DEF Shape
<1>7. ASSUME NEW i \in Items, TellUpserted(w, i) PROVE Shape'
  <2>1. TypeOK'
    BY <1>1, <1>2, <1>7, SuspectFacts DEF TypeOK, TellUpserted, working, reading
  <2>2. Leases' /\ \A v \in Writers : WriterFrame(v)'
    BY <1>1, <1>7 DEF TypeOK, Shape, TellUpserted, Leases, WriterFrame
  <2>3. QED
    BY <1>4, <2>1, <2>2 DEF Shape
<1>8. CASE WriterFails(w)
  <2>1. TypeOK'
    <3>1. held' \in [Writers -> [Items -> RowStates]]
      BY <1>1, <1>8 DEF TypeOK, WriterFails, Nothing, RowStates
    <3>2. faults' \in 0..MaxFaults
      BY <1>1, <1>8, BoundAssumption DEF TypeOK, WriterFails, Fault
    <3>3. wpc' \in [Writers -> {"idle", "look", "saved", "write", "done", "dead"}]
      BY <1>1, <1>8 DEF TypeOK, WriterFails
    <3>4. wtodo' \in [Writers -> SUBSET Items] /\ wtell' \in [Writers -> SUBSET Items]
      BY <1>1, <1>8 DEF TypeOK, WriterFails
    <3>5. QED
      BY <1>1, <1>2, <1>8, <3>1, <3>2, <3>3, <3>4, SuspectFacts DEF TypeOK, WriterFails, plane, working, reading
  <2>2. Leases' /\ \A v \in Writers : WriterFrame(v)'
    BY <1>1, <1>8 DEF TypeOK, Shape, WriterFails, Leases, WriterFrame, plane
  <2>3. QED
    BY <1>4, <2>1, <2>2 DEF Shape
<1>9. QED
  BY <1>5, <1>6, <1>7, <1>8, <1>10, <1>11 DEF WriterSteps

-----------------------------------------------------------------------------
(* The steps of the runs keep the shape.                                    *)

\* Scheduling a run and taking it.
LEMMA BeginningKeepsShape ==
  ASSUME Shape, NEW j \in Jobs,
         BeginRun(j) \/ AppendRun(j) \/ TakeRun(j)
  PROVE  Shape'
<1>1. TypeOK
  BY DEF Shape
<1>2. CASE BeginRun(j)
  <2>1. TypeOK'
    BY <1>1, <1>2 DEF TypeOK, BeginRun, plane, writing, reading, ghosts
  <2>2. Leases'
    BY <1>2 DEF Shape, Leases, BeginRun, plane
  <2>3. ASSUME NEW w \in Writers PROVE WriterFrame(w)'
    BY <1>2 DEF Shape, WriterFrame, BeginRun, writing
  <2>4. ASSUME NEW o \in Jobs PROVE RunFrame(o)' /\ KindFrame(o)' /\ QuietFrame(o)'
    <3>1. RunFrame(o)'
      BY <1>1, <1>2 DEF Shape, TypeOK, RunFrame, Unread, BeginRun, plane, reading
    <3>2. KindFrame(o)'
      BY <1>1, <1>2 DEF Shape, TypeOK, KindFrame, BeginRun, plane, reading
    <3>3. QuietFrame(o)'
      BY <1>1, <1>2 DEF Shape, TypeOK, QuietFrame, Active, Started, BeginRun, ghosts
    <3>4. QED
      BY <3>1, <3>2, <3>3
  <2>5. QED
    BY <2>1, <2>2, <2>3, <2>4 DEF Shape
<1>3. CASE AppendRun(j)
  <2>1. TypeOK'
    BY <1>1, <1>3 DEF TypeOK, AppendRun, plane, writing, reading, ghosts
  <2>2. Leases'
    BY <1>3 DEF Shape, Leases, AppendRun, plane
  <2>3. ASSUME NEW w \in Writers PROVE WriterFrame(w)'
    BY <1>3 DEF Shape, WriterFrame, AppendRun, writing
  <2>4. ASSUME NEW o \in Jobs PROVE RunFrame(o)' /\ KindFrame(o)' /\ QuietFrame(o)'
    <3>1. RunFrame(o)'
      BY <1>1, <1>3 DEF Shape, TypeOK, RunFrame, Unread, AppendRun, plane, reading
    <3>2. KindFrame(o)'
      BY <1>1, <1>3 DEF Shape, TypeOK, KindFrame, AppendRun, plane, reading
    <3>3. QuietFrame(o)'
      BY <1>1, <1>3 DEF Shape, TypeOK, QuietFrame, Active, Started, AppendRun, ghosts
    <3>4. QED
      BY <3>1, <3>2, <3>3
  <2>5. QED
    BY <2>1, <2>2, <2>3, <2>4 DEF Shape
<1>4. CASE TakeRun(j)
  <2>1. TypeOK'
    BY <1>1, <1>4, ScopeFacts, FirstFacts, AfterRowsFacts DEF TypeOK, TakeRun, plane, writing, reading
  <2>2. Leases'
    BY <1>4 DEF Shape, Leases, TakeRun, plane
  <2>3. ASSUME NEW w \in Writers PROVE WriterFrame(w)'
    BY <1>4 DEF Shape, WriterFrame, TakeRun, writing
  <2>4. ASSUME NEW o \in Jobs PROVE RunFrame(o)' /\ KindFrame(o)' /\ QuietFrame(o)'
    <3>1. RunFrame(o)'
      BY <1>1, <1>4, AfterRowsFacts DEF Shape, TypeOK, RunFrame, Unread, TakeRun, plane, reading
    <3>2. KindFrame(o)'
      BY <1>1, <1>4, ScopeFacts, FirstFacts, AfterRowsFacts DEF Shape, TypeOK, KindFrame, TakeRun, plane, reading
    <3>3. QuietFrame(o)'
      BY <1>1, <1>4, ScopeFacts, AfterRowsFacts DEF Shape, TypeOK, QuietFrame, Active, Started, TakeRun, ghosts
    <3>4. QED
      BY <3>1, <3>2, <3>3
  <2>5. QED
    BY <2>1, <2>2, <2>3, <2>4 DEF Shape
<1>5. QED
  BY <1>2, <1>3, <1>4

\* Reading rows, thinning and expiry.
LEMMA ErasingKeepsShape ==
  ASSUME Shape, NEW j \in Jobs,
         \/ ReadRows(j) \/ ExpiredAll(j) \/ EraseChosen(j) \/ ErasedAll(j)
         \/ \E i \in Items : MarkExpired(j, i) \/ MarkGone(j, i) \/ TellDeleted(j, i)
  PROVE  Shape'
<1>1. TypeOK
  BY DEF Shape
<1>2. CASE ReadRows(j)
  <2>1. PICK chosen \in Selections(j, First(reads[j])) :
          /\ seen' = [seen EXCEPT ![j] = @ \cup chosen]
          /\ jtodo' = [jtodo EXCEPT ![j] = IF Task[j] = "EPHEMERAL_EXPIRY"
                                           THEN {i \in chosen : row[i] = "ACTIVE"} ELSE {}]
    BY <1>2 DEF ReadRows
  <2>2. chosen \subseteq Items /\ chosen \subseteq Scope[j]
    <3>1. First(reads[j]) \subseteq Kinds[j]
      BY FirstFacts DEF Shape, KindFrame
    <3>2. QED
      BY <3>1, SelectionFacts, ScopeFacts
  <2>3. jtodo'[j] \subseteq chosen
    BY <1>1, <2>1 DEF TypeOK
  <2>4. /\ reads' = [reads EXCEPT ![j] = @ \ First(@)]
        /\ jpc' = [jpc EXCEPT ![j] = jpc'[j]]
        /\ jpc'[j] \in {"rows", AfterRows(j)}
        /\ jpc'[j] # "rows" => reads'[j] = {}
        /\ jpc[j] = "rows"
    BY <1>1, <1>2 DEF ReadRows, TypeOK
  <2>5. UNCHANGED <<plane, writing, run, visits, stages, missing, jtell, faults, ghosts>>
    BY <1>2 DEF ReadRows
  <2>6. TypeOK'
    BY <1>1, <2>1, <2>2, <2>3, <2>4, <2>5, AfterRowsFacts DEF TypeOK, plane, writing, ghosts
  <2>7. Leases'
    BY <2>5 DEF Shape, Leases, plane
  <2>8. ASSUME NEW w \in Writers PROVE WriterFrame(w)'
    BY <2>5 DEF Shape, WriterFrame, writing
  <2>9. ASSUME NEW o \in Jobs PROVE RunFrame(o)' /\ KindFrame(o)' /\ QuietFrame(o)'
    <3>1. RunFrame(o)'
      <4>1. seen \in [Jobs -> SUBSET Items] /\ jtodo \in [Jobs -> SUBSET Items] /\ DOMAIN jpc = Jobs
        BY <1>1 DEF TypeOK
      <4>2. RunFrame(o)
        BY DEF Shape
      <4>3. CASE o # j
        BY <2>1, <2>4, <2>5, <4>1, <4>2, <4>3 DEF RunFrame, Unread
      <4>4. CASE o = j
        <5>1. seen'[j] = seen[j] \cup chosen /\ jpc'[j] \in {"rows", "erase", "expire", "list"}
          BY <2>1, <2>4, <4>1, AfterRowsFacts
        <5>2. QED
          BY <2>2, <2>3, <2>4, <2>5, <4>2, <4>4, <5>1 DEF RunFrame, Unread
      <4>5. QED
        BY <4>3, <4>4
    <3>2. KindFrame(o)'
      BY <1>1, <2>4, <2>5, AfterRowsFacts DEF Shape, TypeOK, KindFrame
    <3>3. QuietFrame(o)'
      BY <1>1, <2>4, <2>5, AfterRowsFacts DEF Shape, TypeOK, QuietFrame, Active, Started, ghosts
    <3>4. QED
      BY <3>1, <3>2, <3>3
  <2>10. QED
    BY <2>6, <2>7, <2>8, <2>9 DEF Shape
<1>3. CASE ExpiredAll(j)
  <2>1. TypeOK'
    BY <1>1, <1>3 DEF TypeOK, ExpiredAll, plane, writing, reading, ghosts
  <2>2. Leases'
    BY <1>3 DEF Shape, Leases, ExpiredAll, plane
  <2>3. ASSUME NEW w \in Writers PROVE WriterFrame(w)'
    BY <1>3 DEF Shape, WriterFrame, ExpiredAll, writing
  <2>4. ASSUME NEW o \in Jobs PROVE RunFrame(o)' /\ KindFrame(o)' /\ QuietFrame(o)'
    <3>1. RunFrame(o)'
      BY <1>1, <1>3 DEF Shape, TypeOK, RunFrame, Unread, ExpiredAll, plane, reading, LoopDone
    <3>2. KindFrame(o)'
      BY <1>1, <1>3 DEF Shape, TypeOK, KindFrame, ExpiredAll, plane, reading
    <3>3. QuietFrame(o)'
      BY <1>1, <1>3 DEF Shape, TypeOK, QuietFrame, Active, Started, ExpiredAll, ghosts
    <3>4. QED
      BY <3>1, <3>2, <3>3
  <2>5. QED
    BY <2>1, <2>2, <2>3, <2>4 DEF Shape
<1>4. CASE EraseChosen(j)
  <2>1. TypeOK'
    BY <1>1, <1>4 DEF TypeOK, EraseChosen, plane, writing, reading, ghosts
  <2>2. Leases'
    BY <1>4 DEF Shape, Leases, EraseChosen, plane
  <2>3. ASSUME NEW w \in Writers PROVE WriterFrame(w)'
    BY <1>4 DEF Shape, WriterFrame, EraseChosen, writing
  <2>4. ASSUME NEW o \in Jobs PROVE RunFrame(o)' /\ KindFrame(o)' /\ QuietFrame(o)'
    <3>1. RunFrame(o)'
      BY <1>1, <1>4 DEF Shape, TypeOK, RunFrame, Unread, EraseChosen, plane, reading
    <3>2. KindFrame(o)'
      BY <1>1, <1>4, FirstFacts DEF Shape, TypeOK, KindFrame, EraseChosen, plane, reading
    <3>3. QuietFrame(o)'
      BY <1>1, <1>4 DEF Shape, TypeOK, QuietFrame, Active, Started, EraseChosen, ghosts
    <3>4. QED
      BY <3>1, <3>2, <3>3
  <2>5. QED
    BY <2>1, <2>2, <2>3, <2>4 DEF Shape
<1>5. CASE ErasedAll(j)
  <2>1. TypeOK'
    BY <1>1, <1>5 DEF TypeOK, ErasedAll, plane, writing, reading, ghosts
  <2>2. Leases'
    BY <1>5 DEF Shape, Leases, ErasedAll, plane
  <2>3. ASSUME NEW w \in Writers PROVE WriterFrame(w)'
    BY <1>5 DEF Shape, WriterFrame, ErasedAll, writing
  <2>4. ASSUME NEW o \in Jobs PROVE RunFrame(o)' /\ KindFrame(o)' /\ QuietFrame(o)'
    <3>1. RunFrame(o)'
      BY <1>1, <1>5 DEF Shape, TypeOK, RunFrame, Unread, ErasedAll, plane, reading
    <3>2. KindFrame(o)'
      BY <1>1, <1>5 DEF Shape, TypeOK, KindFrame, ErasedAll, plane, reading
    <3>3. QuietFrame(o)'
      BY <1>1, <1>5 DEF Shape, TypeOK, QuietFrame, Active, Started, ErasedAll, ghosts
    <3>4. QED
      BY <3>1, <3>2, <3>3
  <2>5. QED
    BY <2>1, <2>2, <2>3, <2>4 DEF Shape
<1>6. ASSUME NEW i \in Items, MarkExpired(j, i) PROVE Shape'
  <2>1. TypeOK'
    BY <1>1, <1>6 DEF TypeOK, RowStates, MarkExpired, plane, writing, reading, ghosts
  <2>2. Leases'
    BY <1>1, <1>6 DEF Shape, TypeOK, Leases, LeaseStates, MarkExpired, Gone, plane
  <2>3. ASSUME NEW w \in Writers PROVE WriterFrame(w)'
    BY <1>6 DEF Shape, WriterFrame, MarkExpired, writing
  <2>4. ASSUME NEW o \in Jobs PROVE RunFrame(o)' /\ KindFrame(o)' /\ QuietFrame(o)'
    <3>1. RunFrame(o)'
      BY <1>1, <1>6 DEF Shape, TypeOK, RunFrame, Unread, MarkExpired, plane, reading
    <3>2. KindFrame(o)'
      BY <1>1, <1>6 DEF Shape, TypeOK, KindFrame, MarkExpired, plane, reading
    <3>3. QuietFrame(o)'
      BY <1>1, <1>6 DEF Shape, TypeOK, QuietFrame, Active, Started, MarkExpired, ghosts
    <3>4. QED
      BY <3>1, <3>2, <3>3
  <2>5. QED
    BY <2>1, <2>2, <2>3, <2>4 DEF Shape
<1>7. ASSUME NEW i \in Items, MarkGone(j, i) PROVE Shape'
  <2>1. TypeOK'
    BY <1>1, <1>7 DEF TypeOK, RowStates, MarkGone, plane, writing, reading, ghosts, Gone
  <2>2. Leases'
    BY <1>1, <1>7 DEF Shape, TypeOK, Leases, LeaseStates, MarkGone, Gone, plane
  <2>3. ASSUME NEW w \in Writers PROVE WriterFrame(w)'
    BY <1>7 DEF Shape, WriterFrame, MarkGone, writing
  <2>4. ASSUME NEW o \in Jobs PROVE RunFrame(o)' /\ KindFrame(o)' /\ QuietFrame(o)'
    <3>1. RunFrame(o)'
      BY <1>1, <1>7, FirstFacts DEF Shape, TypeOK, RunFrame, Unread, MarkGone, plane, reading
    <3>2. KindFrame(o)'
      BY <1>1, <1>7 DEF Shape, TypeOK, KindFrame, MarkGone, plane, reading
    <3>3. QuietFrame(o)'
      BY <1>1, <1>7 DEF Shape, TypeOK, QuietFrame, Active, Started, MarkGone, ghosts
    <3>4. QED
      BY <3>1, <3>2, <3>3
  <2>5. QED
    BY <2>1, <2>2, <2>3, <2>4 DEF Shape
<1>8. ASSUME NEW i \in Items, TellDeleted(j, i) PROVE Shape'
  <2>1. TypeOK'
    BY <1>1, <1>8 DEF TypeOK, TellDeleted, plane, writing, reading, ghosts
  <2>2. Leases'
    BY <1>8 DEF Shape, Leases, TellDeleted, plane
  <2>3. ASSUME NEW w \in Writers PROVE WriterFrame(w)'
    BY <1>8 DEF Shape, WriterFrame, TellDeleted, writing
  <2>4. ASSUME NEW o \in Jobs PROVE RunFrame(o)' /\ KindFrame(o)' /\ QuietFrame(o)'
    <3>1. RunFrame(o)'
      BY <1>1, <1>8 DEF Shape, TypeOK, RunFrame, Unread, TellDeleted, plane, reading
    <3>2. KindFrame(o)'
      BY <1>1, <1>8 DEF Shape, TypeOK, KindFrame, TellDeleted, plane, reading
    <3>3. QuietFrame(o)'
      BY <1>1, <1>8 DEF Shape, TypeOK, QuietFrame, Active, Started, TellDeleted, ghosts
    <3>4. QED
      BY <3>1, <3>2, <3>3
  <2>5. QED
    BY <2>1, <2>2, <2>3, <2>4 DEF Shape
<1>9. QED
  BY <1>2, <1>3, <1>4, <1>5, <1>6, <1>7, <1>8

\* Reconciliation.
LEMMA ReconcilingKeepsShape ==
  ASSUME Shape, NEW j \in Jobs,
         \/ ListPoints(j) \/ EraseOrphans(j) \/ OrphansReported(j)
         \/ NextCollection(j) \/ NextStage(j) \/ AllDone(j)
  PROVE  Shape'
<1>1. TypeOK
  BY DEF Shape
<1>2. CASE ListPoints(j)
  <2>1. TypeOK'
    BY <1>1, <1>2 DEF TypeOK, ListPoints, plane, writing, reading, ghosts
  <2>2. Leases'
    BY <1>2 DEF Shape, Leases, ListPoints, plane
  <2>3. ASSUME NEW w \in Writers PROVE WriterFrame(w)'
    BY <1>2 DEF Shape, WriterFrame, ListPoints, writing
  <2>4. ASSUME NEW o \in Jobs PROVE RunFrame(o)' /\ KindFrame(o)' /\ QuietFrame(o)'
    <3>1. RunFrame(o)'
      BY <1>1, <1>2, ScopeFacts, FirstFacts DEF Shape, TypeOK, RunFrame, KindFrame, Unread, OfKinds, ListPoints, plane, reading
    <3>2. KindFrame(o)'
      BY <1>1, <1>2 DEF Shape, TypeOK, KindFrame, ListPoints, plane, reading
    <3>3. QuietFrame(o)'
      BY <1>1, <1>2 DEF Shape, TypeOK, QuietFrame, Active, Started, ListPoints, ghosts
    <3>4. QED
      BY <3>1, <3>2, <3>3
  <2>5. QED
    BY <2>1, <2>2, <2>3, <2>4 DEF Shape
<1>3. CASE EraseOrphans(j)
  <2>1. TypeOK'
    BY <1>1, <1>3 DEF TypeOK, EraseOrphans, plane, writing, reading, ghosts
  <2>2. Leases'
    BY <1>3 DEF Shape, Leases, EraseOrphans, plane
  <2>3. ASSUME NEW w \in Writers PROVE WriterFrame(w)'
    BY <1>3 DEF Shape, WriterFrame, EraseOrphans, writing
  <2>4. ASSUME NEW o \in Jobs PROVE RunFrame(o)' /\ KindFrame(o)' /\ QuietFrame(o)'
    <3>1. RunFrame(o)'
      BY <1>1, <1>3 DEF Shape, TypeOK, RunFrame, Unread, EraseOrphans, plane, reading
    <3>2. KindFrame(o)'
      BY <1>1, <1>3 DEF Shape, TypeOK, KindFrame, EraseOrphans, plane, reading
    <3>3. QuietFrame(o)'
      BY <1>1, <1>3 DEF Shape, TypeOK, QuietFrame, Active, Started, EraseOrphans, ghosts
    <3>4. QED
      BY <3>1, <3>2, <3>3
  <2>5. QED
    BY <2>1, <2>2, <2>3, <2>4 DEF Shape
<1>4. CASE OrphansReported(j)
  <2>1. TypeOK'
    BY <1>1, <1>4 DEF TypeOK, OrphansReported, plane, writing, reading, ghosts
  <2>2. Leases'
    BY <1>4 DEF Shape, Leases, OrphansReported, plane
  <2>3. ASSUME NEW w \in Writers PROVE WriterFrame(w)'
    BY <1>4 DEF Shape, WriterFrame, OrphansReported, writing
  <2>4. ASSUME NEW o \in Jobs PROVE RunFrame(o)' /\ KindFrame(o)' /\ QuietFrame(o)'
    <3>1. RunFrame(o)'
      BY <1>1, <1>4 DEF Shape, TypeOK, RunFrame, Unread, OrphansReported, plane, reading, LoopDone
    <3>2. KindFrame(o)'
      BY <1>1, <1>4 DEF Shape, TypeOK, KindFrame, OrphansReported, plane, reading
    <3>3. QuietFrame(o)'
      BY <1>1, <1>4 DEF Shape, TypeOK, QuietFrame, Active, Started, OrphansReported, ghosts
    <3>4. QED
      BY <3>1, <3>2, <3>3
  <2>5. QED
    BY <2>1, <2>2, <2>3, <2>4 DEF Shape
<1>5. CASE NextCollection(j)
  <2>1. TypeOK'
    BY <1>1, <1>5 DEF TypeOK, NextCollection, plane, writing, reading, ghosts
  <2>2. Leases'
    BY <1>5 DEF Shape, Leases, NextCollection, plane
  <2>3. ASSUME NEW w \in Writers PROVE WriterFrame(w)'
    BY <1>5 DEF Shape, WriterFrame, NextCollection, writing
  <2>4. ASSUME NEW o \in Jobs PROVE RunFrame(o)' /\ KindFrame(o)' /\ QuietFrame(o)'
    <3>1. RunFrame(o)'
      BY <1>1, <1>5 DEF Shape, TypeOK, RunFrame, Unread, NextCollection, plane, reading, LoopDone
    <3>2. KindFrame(o)'
      BY <1>1, <1>5, FirstFacts DEF Shape, TypeOK, KindFrame, NextCollection, plane, reading
    <3>3. QuietFrame(o)'
      BY <1>1, <1>5 DEF Shape, TypeOK, QuietFrame, Active, Started, NextCollection, ghosts
    <3>4. QED
      BY <3>1, <3>2, <3>3
  <2>5. QED
    BY <2>1, <2>2, <2>3, <2>4 DEF Shape
<1>6. CASE NextStage(j)
  <2>1. TypeOK'
    BY <1>1, <1>6, FirstFacts DEF TypeOK, NextStage, plane, writing, reading, ghosts
  <2>2. Leases'
    BY <1>6 DEF Shape, Leases, NextStage, plane
  <2>3. ASSUME NEW w \in Writers PROVE WriterFrame(w)'
    BY <1>6 DEF Shape, WriterFrame, NextStage, writing
  <2>4. ASSUME NEW o \in Jobs PROVE RunFrame(o)' /\ KindFrame(o)' /\ QuietFrame(o)'
    <3>1. RunFrame(o)'
      BY <1>1, <1>6 DEF Shape, TypeOK, RunFrame, Unread, NextStage, plane, reading
    <3>2. KindFrame(o)'
      BY <1>1, <1>6, FirstFacts DEF Shape, TypeOK, KindFrame, NextStage, plane, reading
    <3>3. QuietFrame(o)'
      BY <1>1, <1>6 DEF Shape, TypeOK, QuietFrame, Active, Started, NextStage, ghosts
    <3>4. QED
      BY <3>1, <3>2, <3>3
  <2>5. QED
    BY <2>1, <2>2, <2>3, <2>4 DEF Shape
<1>7. CASE AllDone(j)
  <2>1. TypeOK'
    BY <1>1, <1>7 DEF TypeOK, AllDone, plane, writing, reading, ghosts
  <2>2. Leases'
    BY <1>7 DEF Shape, Leases, AllDone, plane
  <2>3. ASSUME NEW w \in Writers PROVE WriterFrame(w)'
    BY <1>7 DEF Shape, WriterFrame, AllDone, writing
  <2>4. ASSUME NEW o \in Jobs PROVE RunFrame(o)' /\ KindFrame(o)' /\ QuietFrame(o)'
    <3>1. RunFrame(o)'
      BY <1>1, <1>7 DEF Shape, TypeOK, RunFrame, Unread, AllDone, plane, reading, LoopDone
    <3>2. KindFrame(o)'
      BY <1>1, <1>7 DEF Shape, TypeOK, KindFrame, AllDone, plane, reading
    <3>3. QuietFrame(o)'
      BY <1>1, <1>7 DEF Shape, TypeOK, QuietFrame, Active, Started, AllDone, ghosts
    <3>4. QED
      BY <3>1, <3>2, <3>3
  <2>5. QED
    BY <2>1, <2>2, <2>3, <2>4 DEF Shape
<1>8. QED
  BY <1>2, <1>3, <1>4, <1>5, <1>6, <1>7

\* The ends of a run.
LEMMA EndingKeepsShape ==
  ASSUME Shape, NEW j \in Jobs,
         Succeed(j) \/ CloseRun(j) \/ RunRaises(j) \/ RunCrashes(j)
  PROVE  Shape'
<1>1. TypeOK
  BY DEF Shape
<1>2. CASE Succeed(j)
  <2>1. TypeOK'
    BY <1>1, <1>2 DEF TypeOK, Succeed, plane, writing, reading
  <2>2. Leases'
    BY <1>2 DEF Shape, Leases, Succeed, plane
  <2>3. ASSUME NEW w \in Writers PROVE WriterFrame(w)'
    BY <1>2 DEF Shape, WriterFrame, Succeed, writing
  <2>4. ASSUME NEW o \in Jobs PROVE RunFrame(o)' /\ KindFrame(o)' /\ QuietFrame(o)'
    <3>1. RunFrame(o)'
      BY <1>1, <1>2 DEF Shape, TypeOK, RunFrame, Unread, Succeed, plane, reading
    <3>2. KindFrame(o)'
      BY <1>1, <1>2 DEF Shape, TypeOK, KindFrame, Succeed, plane, reading
    <3>3. QuietFrame(o)'
      BY <1>1, <1>2 DEF Shape, TypeOK, QuietFrame, Active, Started, Succeed, ghosts
    <3>4. QED
      BY <3>1, <3>2, <3>3
  <2>5. QED
    BY <2>1, <2>2, <2>3, <2>4 DEF Shape
<1>3. CASE CloseRun(j)
  <2>1. TypeOK'
    BY <1>1, <1>3 DEF TypeOK, CloseRun, plane, writing, reading
  <2>2. Leases'
    BY <1>3 DEF Shape, Leases, CloseRun, plane
  <2>3. ASSUME NEW w \in Writers PROVE WriterFrame(w)'
    BY <1>3 DEF Shape, WriterFrame, CloseRun, writing
  <2>4. ASSUME NEW o \in Jobs PROVE RunFrame(o)' /\ KindFrame(o)' /\ QuietFrame(o)'
    <3>1. RunFrame(o)'
      BY <1>1, <1>3 DEF Shape, TypeOK, RunFrame, Unread, CloseRun, plane, reading
    <3>2. KindFrame(o)'
      BY <1>1, <1>3 DEF Shape, TypeOK, KindFrame, CloseRun, plane, reading
    <3>3. QuietFrame(o)'
      BY <1>1, <1>3 DEF Shape, TypeOK, QuietFrame, Active, Started, CloseRun, ghosts
    <3>4. QED
      BY <3>1, <3>2, <3>3
  <2>5. QED
    BY <2>1, <2>2, <2>3, <2>4 DEF Shape
<1>4. CASE RunRaises(j)
  <2>1. TypeOK'
    <3>1. faults' \in 0..MaxFaults
      BY <1>1, <1>4, BoundAssumption DEF TypeOK, RunRaises, Fault
    <3>2. /\ jpc' = [jpc EXCEPT ![j] = "dead"]
          /\ reads' = [reads EXCEPT ![j] = {}] /\ visits' = [visits EXCEPT ![j] = {}]
          /\ stages' = [stages EXCEPT ![j] = {}] /\ seen' = [seen EXCEPT ![j] = {}]
          /\ jtodo' = [jtodo EXCEPT ![j] = {}] /\ missing' = [missing EXCEPT ![j] = {}]
          /\ jtell' = [jtell EXCEPT ![j] = {}]
      BY <1>4 DEF RunRaises, Drop
    <3>3. UNCHANGED <<plane, writing>> /\ Abort(j) /\ run' \in [Jobs -> {"none", "REQUESTED", "RUNNING", "SUCCEEDED", "FAILED"}]
      BY <1>1, <1>4 DEF TypeOK, RunRaises
    <3>4. QED
      BY <1>1, <3>1, <3>2, <3>3, AbortFacts DEF TypeOK, plane, writing
  <2>2. Leases'
    BY <1>4 DEF Shape, Leases, RunRaises, plane
  <2>3. ASSUME NEW w \in Writers PROVE WriterFrame(w)'
    BY <1>4 DEF Shape, WriterFrame, RunRaises, writing
  <2>4. ASSUME NEW o \in Jobs PROVE RunFrame(o)' /\ KindFrame(o)' /\ QuietFrame(o)'
    <3>1. RunFrame(o)'
      BY <1>1, <1>4 DEF Shape, TypeOK, RunFrame, Unread, RunRaises, plane, reading, Drop
    <3>2. KindFrame(o)'
      BY <1>1, <1>4 DEF Shape, TypeOK, KindFrame, RunRaises, plane, reading, Drop
    <3>3. QuietFrame(o)'
      BY <1>1, <1>4, AbortFacts DEF Shape, TypeOK, QuietFrame, Active, Started, RunRaises, ghosts, Drop
    <3>4. QED
      BY <3>1, <3>2, <3>3
  <2>5. QED
    BY <2>1, <2>2, <2>3, <2>4 DEF Shape
<1>5. CASE RunCrashes(j)
  <2>1. TypeOK'
    <3>1. faults' \in 0..MaxFaults
      BY <1>1, <1>5, BoundAssumption DEF TypeOK, RunCrashes, Fault
    <3>2. /\ jpc' = [jpc EXCEPT ![j] = "dead"]
          /\ reads' = [reads EXCEPT ![j] = {}] /\ visits' = [visits EXCEPT ![j] = {}]
          /\ stages' = [stages EXCEPT ![j] = {}] /\ seen' = [seen EXCEPT ![j] = {}]
          /\ jtodo' = [jtodo EXCEPT ![j] = {}] /\ missing' = [missing EXCEPT ![j] = {}]
          /\ jtell' = [jtell EXCEPT ![j] = {}]
      BY <1>5 DEF RunCrashes, Drop
    <3>3. UNCHANGED <<plane, writing>> /\ Abort(j) /\ run' \in [Jobs -> {"none", "REQUESTED", "RUNNING", "SUCCEEDED", "FAILED"}]
      BY <1>1, <1>5 DEF TypeOK, RunCrashes
    <3>4. QED
      BY <1>1, <3>1, <3>2, <3>3, AbortFacts DEF TypeOK, plane, writing
  <2>2. Leases'
    BY <1>5 DEF Shape, Leases, RunCrashes, plane
  <2>3. ASSUME NEW w \in Writers PROVE WriterFrame(w)'
    BY <1>5 DEF Shape, WriterFrame, RunCrashes, writing
  <2>4. ASSUME NEW o \in Jobs PROVE RunFrame(o)' /\ KindFrame(o)' /\ QuietFrame(o)'
    <3>1. RunFrame(o)'
      BY <1>1, <1>5 DEF Shape, TypeOK, RunFrame, Unread, RunCrashes, plane, reading, Drop
    <3>2. KindFrame(o)'
      BY <1>1, <1>5 DEF Shape, TypeOK, KindFrame, RunCrashes, plane, reading, Drop
    <3>3. QuietFrame(o)'
      BY <1>1, <1>5, AbortFacts DEF Shape, TypeOK, QuietFrame, Active, Started, RunCrashes, ghosts, Drop
    <3>4. QED
      BY <3>1, <3>2, <3>3
  <2>5. QED
    BY <2>1, <2>2, <2>3, <2>4 DEF Shape
<1>6. QED
  BY <1>2, <1>3, <1>4, <1>5

RunStep(j) == BeginRun(j) \/ RunSteps(j) \/ RunRaises(j) \/ RunCrashes(j)
WriterStep(w) == WriterSteps(w) \/ WriterFails(w)

LEMMA NextStep ==
  ASSUME [Next]_vars
  PROVE  (\E w \in Writers : WriterStep(w)) \/ (\E j \in Jobs : RunStep(j)) \/ UNCHANGED vars
BY DEF Next, WriterStep, RunStep

LEMMA RunsKeepShape ==
  ASSUME Shape, NEW j \in Jobs, RunStep(j)
  PROVE  Shape'
BY BeginningKeepsShape, ErasingKeepsShape, ReconcilingKeepsShape, EndingKeepsShape
   DEF RunStep, RunSteps

LEMMA StutterKeepsShape ==
  ASSUME Shape, UNCHANGED vars
  PROVE  Shape'
BY DEF Shape, TypeOK, Leases, WriterFrame, RunFrame, KindFrame, QuietFrame, Unread, Active, Started,
       vars, plane, writing, working, reading, ghosts

-----------------------------------------------------------------------------
(* Peace: an item that is quiet for a run has no writer at it, and it is    *)
(* quiet for all the runs that are at it or for none.                       *)

Calm(i) == raced[i] # "raced" \/ (\E k \in Jobs : Working(k) /\ i \in quiet[k])

NoWriter == \A j \in Jobs : \A i \in quiet[j] : ~Writing(i)
AllQuiet ==
  \A i \in Items : Calm(i) => \A j \in Jobs : Working(j) /\ i \in Scope[j] => i \in quiet[j]
Peace == NoWriter /\ AllQuiet

Raced(i) == raced'[i] = "raced" /\ \A o \in Jobs : i \notin quiet'[o]
SameGhosts(i) == raced'[i] = raced[i] /\ \A o \in Jobs : i \in quiet'[o] <=> i \in quiet[o]

\* A writer changes its own items, no run, and an item that a run is at is
\* suspect from then on, as are all it has when it fails.
LEMMA WriterEffect ==
  ASSUME Shape, NEW w \in Writers, WriterStep(w)
  PROVE  /\ UNCHANGED working
         /\ \A v \in Writers : v # w =>
              wpc'[v] = wpc[v] /\ wtodo'[v] = wtodo[v] /\ wtell'[v] = wtell[v] /\ held'[v] = held[v]
         /\ \A i \in Items : i \notin Touches(w) =>
              row'[i] = row[i] /\ (i \in points' <=> i \in points) /\ said'[i] = said[i]
         /\ \A i \in Items : Raced(i) \/ SameGhosts(i)
         /\ \A i \in Touches(w) : (\E j \in Jobs : Active(j) /\ i \in Scope[j]) => Raced(i)
         /\ \A i \in Items, v \in Writers : Holding(v, i) /\ Holding(v, i)' /\ row'[i] # row[i] => Raced(i)
         /\ WriterFails(w) => \A i \in Touches(w) : Raced(i)
<1>1. TypeOK /\ Saves[w] \subseteq Items /\ Writes[w] \subseteq Items /\ Touches(w) \subseteq Items
  BY WriterAssumption DEF Shape, Touches
<1> DEFINE At == {i \in Items : /\ \E j \in Jobs : Active(j) /\ i \in Scope[j]
                                /\ \E v \in Writers : i \in Touches(v) /\ (AtWork(v) \/ AtWork(v)')}
           Under == {i \in Items : row'[i] # row[i] /\ \E v \in Writers : Holding(v, i) /\ Holding(v, i)'}
<1>2. PICK S : Suspect(S) /\ ((WriterFails(w) /\ S = Touches(w)) \/ S = At \cup Under)
  <2>1. CASE WriterFails(w)
    BY <2>1 DEF WriterFails
  <2>2. CASE Meet
    <3>1. At \cup Under = {i \in Items :
             \/ /\ \E j \in Jobs : Active(j) /\ i \in Scope[j]
                /\ \E v \in Writers : i \in Touches(v) /\ (AtWork(v) \/ AtWork(v)')
             \/ row'[i] # row[i] /\ \E v \in Writers : Holding(v, i) /\ Holding(v, i)'}
      OBVIOUS
    <3>2. Suspect(At \cup Under)
      BY <2>2, <3>1 DEF Meet
    <3>3. QED
      BY <3>2
  <2>3. WriterFails(w) \/ Meet
    BY DEF WriterStep, WriterSteps, Look, SaveRow, UpsertPoints, IndexRow, RegisterLease, WriteRow, TellUpserted, WriterFails
  <2>4. QED
    BY <2>1, <2>2, <2>3
<1>3. \A i \in Items : IF i \in S THEN Raced(i) ELSE SameGhosts(i)
  BY <1>1, <1>2, SuspectFacts DEF Raced, SameGhosts
<1>4. AtWork(w) \/ AtWork(w)'
  BY <1>1 DEF WriterStep, WriterSteps, Look, SaveRow, UpsertPoints, IndexRow, RegisterLease, WriteRow, TellUpserted, WriterFails, TypeOK, AtWork
<1>5. \A i \in Touches(w) : (\E j \in Jobs : Active(j) /\ i \in Scope[j]) => i \in S
  BY <1>1, <1>2, <1>4
<1>6. \A v \in Writers : v # w =>
        wpc'[v] = wpc[v] /\ wtodo'[v] = wtodo[v] /\ wtell'[v] = wtell[v] /\ held'[v] = held[v]
  BY <1>1 DEF WriterStep, WriterSteps, Look, SaveRow, UpsertPoints, IndexRow, RegisterLease, WriteRow, TellUpserted, WriterFails, TypeOK
<1>7. \A i \in Items : i \notin Touches(w) =>
        row'[i] = row[i] /\ (i \in points' <=> i \in points) /\ said'[i] = said[i]
  <2>1. wtodo[w] \subseteq Writes[w] /\ wtell[w] \subseteq Writes[w]
    BY DEF Shape, WriterFrame
  <2>2. QED
    BY <1>1, <2>1 DEF WriterStep, WriterSteps, Look, SaveRow, UpsertPoints, IndexRow, RegisterLease, WriteRow, TellUpserted, WriterFails, SaveLease, TypeOK, Touches, plane
<1>8. UNCHANGED working
  BY DEF WriterStep, WriterSteps, Look, SaveRow, UpsertPoints, IndexRow, RegisterLease, WriteRow, TellUpserted, WriterFails
<1>9. WriterFails(w) => \A i \in Touches(w) : Raced(i)
  <2>1. WriterFails(w) => Suspect(Touches(w))
    BY DEF WriterFails
  <2>2. QED
    BY <1>1, <2>1, SuspectFacts DEF Raced
<1>10. \A i \in Items, v \in Writers : Holding(v, i) /\ Holding(v, i)' /\ row'[i] # row[i] => Raced(i)
  <2>1. SUFFICES ASSUME NEW i \in Items, NEW v \in Writers, Holding(v, i), Holding(v, i)', row'[i] # row[i]
                 PROVE  i \in S
    BY <1>3
  <2>2. UNCHANGED row => FALSE
    BY <2>1
  <2>3. ~WriterFails(w)
    BY <2>2 DEF WriterFails, plane
  <2>4. QED
    BY <1>2, <2>1, <2>3
<1>11. QED
  BY <1>1, <1>3, <1>5, <1>6, <1>7, <1>8, <1>9, <1>10

\* A run changes its own frame, and points and live rows only to take them away.
LEMMA RunEffect ==
  ASSUME Shape, NEW j \in Jobs, RunStep(j)
  PROVE  /\ UNCHANGED writing
         /\ \A o \in Jobs : o # j =>
              /\ jpc'[o] = jpc[o] /\ reads'[o] = reads[o] /\ visits'[o] = visits[o] /\ stages'[o] = stages[o]
              /\ seen'[o] = seen[o] /\ jtodo'[o] = jtodo[o] /\ missing'[o] = missing[o] /\ jtell'[o] = jtell[o]
              /\ quiet'[o] \subseteq quiet[o]
         /\ points' \subseteq points
         /\ \A i \in Items : Live(i)' => Live(i)
<1>1. TypeOK
  BY DEF Shape
<1>2. CASE BeginRun(j) \/ AppendRun(j) \/ TakeRun(j)
  BY <1>1, <1>2 DEF BeginRun, AppendRun, TakeRun, TypeOK, plane, writing, reading, ghosts, Live
<1>3. CASE ReadRows(j) \/ ExpiredAll(j) \/ EraseChosen(j) \/ ErasedAll(j)
  BY <1>1, <1>3 DEF ReadRows, ExpiredAll, EraseChosen, ErasedAll, TypeOK, plane, writing, reading, ghosts, Live
<1>4. CASE \E i \in Items : MarkExpired(j, i) \/ MarkGone(j, i) \/ TellDeleted(j, i)
  BY <1>1, <1>4 DEF MarkExpired, MarkGone, Gone, TellDeleted, TypeOK, plane, writing, reading, ghosts, Live
<1>5. CASE \/ ListPoints(j) \/ EraseOrphans(j) \/ OrphansReported(j)
           \/ NextCollection(j) \/ NextStage(j) \/ AllDone(j)
  BY <1>1, <1>5 DEF ListPoints, EraseOrphans, OrphansReported, NextCollection, NextStage, AllDone,
                    TypeOK, plane, writing, reading, ghosts, Live
<1>6. CASE Succeed(j) \/ CloseRun(j)
  BY <1>1, <1>6 DEF Succeed, CloseRun, TypeOK, plane, writing, reading, Live
<1>7. CASE RunRaises(j) \/ RunCrashes(j)
  <2>1. Abort(j) /\ Drop(j) /\ UNCHANGED <<plane, writing>>
    BY <1>7 DEF RunRaises, RunCrashes
  <2>2. \A o \in Jobs : o # j =>
          /\ jpc'[o] = jpc[o] /\ reads'[o] = reads[o] /\ visits'[o] = visits[o] /\ stages'[o] = stages[o]
          /\ seen'[o] = seen[o] /\ jtodo'[o] = jtodo[o] /\ missing'[o] = missing[o] /\ jtell'[o] = jtell[o]
    BY <1>1, <2>1 DEF Drop, TypeOK
  <2>3. \A o \in Jobs : quiet'[o] \subseteq quiet[o]
    BY <1>1, <2>1, AbortFacts
  <2>4. UNCHANGED <<row, points, writing>>
    BY <2>1 DEF plane
  <2>5. \A i \in Items : Live(i)' => Live(i)
    BY <2>4 DEF Live
  <2>6. QED
    BY <2>2, <2>3, <2>4, <2>5
<1>8. QED
  BY <1>2, <1>3, <1>4, <1>5, <1>6, <1>7 DEF RunStep, RunSteps

\* All but four steps of a run leave the bookkeeping and go on working, or do not work at all.
LEMMA OtherRunSteps ==
  ASSUME Shape, NEW j \in Jobs, RunStep(j)
  PROVE  \/ TakeRun(j) \/ Succeed(j) \/ CloseRun(j) \/ RunRaises(j) \/ RunCrashes(j)
         \/ /\ UNCHANGED ghosts
            /\ Working(j)' <=> Working(j)
<1>1. TypeOK
  BY DEF Shape
<1>2. CASE BeginRun(j) \/ AppendRun(j)
  BY <1>1, <1>2 DEF BeginRun, AppendRun, TypeOK, Working, Active, Started
<1>3. CASE ReadRows(j)
  BY <1>1, <1>3, AfterRowsFacts DEF ReadRows, TypeOK, Working, Active, Started
<1>4. CASE ExpiredAll(j) \/ EraseChosen(j) \/ ErasedAll(j)
  BY <1>1, <1>4 DEF ExpiredAll, EraseChosen, ErasedAll, TypeOK, Working, Active, Started
<1>5. CASE \E i \in Items : MarkExpired(j, i) \/ MarkGone(j, i) \/ TellDeleted(j, i)
  BY <1>1, <1>5 DEF MarkExpired, MarkGone, TellDeleted, TypeOK, Working, Active, Started
<1>6. CASE \/ ListPoints(j) \/ EraseOrphans(j) \/ OrphansReported(j)
           \/ NextCollection(j) \/ NextStage(j) \/ AllDone(j)
  BY <1>1, <1>6 DEF ListPoints, EraseOrphans, OrphansReported, NextCollection, NextStage, AllDone,
                    TypeOK, Working, Active, Started
<1>7. QED
  BY <1>2, <1>3, <1>4, <1>5, <1>6 DEF RunStep, RunSteps

\* What is calm after the step of a writer is not the writer's, or no run is at it.
LEMMA WritersKeepPeace ==
  ASSUME Shape, Peace, NEW w \in Writers, WriterStep(w)
  PROVE  Peace'
<1>1. Shape'
  BY WritersKeepShape DEF WriterStep
<1>2. \A i \in Items : Calm(i)' => SameGhosts(i) /\ Calm(i)
  BY WriterEffect DEF Calm, Raced, SameGhosts, Working, Active, working
<1>3. NoWriter'
  <2>1. SUFFICES ASSUME NEW j \in Jobs, NEW i \in quiet'[j], NEW v \in Writers, i \in Touches(v), AtWork(v)'
                 PROVE  FALSE
    BY DEF NoWriter, Writing
  <2>2. i \in Items /\ i \in quiet[j] /\ ~Raced(i)
    BY <1>1, WriterEffect DEF Raced, SameGhosts, Shape, TypeOK
  <2>3. Active(j) /\ i \in Scope[j]
    BY <2>2 DEF Shape, QuietFrame
  <2>4. v # w
    BY <2>1, <2>2, <2>3, WriterEffect
  <2>5. AtWork(v)
    BY <2>1, <2>4, WriterEffect DEF AtWork
  <2>6. QED
    BY <2>1, <2>2, <2>5 DEF Peace, NoWriter, Writing
<1>4. AllQuiet'
  BY <1>2, WriterEffect DEF Peace, AllQuiet, SameGhosts, Working, Active, working
<1>5. QED
  BY <1>3, <1>4 DEF Peace

\* A run that is taken finds the items quiet that all others find so.
LEMMA TakingKeepsPeace ==
  ASSUME Shape, Peace, NEW j \in Jobs, TakeRun(j)
  PROVE  Peace'
<1>1. TypeOK
  BY DEF Shape
<1>2. /\ quiet' = [quiet EXCEPT ![j] = quiet'[j]]
      /\ \A i \in Items : i \in quiet'[j] <=>
           /\ i \in Scope[j] /\ ~Writing(i)
           /\ \A other \in Jobs : Working(other) /\ i \in Scope[other] => i \in quiet[other]
      /\ quiet'[j] \subseteq Items
  BY <1>1, ScopeFacts DEF TakeRun, TypeOK
<1>3. \A i \in Items : raced'[i] = IF Writing(i) /\ i \in Scope[j] THEN "raced" ELSE raced[i]
  BY DEF TakeRun
<1>4. /\ UNCHANGED writing
      /\ ~Working(j)
      /\ \A o \in Jobs : o # j => (Working(o)' <=> Working(o)) /\ quiet'[o] = quiet[o]
  BY <1>1, <1>2 DEF TakeRun, TypeOK, Working, Active, Started
<1>5. NoWriter'
  BY <1>1, <1>2, <1>4 DEF Peace, NoWriter, Writing, AtWork, writing, TypeOK
<1>6. AllQuiet'
  <2> SUFFICES ASSUME NEW i \in Items, Calm(i)', NEW o \in Jobs, Working(o)', i \in Scope[o]
               PROVE  i \in quiet'[o]
    BY DEF AllQuiet
  <2>1. CASE Calm(i)
    <3>1. \A k \in Jobs : Working(k) /\ i \in Scope[k] => i \in quiet[k]
      BY <2>1 DEF Peace, AllQuiet
    <3>2. CASE o # j
      BY <1>4, <3>1, <3>2
    <3>3. CASE o = j
      <4>1. ~Writing(i)
        <5>1. CASE raced'[i] # "raced"
          BY <1>3, <3>3, <5>1
        <5>2. CASE \E k \in Jobs : Working(k)' /\ i \in quiet'[k]
          BY <1>2, <1>4, <5>2 DEF Peace, NoWriter
        <5>3. QED
          BY <5>1, <5>2 DEF Calm
      <4>2. QED
        BY <1>2, <3>1, <3>3, <4>1
    <3>4. QED
      BY <3>2, <3>3
  <2>2. CASE ~Calm(i)
    <3>1. raced'[i] = "raced"
      BY <1>3, <2>2 DEF Calm
    <3>2. i \in quiet'[j]
      BY <1>4, <2>2, <3>1 DEF Calm
    <3>3. QED
      BY <1>2, <1>4, <3>2
  <2>3. QED
    BY <2>1, <2>2
<1>7. QED
  BY <1>5, <1>6 DEF Peace

\* What a run that fails leaves behind is calm for nobody.
LEMMA FailingKeepsPeace ==
  ASSUME Shape, Peace, NEW j \in Jobs, RunRaises(j) \/ RunCrashes(j)
  PROVE  Peace'
<1>1. TypeOK /\ Abort(j) /\ Drop(j) /\ UNCHANGED writing
  BY DEF Shape, RunRaises, RunCrashes
<1>2. \A o \in Jobs : quiet'[o] \subseteq quiet[o]
  BY <1>1, AbortFacts
<1>3. ~Working(j)' /\ \A o \in Jobs : o # j => (Working(o)' <=> Working(o))
  BY <1>1 DEF Drop, TypeOK, Working, Active, Started
<1>4. PICK left : /\ \A i \in Items : raced'[i] = IF i \in left THEN "raced" ELSE raced[i]
                  /\ \A o \in Jobs : o # j => quiet'[o] = quiet[o] \ left
                  /\ quiet'[j] = {}
  BY <1>1 DEF Abort, TypeOK
<1>5. NoWriter'
  BY <1>1, <1>2 DEF Peace, NoWriter, Writing, AtWork, writing
<1>6. ASSUME NEW i \in Items, Calm(i)' PROVE Calm(i) /\ i \notin left
  BY <1>3, <1>4, <1>6 DEF Calm
<1>7. AllQuiet'
  BY <1>3, <1>4, <1>6 DEF Peace, AllQuiet
<1>8. QED
  BY <1>5, <1>7 DEF Peace

LEMMA RunsKeepPeace ==
  ASSUME Shape, Peace, NEW j \in Jobs, RunStep(j)
  PROVE  Peace'
<1>1. TypeOK /\ UNCHANGED writing
  BY RunEffect DEF Shape
<1>2. \A o \in Jobs : o # j => (Working(o)' <=> Working(o))
  BY RunEffect DEF Working, Active
<1>3. CASE UNCHANGED ghosts /\ (Working(j)' <=> Working(j))
  <2>1. \A o \in Jobs : Working(o)' <=> Working(o)
    BY <1>2, <1>3
  <2>2. NoWriter'
    BY <1>1, <1>3 DEF Peace, NoWriter, Writing, AtWork, writing, ghosts
  <2>3. AllQuiet'
    BY <1>3, <2>1 DEF Peace, AllQuiet, Calm, ghosts
  <2>4. QED
    BY <2>2, <2>3 DEF Peace
<1>4. CASE Succeed(j)
  <2>1. UNCHANGED quiet /\ ~Working(j)' /\ Working(j)
    BY <1>1, <1>4 DEF Succeed, TypeOK, Working, Active, Started
  <2>2. \A i \in Items : Calm(i)' => Calm(i)
    BY <1>2, <1>4, <2>1 DEF Succeed, Calm
  <2>3. QED
    BY <1>1, <1>2, <2>1, <2>2 DEF Peace, NoWriter, AllQuiet, Writing, AtWork, writing
<1>5. CASE CloseRun(j)
  <2>1. UNCHANGED raced /\ ~Working(j)' /\ ~Working(j) /\ quiet' = [quiet EXCEPT ![j] = {}]
    BY <1>1, <1>5 DEF CloseRun, TypeOK, Working, Active, Started
  <2>2. \A i \in Items : Calm(i)' => Calm(i)
    BY <1>1, <1>2, <2>1 DEF TypeOK, Calm
  <2>3. QED
    BY <1>1, <1>2, <2>1, <2>2 DEF TypeOK, Peace, NoWriter, AllQuiet, Writing, AtWork, writing
<1>6. QED
  BY <1>3, <1>4, <1>5, OtherRunSteps, TakingKeepsPeace, FailingKeepsPeace

-----------------------------------------------------------------------------
(* What a run knows of an item that is quiet for it, from what it has read. *)

\* Any run: what it has chosen is live while its point is there, what it marks
\* has none, and what it announces is not live.
Knows(k, i) ==
  /\ i \in seen[k] /\ i \in points => Live(i)
  /\ jpc[k] = "mark" /\ i \in jtodo[k] => i \notin points
  /\ i \in jtell[k] => ~Live(i)

\* Thinning and expiry: a point that has been chosen goes with its collection.
KnowsErasing(k, i) ==
  /\ jpc[k] \in {"rows", "expire"} /\ i \in seen[k] => KindOf[i] \in visits[k]
  /\ jpc[k] = "erase" /\ i \in seen[k] /\ KindOf[i] \notin visits[k] => i \notin points

\* The orphans of this collection are no more.
Cleared(k, i) ==
  \/ KindOf[i] \notin visits[k] \cup stages[k]
  \/ (jpc[k] \in {"report", "mark"} /\ KindOf[i] \in First(visits[k]))

\* Reconciliation: what it has not chosen from the rows it has read is not
\* live, what it has listed as an orphan is one, what it misses is not there.
KnowsReconciling(k, i) ==
  /\ KindOf[i] \in visits[k] \ reads[k] /\ i \notin seen[k] => ~Live(i)
  /\ jpc[k] \in {"erase", "report"} /\ i \in jtodo[k] => ~Live(i)
  /\ jpc[k] \in {"erase", "report"} /\ i \in missing[k] => i \notin points
  /\ jpc[k] = "report" /\ i \in jtodo[k] => i \notin points
  /\ jpc[k] = "erase" /\ KindOf[i] \in First(visits[k]) /\ i \in points => i \in jtodo[k] \cup seen[k]
  /\ Cleared(k, i) /\ i \in points => i \in seen[k]

KnowsAll(k, i) ==
  /\ Knows(k, i)
  /\ Task[k] # "RECONCILE" => KnowsErasing(k, i)
  /\ Task[k] = "RECONCILE" => KnowsReconciling(k, i)

Facts == \A k \in Jobs : Working(k) => \A i \in quiet[k] : KnowsAll(k, i)

LEMMA WritersKeepFacts ==
  ASSUME Shape, Peace, Facts, NEW w \in Writers, WriterStep(w)
  PROVE  Facts'
<1> SUFFICES ASSUME NEW k \in Jobs, Working(k)', NEW i \in quiet'[k]
             PROVE  KnowsAll(k, i)'
  BY DEF Facts
<1>1. Shape'
  BY WritersKeepShape DEF WriterStep
<1>2. i \in Items /\ i \in quiet[k] /\ ~Raced(i)
  BY <1>1, WriterEffect DEF Raced, SameGhosts, Shape, TypeOK
<1>3. Active(k) /\ i \in Scope[k]
  BY <1>2 DEF Shape, QuietFrame
<1>4. i \notin Touches(w)
  BY <1>2, <1>3, WriterEffect
<1>5. UNCHANGED working /\ row'[i] = row[i] /\ (i \in points' <=> i \in points)
  BY <1>2, <1>4, WriterEffect
<1>6. Working(k) /\ KnowsAll(k, i)
  BY <1>2, <1>5 DEF Facts, Working, Active, working
<1>7. QED
  BY <1>5, <1>6 DEF KnowsAll, Knows, KnowsErasing, KnowsReconciling, Cleared, Live, working, reading

\* A row stops being live by the hand of a run that has taken the point before.
LEMMA LiveLost ==
  ASSUME Shape, NEW j \in Jobs, RunStep(j), NEW i \in Items, Live(i), ~Live(i)'
  PROVE  MarkGone(j, i)
<1>1. TypeOK
  BY DEF Shape
<1>2. ASSUME UNCHANGED row PROVE FALSE
  BY <1>2 DEF Live
<1>3. ASSUME NEW m \in Items, MarkExpired(j, m) PROVE FALSE
  BY <1>1, <1>3 DEF MarkExpired, TypeOK, Live
<1>4. ASSUME NEW m \in Items, MarkGone(j, m) PROVE m = i
  BY <1>1, <1>4 DEF MarkGone, TypeOK, Live
<1>5. \/ UNCHANGED row
      \/ \E m \in Items : MarkExpired(j, m) \/ MarkGone(j, m)
  BY DEF RunStep, RunSteps, BeginRun, AppendRun, TakeRun, ReadRows, ExpiredAll, EraseChosen, ErasedAll, TellDeleted,
         ListPoints, EraseOrphans, OrphansReported, NextCollection, NextStage, AllDone, Succeed, CloseRun,
         RunRaises, RunCrashes, plane
<1>6. QED
  BY <1>2, <1>3, <1>4, <1>5

LEMMA PointStaysLive ==
  ASSUME Shape, Peace, Facts, NEW j \in Jobs, RunStep(j), NEW i \in Items, Calm(i), i \in points, Live(i)
  PROVE  Live(i)'
<1> SUFFICES ASSUME ~Live(i)' PROVE FALSE
  OBVIOUS
<1>1. MarkGone(j, i)
  BY LiveLost
<1>2. jpc[j] = "mark" /\ i \in jtodo[j]
  BY <1>1, FirstFacts DEF MarkGone
<1>3. Working(j) /\ i \in Scope[j]
  BY <1>2 DEF Working, Active, Started, Shape, RunFrame
<1>4. i \in quiet[j]
  BY <1>3 DEF Peace, AllQuiet
<1>5. QED
  BY <1>2, <1>3, <1>4 DEF Facts, KnowsAll, Knows

\* So what a run knows stays true whatever other runs do.
LEMMA OthersKeepFacts ==
  ASSUME Shape, Peace, Facts, NEW j \in Jobs, RunStep(j),
         NEW k \in Jobs, k # j, Working(k)', NEW i \in quiet'[k]
  PROVE  KnowsAll(k, i)'
<1>1. /\ jpc'[k] = jpc[k] /\ reads'[k] = reads[k] /\ visits'[k] = visits[k] /\ stages'[k] = stages[k]
      /\ seen'[k] = seen[k] /\ jtodo'[k] = jtodo[k] /\ missing'[k] = missing[k] /\ jtell'[k] = jtell[k]
      /\ i \in quiet[k] /\ points' \subseteq points
  BY RunEffect
<1>2. i \in Items
  BY <1>1 DEF Shape, TypeOK
<1>3. Working(k) /\ KnowsAll(k, i)
  BY <1>1 DEF Facts, Working, Active
<1>4. (Live(i)' => Live(i)) /\ (i \in points /\ Live(i) => Live(i)')
  BY <1>1, <1>2, <1>3, RunEffect, PointStaysLive DEF Calm
<1>5. QED
  BY <1>1, <1>3, <1>4 DEF KnowsAll, Knows, KnowsErasing, KnowsReconciling, Cleared

\* A run that has just been taken has read nothing and has everything before it.
LEMMA TakenKnows ==
  ASSUME Shape, NEW j \in Jobs, TakeRun(j), NEW i \in quiet'[j]
  PROVE  KnowsAll(j, i)'
<1>1. TypeOK /\ RunFrame(j)
  BY DEF Shape
<1>2. seen'[j] = {} /\ jtodo'[j] = {} /\ missing'[j] = {} /\ jtell'[j] = {}
  BY <1>1 DEF TakeRun, RunFrame, Unread
<1>3. jpc'[j] \in {"rows", "expire", "erase", "list"}
  BY <1>1, AfterRowsFacts DEF TakeRun, TypeOK
<1>4. KindOf[i] \in visits'[j] \cup stages'[j] /\ visits'[j] = reads'[j]
  <2>1. i \in Items /\ KindOf[i] \in Kinds[j]
    BY <1>1, ScopeFacts DEF TakeRun, TypeOK
  <2>2. QED
    BY <1>1, <2>1, FirstFacts DEF TakeRun, TypeOK
<1>5. ~Cleared(j, i)'
  BY <1>3, <1>4 DEF Cleared
<1>6. jpc'[j] = "erase" => Task[j] # "RECONCILE"
  BY <1>1, AfterRowsFacts DEF TakeRun, TypeOK
<1>7. QED
  BY <1>2, <1>3, <1>4, <1>5, <1>6 DEF KnowsAll, Knows, KnowsErasing, KnowsReconciling

\* A run that reads chooses live rows of the kinds it reads, and a
\* reconciliation all of them.
LEMMA ReadingKnows ==
  ASSUME Shape, NEW j \in Jobs, ReadRows(j), NEW i \in Items, KnowsAll(j, i)
  PROVE  KnowsAll(j, i)'
<1>1. TypeOK /\ RunFrame(j) /\ KindFrame(j)
  BY DEF Shape
<1>2. PICK chosen \in Selections(j, First(reads[j])) : seen'[j] = seen[j] \cup chosen
  BY <1>1 DEF ReadRows, TypeOK
<1>3. /\ i \in chosen => Live(i) /\ KindOf[i] \in First(reads[j])
      /\ Task[j] = "RECONCILE" /\ KindOf[i] \in First(reads[j]) /\ Live(i) => i \in chosen
  BY <1>2, SelectionFacts
<1>4. /\ reads'[j] = reads[j] \ First(reads[j])
      /\ First(reads[j]) \subseteq visits[j]
      /\ jpc[j] = "rows" /\ jpc'[j] \in {"rows", AfterRows(j)}
      /\ jtell'[j] = {}
      /\ UNCHANGED <<row, points, visits, stages, missing>>
  BY <1>1, FirstFacts DEF ReadRows, TypeOK, RunFrame, KindFrame, plane
<1>5. /\ jpc'[j] \in {"rows", "expire", "erase", "list"}
      /\ jpc'[j] = "erase" => Task[j] # "RECONCILE"
      /\ Live(i)' = Live(i)
  BY <1>4, AfterRowsFacts DEF Live
<1>6. Knows(j, i)'
  BY <1>2, <1>3, <1>4, <1>5 DEF KnowsAll, Knows
<1>7. ASSUME Task[j] # "RECONCILE" PROVE KnowsErasing(j, i)'
  BY <1>2, <1>3, <1>4, <1>5, <1>7 DEF KnowsAll, KnowsErasing
<1>8. ASSUME Task[j] = "RECONCILE" PROVE KnowsReconciling(j, i)'
  BY <1>2, <1>3, <1>4, <1>5, <1>8 DEF KnowsAll, KnowsReconciling, Cleared
<1>9. QED
  BY <1>6, <1>7, <1>8 DEF KnowsAll

\* Thinning and expiry from the rows to the announcements.
LEMMA ErasingKnows ==
  ASSUME Shape, NEW j \in Jobs, NEW i \in Items, KnowsAll(j, i),
         \/ ExpiredAll(j) \/ EraseChosen(j) \/ ErasedAll(j)
         \/ \E m \in Items : MarkExpired(j, m)
  PROVE  KnowsAll(j, i)'
<1>1. TypeOK /\ RunFrame(j) /\ KindFrame(j)
  BY DEF Shape
<1>2. Task[j] # "RECONCILE"
  BY <1>1 DEF KindFrame, ExpiredAll, EraseChosen, ErasedAll, MarkExpired
<1>3. CASE ExpiredAll(j)
  BY <1>1, <1>2, <1>3 DEF ExpiredAll, LoopDone, TypeOK, plane, reading, KnowsAll, Knows, KnowsErasing, Live
<1>4. CASE EraseChosen(j)
  <2>1. /\ points' = points \ (seen[j] \cap OfKinds(First(visits[j])))
        /\ visits'[j] = visits[j] \ First(visits[j])
        /\ jpc'[j] = "erase" /\ jpc[j] = "erase" /\ jtell'[j] = {}
        /\ UNCHANGED <<row, seen>>
    BY <1>1, <1>4 DEF EraseChosen, TypeOK, RunFrame
  <2>2. QED
    BY <1>2, <2>1 DEF KnowsAll, Knows, KnowsErasing, Live, OfKinds
<1>5. CASE ErasedAll(j)
  BY <1>1, <1>2, <1>5 DEF ErasedAll, TypeOK, RunFrame, plane, reading, KnowsAll, Knows, KnowsErasing, Live
<1>6. ASSUME NEW m \in Items, MarkExpired(j, m) PROVE KnowsAll(j, i)'
  <2>1. Live(i)' = Live(i)
    BY <1>1, <1>6 DEF MarkExpired, TypeOK, Live
  <2>2. QED
    BY <1>1, <1>2, <1>6, <2>1 DEF MarkExpired, TypeOK, reading, KnowsAll, Knows, KnowsErasing
<1>7. QED
  BY <1>3, <1>4, <1>5, <1>6

\* The marks and the announcements of all tasks.
LEMMA MarkingKnows ==
  ASSUME Shape, NEW j \in Jobs, NEW i \in Items, KnowsAll(j, i),
         \E m \in Items : MarkGone(j, m) \/ TellDeleted(j, m)
  PROVE  KnowsAll(j, i)'
<1>1. TypeOK /\ RunFrame(j) /\ KindFrame(j) /\ Leases
  BY DEF Shape
<1>2. ASSUME NEW m \in Items, MarkGone(j, m) PROVE KnowsAll(j, i)'
  <2>1. /\ jpc[j] = "mark" /\ m \in jtodo[j] /\ jtell'[j] = {m}
        /\ UNCHANGED <<points, jpc, reads, visits, stages, seen, jtodo, missing>>
    BY <1>1, <1>2, FirstFacts DEF MarkGone, TypeOK, reading
  <2>2. Live(i)' => Live(i)
    BY <1>1, <1>2 DEF MarkGone, Gone, TypeOK, Live
  <2>3. i = m => ~Live(i)'
    BY <1>1, <1>2 DEF MarkGone, Gone, TypeOK, Live, Leases, LeaseStates
  <2>4. i # m => Live(i)' = Live(i)
    BY <1>1, <1>2 DEF MarkGone, TypeOK, Live
  <2>5. QED
    BY <2>1, <2>2, <2>3, <2>4 DEF KnowsAll, Knows, KnowsErasing, KnowsReconciling, Cleared
<1>3. ASSUME NEW m \in Items, TellDeleted(j, m) PROVE KnowsAll(j, i)'
  <2>1. /\ jtell'[j] = {} /\ jtodo'[j] = jtodo[j] \ {m}
        /\ UNCHANGED <<row, points, jpc, reads, visits, stages, seen, missing>>
    BY <1>1, <1>3 DEF TellDeleted, TypeOK, reading
  <2>2. jpc[j] \in {"mark", "report"} /\ Live(i)' = Live(i)
    BY <1>3, <2>1 DEF TellDeleted, Live
  <2>3. QED
    BY <2>1, <2>2 DEF KnowsAll, Knows, KnowsErasing, KnowsReconciling, Cleared
<1>4. QED
  BY <1>2, <1>3

\* Reconciliation, a collection at a time.
LEMMA ReconcilingKnows ==
  ASSUME Shape, NEW j \in Jobs, NEW i \in Items, KnowsAll(j, i),
         \/ ListPoints(j) \/ EraseOrphans(j) \/ OrphansReported(j)
         \/ NextCollection(j) \/ NextStage(j) \/ AllDone(j)
  PROVE  KnowsAll(j, i)'
<1>1. TypeOK /\ RunFrame(j) /\ KindFrame(j)
  BY DEF Shape
<1>2. Live(i)' = Live(i)
  BY DEF ListPoints, EraseOrphans, OrphansReported, NextCollection, NextStage, AllDone, plane, Live
<1>3. CASE ListPoints(j)
  <2>1. /\ jpc[j] = "list" /\ jpc'[j] = "erase" /\ Task[j] = "RECONCILE" /\ reads[j] = {} /\ jtell'[j] = {}
        /\ jtodo'[j] = (points \cap OfKinds(First(visits[j]))) \ seen[j]
        /\ missing'[j] = (seen[j] \cap OfKinds(First(visits[j]))) \ points
        /\ First(visits[j]) \subseteq visits[j]
        /\ UNCHANGED <<points, reads, visits, stages, seen>>
    BY <1>1, <1>3, FirstFacts DEF ListPoints, TypeOK, RunFrame, KindFrame, plane, reading
  <2>2. QED
    BY <1>2, <2>1 DEF OfKinds, KnowsAll, Knows, KnowsReconciling, Cleared
<1>4. CASE EraseOrphans(j)
  <2>1. /\ jpc[j] = "erase" /\ jpc'[j] = "report" /\ Task[j] = "RECONCILE"
        /\ points' = points \ jtodo[j]
        /\ UNCHANGED <<reads, visits, stages, seen, jtodo, missing, jtell>>
    BY <1>1, <1>4 DEF EraseOrphans, TypeOK, reading
  <2>2. QED
    BY <1>2, <2>1 DEF KnowsAll, Knows, KnowsReconciling, Cleared
<1>5. CASE OrphansReported(j)
  <2>1. /\ jpc[j] = "report" /\ jpc'[j] = "mark" /\ Task[j] = "RECONCILE"
        /\ jtodo'[j] = missing[j] /\ missing'[j] = {}
        /\ UNCHANGED <<points, reads, visits, stages, seen, jtell>>
    BY <1>1, <1>5 DEF OrphansReported, TypeOK, KindFrame, plane, reading
  <2>2. QED
    BY <1>2, <2>1 DEF KnowsAll, Knows, KnowsReconciling, Cleared
<1>6. CASE NextCollection(j)
  <2>1. /\ jpc[j] = "mark" /\ jpc'[j] = "list" /\ Task[j] = "RECONCILE"
        /\ visits'[j] = visits[j] \ First(visits[j])
        /\ UNCHANGED <<points, reads, stages, seen, jtodo, missing, jtell>>
    BY <1>1, <1>6 DEF NextCollection, TypeOK, plane
  <2>2. QED
    BY <1>2, <2>1 DEF KnowsAll, Knows, KnowsReconciling, Cleared
<1>7. CASE NextStage(j)
  <2>1. /\ jpc[j] = "list" /\ jpc'[j] = "rows" /\ Task[j] = "RECONCILE" /\ visits[j] = {}
        /\ reads'[j] = visits'[j] /\ visits'[j] \cup stages'[j] = stages[j]
        /\ UNCHANGED <<points, seen, jtodo, missing, jtell>>
    BY <1>1, <1>7, FirstFacts DEF NextStage, TypeOK, KindFrame, plane
  <2>2. QED
    BY <1>2, <2>1 DEF KnowsAll, Knows, KnowsReconciling, Cleared
<1>8. CASE AllDone(j)
  <2>1. /\ jpc[j] \in {"list", "mark"} /\ jpc'[j] = "succeed"
        /\ jpc[j] = "mark" => Task[j] # "RECONCILE"
        /\ UNCHANGED <<points, reads, visits, stages, seen, jtodo, missing, jtell>>
    BY <1>1, <1>8 DEF AllDone, TypeOK, plane, reading
  <2>2. QED
    BY <1>2, <2>1 DEF KnowsAll, Knows, KnowsErasing, KnowsReconciling, Cleared
<1>9. QED
  BY <1>3, <1>4, <1>5, <1>6, <1>7, <1>8

LEMMA RunsKeepFacts ==
  ASSUME Shape, Peace, Facts, NEW j \in Jobs, RunStep(j)
  PROVE  Facts'
<1> SUFFICES ASSUME NEW k \in Jobs, Working(k)', NEW i \in quiet'[k]
             PROVE  KnowsAll(k, i)'
  BY DEF Facts
<1>1. TypeOK
  BY DEF Shape
<1>2. CASE k # j
  BY <1>2, OthersKeepFacts
<1>3. CASE k = j /\ TakeRun(j)
  BY <1>3, TakenKnows
<1>4. CASE k = j /\ ~TakeRun(j)
  <2>1. ~Succeed(j) /\ ~CloseRun(j) /\ ~RunRaises(j) /\ ~RunCrashes(j)
    BY <1>1, <1>4 DEF Succeed, CloseRun, RunRaises, RunCrashes, Drop, Working, Active, Started, TypeOK
  <2>2. Working(j) /\ i \in quiet[j]
    BY <1>4, <2>1, OtherRunSteps DEF ghosts
  <2>3. i \in Items /\ KnowsAll(j, i)
    BY <1>1, <2>2 DEF Facts, TypeOK
  <2>4. ~BeginRun(j) /\ ~AppendRun(j)
    BY <2>2 DEF BeginRun, AppendRun, Working, Active, Started
  <2>5. QED
    BY <1>4, <2>1, <2>3, <2>4, ReadingKnows, ErasingKnows, MarkingKnows, ReconcilingKnows DEF RunStep, RunSteps
<1>5. QED
  BY <1>2, <1>3, <1>4

-----------------------------------------------------------------------------
(* What is in order.  A live row whose point has gone is owed: some run has *)
(* it in hand and will mark it.  A point whose row is not live, or that has *)
(* not been announced, has a writer that is still to come to it.  And what  *)
(* a builder has read of a row is what the row says.                        *)

OwedBy(o, i) ==
  \/ jpc[o] = "mark" /\ i \in jtodo[o]
  \/ jpc[o] = "erase" /\ Task[o] # "RECONCILE" /\ i \in seen[o]
  \/ jpc[o] \in {"erase", "report"} /\ Task[o] = "RECONCILE" /\ i \in missing[o]
Owed(i) == \E o \in Jobs : OwedBy(o, i)

\* A reconciliation has listed the collection of the item, in peace.
Listed(k, i) ==
  /\ Working(k) /\ i \in quiet[k] /\ Task[k] = "RECONCILE"
  /\ \/ KindOf[i] \notin visits[k] \cup stages[k]
     \/ (jpc[k] \in {"erase", "report", "mark"} /\ KindOf[i] \in First(visits[k]))
Settled(i) == raced[i] # "raced" \/ (\E k \in Jobs : Listed(k, i))

\* A writer that will write the item's row beside its point.
ToWrite(w, i) ==
  \/ wpc[w] = "saved" /\ i \in Writes[w]
  \/ wpc[w] = "write" /\ i \in wtodo[w] /\ i \notin wtell[w]

PointFirst(i) == raced[i] # "raced" /\ i \in points /\ ~Live(i) => \E w \in Writers : ToWrite(w, i)
PointOwed(i) == Settled(i) /\ i \notin points /\ Live(i) => Owed(i)
NewsOwed(i) == raced[i] = "never" /\ i \notin points /\ said[i] = "UPSERTED" => Owed(i)
NewsToCome(i) ==
  raced[i] = "never" /\ i \in points /\ said[i] # "UPSERTED" =>
    \E w \in Writers : wpc[w] = "write" /\ i \in wtodo[w]
Upserted(w, i) == wpc[w] = "write" /\ i \in Writes[w]
WriterHasPoint(i) == raced[i] # "raced" /\ (\E w \in Writers : Upserted(w, i)) => i \in points
HeldIsTrue(i) == \A w \in Writers : raced[i] # "raced" /\ Holding(w, i) => held[w][i] = row[i]

InOrder(i) ==
  /\ PointFirst(i) /\ PointOwed(i) /\ NewsOwed(i) /\ NewsToCome(i)
  /\ WriterHasPoint(i) /\ HeldIsTrue(i)
Order == \A i \in Items : InOrder(i)

\* A run that owes is at work on the item.
LEMMA OwingWorks ==
  ASSUME Shape, NEW o \in Jobs, NEW i \in Items, OwedBy(o, i)
  PROVE  Working(o) /\ Active(o) /\ i \in Scope[o]
BY DEF Shape, RunFrame, OwedBy, Working, Active, Started

\* The item of a writer that no run is at, and that saves its row: a builder
\* saves what it says, a promotion comes back to it.
LEMMA SaverItemInOrder ==
  ASSUME Shape, Order, NEW w \in Writers, Look(w) \/ SaveRow(w), NEW i \in Touches(w),
         \A j \in Jobs : Active(j) => i \notin Scope[j], SameGhosts(i),
         \A v \in Writers : Holding(v, i) /\ Holding(v, i)' => row'[i] = row[i]
  PROVE  InOrder(i)'
<1>1. TypeOK /\ i \in Items /\ InOrder(i)
  BY WriterAssumption DEF Shape, Order, Touches
<1>2. Shape' /\ UNCHANGED working /\ UNCHANGED <<points, said, wtodo, wtell>>
  BY WritersKeepShape, WriterEffect DEF WriterStep, WriterSteps, Look, SaveRow, plane
<1>3. Settled(i)' => raced[i] # "raced"
  <2>1. \A k \in Jobs : ~Listed(k, i)'
    BY <1>1, <1>2 DEF Listed, Working, Active, working, SameGhosts, Shape, QuietFrame
  <2>2. QED
    BY <2>1 DEF Settled, SameGhosts
<1>4. Owed(i)' = Owed(i)
  BY <1>2 DEF Owed, OwedBy, working, reading
<1>5. \A v \in Writers : v # w => wpc'[v] = wpc[v] /\ held'[v] = held[v]
  BY WriterEffect DEF WriterStep, WriterSteps
<1>6. wpc[w] \in {"idle", "look"} /\ wpc'[w] \in {"look", "saved", "done"}
  BY <1>1 DEF Look, SaveRow, TypeOK
<1>7. NewsOwed(i)' /\ NewsToCome(i)' /\ WriterHasPoint(i)'
  BY <1>1, <1>2, <1>4, <1>5, <1>6
     DEF InOrder, NewsOwed, NewsToCome, WriterHasPoint, Upserted, SameGhosts
<1>8. CASE Look(w)
  <2>1. UNCHANGED row /\ wpc[w] = "idle" /\ wpc'[w] = "look"
    BY <1>1, <1>8 DEF Look, plane, TypeOK
  <2>2. PointFirst(i)'
    BY <1>1, <1>2, <1>5, <2>1 DEF InOrder, PointFirst, ToWrite, Live, SameGhosts
  <2>3. PointOwed(i)'
    BY <1>1, <1>2, <1>3, <1>4, <2>1 DEF InOrder, PointOwed, Settled, Live
  <2>4. HeldIsTrue(i)'
    <3>1. i \in Saves[w] => held'[w][i] = row[i]
      BY <1>1, <1>8 DEF Look, TypeOK
    <3>2. QED
      BY <1>1, <1>5, <2>1, <3>1 DEF InOrder, HeldIsTrue, Holding, SameGhosts
  <2>5. QED
    BY <1>7, <2>2, <2>3, <2>4 DEF InOrder
<1>9. CASE SaveRow(w)
  <2>1. /\ wpc[w] = "look"
        /\ row'[i] = IF i \in Saves[w] THEN Saved(w, i) ELSE row[i]
        /\ wpc'[w] = IF Writes[w] = {} THEN "done" ELSE "saved"
    BY <1>1, <1>9 DEF SaveRow, TypeOK
  <2>2. i \in Saves[w] /\ KindOf[i] = "local_summary" /\ raced[i] # "raced" => row'[i] = row[i]
    BY <1>1, <2>1 DEF InOrder, HeldIsTrue, Holding, Saved
  <2>3. i \in Saves[w] /\ KindOf[i] # "local_summary" =>
          i \in Writes[w] /\ wpc'[w] = "saved" /\ row'[i] \in {row[i], "NONE"}
    BY <1>1, <2>1, WriterAssumption DEF Saved, OfKind
  <2>4. raced[i] # "raced" =>
          \/ row'[i] = row[i]
          \/ ToWrite(w, i)' /\ ~Live(i)'
    BY <2>1, <2>2, <2>3 DEF ToWrite, Live
  <2>5. \A v \in Writers : ToWrite(v, i) => ToWrite(v, i)'
    BY <1>2, <1>5, <2>1 DEF ToWrite
  <2>6. PointFirst(i)'
    BY <1>1, <1>2, <2>4, <2>5 DEF InOrder, PointFirst, Live, SameGhosts
  <2>7. PointOwed(i)'
    BY <1>1, <1>2, <1>3, <1>4, <2>4 DEF InOrder, PointOwed, Settled, Live
  <2>8. HeldIsTrue(i)'
    <3>1. \A v \in Writers : Holding(v, i)' => v # w /\ Holding(v, i)
      BY <1>5, <2>1 DEF Holding
    <3>2. QED
      BY <1>1, <1>5, <3>1 DEF InOrder, HeldIsTrue, SameGhosts
  <2>9. QED
    BY <1>7, <2>6, <2>7, <2>8 DEF InOrder
<1>10. QED
  BY <1>8, <1>9

\* The item of a writer that no run is at: all is in the hands of the writers.
LEMMA WriterItemInOrder ==
  ASSUME Shape, Order, NEW w \in Writers, WriterSteps(w), NEW i \in Touches(w),
         \A j \in Jobs : Active(j) => i \notin Scope[j], SameGhosts(i),
         \A v \in Writers : Holding(v, i) /\ Holding(v, i)' => row'[i] = row[i]
  PROVE  InOrder(i)'
<1>1. TypeOK /\ i \in Items /\ WriterFrame(w) /\ InOrder(i)
  BY WriterAssumption DEF Shape, Order, Touches
<1>2. Shape' /\ UNCHANGED working
  BY WritersKeepShape, WriterEffect DEF WriterStep
<1>3. \A k \in Jobs : ~Listed(k, i)'
  BY <1>1, <1>2 DEF Listed, Working, Active, working, SameGhosts, Shape, QuietFrame
<1>4. Settled(i)' => raced[i] # "raced"
  BY <1>3 DEF Settled, SameGhosts
<1>5. CASE Look(w) \/ SaveRow(w)
  BY <1>5, SaverItemInOrder
<1>6. CASE UpsertPoints(w)
  <2>1. /\ points' = points \cup Writes[w] /\ wpc[w] # "write" /\ wpc'[w] = "write" /\ wpc[w] # "look"
        /\ wtodo'[w] = Writes[w] /\ wtell'[w] = {}
        /\ \A v \in Writers : v # w => wpc'[v] = wpc[v] /\ wtodo'[v] = wtodo[v]
        /\ UNCHANGED <<row, said, wtell, held>>
    BY <1>1, <1>6 DEF UpsertPoints, TypeOK, WriterFrame
  <2>2. HeldIsTrue(i)'
    BY <1>1, <2>1 DEF InOrder, HeldIsTrue, Holding, SameGhosts
  <2>3. CASE i \in Writes[w]
    BY <2>1, <2>2, <2>3
       DEF InOrder, PointFirst, ToWrite, PointOwed, NewsOwed, NewsToCome, WriterHasPoint
  <2>4. CASE i \notin Writes[w]
    <3>1. Owed(i)' = Owed(i) /\ (i \in points' <=> i \in points) /\ Live(i)' = Live(i)
      BY <1>2, <2>1, <2>4 DEF Owed, OwedBy, Live, working, reading
    <3>2. \A v \in Writers : (ToWrite(v, i) => ToWrite(v, i)') /\ (Upserted(v, i)' => Upserted(v, i))
      BY <2>1, <2>4 DEF ToWrite, Upserted
    <3>3. PointFirst(i)' /\ WriterHasPoint(i)'
      BY <1>1, <3>1, <3>2 DEF InOrder, PointFirst, WriterHasPoint, SameGhosts
    <3>4. PointOwed(i)' /\ NewsOwed(i)'
      BY <1>1, <1>4, <2>1, <3>1 DEF InOrder, PointOwed, NewsOwed, Settled, SameGhosts
    <3>5. NewsToCome(i)'
      BY <1>1, <2>1, <3>1 DEF InOrder, NewsToCome, SameGhosts
    <3>6. QED
      BY <2>2, <3>3, <3>4, <3>5 DEF InOrder
  <2>5. QED
    BY <2>3, <2>4
<1>7. ASSUME NEW m \in Items, IndexRow(w, m) \/ RegisterLease(w, m) PROVE InOrder(i)'
  <2>1. /\ wpc[w] = "write" /\ m \in wtodo[w]
        /\ wtell' = [wtell EXCEPT ![w] = {m}]
        /\ UNCHANGED <<points, said, wpc, wtodo, held>>
    BY <1>7 DEF IndexRow, RegisterLease, WriteRow
  <2>2. raced[i] # "raced" /\ i \in Writes[w] => i \in points
    BY <1>1, <2>1 DEF InOrder, WriterHasPoint, Upserted
  <2>3. i = m => Live(i)' /\ i \in Writes[w]
    BY <1>1, <1>7, <2>1 DEF IndexRow, RegisterLease, SaveLease, WriteRow, WriterFrame, TypeOK, Live
  <2>4. i # m => Live(i)' = Live(i)
    BY <1>1, <1>7 DEF IndexRow, RegisterLease, SaveLease, WriteRow, TypeOK, Live
  <2>5. Owed(i)' = Owed(i)
    BY <1>2 DEF Owed, OwedBy, working, reading
  <2>6. PointFirst(i)'
    BY <1>1, <2>1, <2>3, <2>4 DEF InOrder, PointFirst, ToWrite, SameGhosts, TypeOK
  <2>7. PointOwed(i)' /\ NewsOwed(i)'
    BY <1>1, <1>4, <2>1, <2>2, <2>3, <2>4, <2>5 DEF InOrder, PointOwed, NewsOwed, Settled, SameGhosts
  <2>8. NewsToCome(i)' /\ WriterHasPoint(i)'
    BY <1>1, <2>1 DEF InOrder, NewsToCome, WriterHasPoint, Upserted, SameGhosts
  <2>9. HeldIsTrue(i)'
    BY <1>1, <2>1 DEF InOrder, HeldIsTrue, Holding, SameGhosts
  <2>10. QED
    BY <2>6, <2>7, <2>8, <2>9 DEF InOrder
<1>8. ASSUME NEW m \in Items, TellUpserted(w, m) PROVE InOrder(i)'
  <2>1. /\ wpc[w] = "write" /\ m \in wtell[w]
        /\ said' = [said EXCEPT ![m] = "UPSERTED"]
        /\ \A v \in Writers : v # w => wpc'[v] = wpc[v] /\ wtodo'[v] = wtodo[v] /\ wtell'[v] = wtell[v]
        /\ wtell'[w] = {} /\ wtodo'[w] = wtodo[w] \ {m}
        /\ wtodo'[w] # {} => wpc'[w] = "write"
        /\ wpc'[w] \in {"write", "done"}
        /\ UNCHANGED <<row, points, held>>
    BY <1>1, <1>8 DEF TellUpserted, TypeOK
  <2>2. raced[i] # "raced" /\ i \in Writes[w] => i \in points
    BY <1>1, <2>1 DEF InOrder, WriterHasPoint, Upserted
  <2>3. Live(i)' = Live(i) /\ Owed(i)' = Owed(i)
    BY <1>2, <2>1 DEF Live, Owed, OwedBy, working, reading
  <2>4. PointFirst(i)'
    <3>1. SUFFICES ASSUME raced[i] # "raced", i \in points, ~Live(i)
                   PROVE  \E v \in Writers : ToWrite(v, i)'
      BY <2>1, <2>3 DEF PointFirst, SameGhosts
    <3>2. PICK v \in Writers : ToWrite(v, i)
      BY <1>1, <3>1 DEF InOrder, PointFirst
    <3>3. CASE v # w
      BY <2>1, <3>2, <3>3 DEF ToWrite
    <3>4. CASE v = w
      BY <2>1, <3>2, <3>4 DEF ToWrite
    <3>5. QED
      BY <3>3, <3>4
  <2>5. PointOwed(i)'
    BY <1>1, <1>4, <2>1, <2>3 DEF InOrder, PointOwed, Settled
  <2>6. NewsOwed(i)'
    <3>1. i # m => said'[i] = said[i]
      BY <1>1, <2>1 DEF TypeOK
    <3>2. i = m => i \in Writes[w]
      BY <1>1, <2>1 DEF WriterFrame
    <3>3. QED
      BY <1>1, <2>1, <2>2, <2>3, <3>1, <3>2 DEF InOrder, NewsOwed, SameGhosts
  <2>7. NewsToCome(i)'
    <3>1. SUFFICES ASSUME raced[i] = "never", i \in points, said'[i] # "UPSERTED"
                   PROVE  \E v \in Writers : wpc'[v] = "write" /\ i \in wtodo'[v]
      BY <2>1 DEF NewsToCome, SameGhosts
    <3>2. i # m /\ said[i] # "UPSERTED"
      BY <1>1, <2>1, <3>1 DEF TypeOK
    <3>3. PICK v \in Writers : wpc[v] = "write" /\ i \in wtodo[v]
      BY <1>1, <3>1, <3>2 DEF InOrder, NewsToCome
    <3>4. CASE v # w
      BY <2>1, <3>3, <3>4
    <3>5. CASE v = w
      BY <2>1, <3>2, <3>3, <3>5
    <3>6. QED
      BY <3>4, <3>5
  <2>8. WriterHasPoint(i)' /\ HeldIsTrue(i)'
    BY <1>1, <2>1 DEF InOrder, WriterHasPoint, Upserted, HeldIsTrue, Holding, SameGhosts
  <2>9. QED
    BY <2>4, <2>5, <2>6, <2>7, <2>8 DEF InOrder
<1>9. QED
  BY <1>5, <1>6, <1>7, <1>8 DEF WriterSteps

LEMMA WritersKeepOrder ==
  ASSUME Shape, Order, NEW w \in Writers, WriterStep(w)
  PROVE  Order'
<1> SUFFICES ASSUME NEW i \in Items PROVE InOrder(i)'
  BY DEF Order
<1>1. UNCHANGED working
  BY WriterEffect
<1>2. CASE Raced(i)
  BY <1>2 DEF Raced, InOrder, PointFirst, PointOwed, NewsOwed, NewsToCome, WriterHasPoint, HeldIsTrue, Settled, Listed
<1>3. CASE SameGhosts(i) /\ ~Raced(i) /\ i \in Touches(w)
  <2>1. ~WriterFails(w) /\ \A j \in Jobs : Active(j) => i \notin Scope[j]
    BY <1>3, WriterEffect
  <2>2. \A v \in Writers : Holding(v, i) /\ Holding(v, i)' => row'[i] = row[i]
    BY <1>3, WriterEffect
  <2>3. QED
    BY <1>3, <2>1, <2>2, WriterItemInOrder DEF WriterStep
<1>4. CASE SameGhosts(i) /\ i \notin Touches(w)
  <2>1. row'[i] = row[i] /\ (i \in points' <=> i \in points) /\ said'[i] = said[i]
    BY <1>4, WriterEffect
  <2>2. \A v \in Writers : i \in Touches(v) =>
          v # w /\ wpc'[v] = wpc[v] /\ wtodo'[v] = wtodo[v] /\ wtell'[v] = wtell[v] /\ held'[v] = held[v]
    BY <1>4, WriterEffect
  <2>3. \A v \in Writers : (i \in wtodo[v] => i \in Touches(v)) /\ (i \in Saves[v] \cup Writes[v] => i \in Touches(v))
    BY DEF Shape, WriterFrame, Touches
  <2>4. \A v \in Writers :
          /\ ToWrite(v, i) => ToWrite(v, i)'
          /\ Upserted(v, i)' => Upserted(v, i)
          /\ Holding(v, i)' => Holding(v, i) /\ held'[v] = held[v]
          /\ wpc[v] = "write" /\ i \in wtodo[v] => wpc'[v] = "write" /\ i \in wtodo'[v]
    BY <2>2, <2>3 DEF ToWrite, Upserted, Holding
  <2>5. Live(i)' = Live(i) /\ Owed(i)' = Owed(i) /\ Settled(i)' = Settled(i)
    BY <1>1, <1>4, <2>1 DEF Live, Owed, OwedBy, Settled, Listed, Working, Active, SameGhosts, working, reading
  <2>6. InOrder(i)
    BY DEF Order
  <2>7. PointFirst(i)' /\ PointOwed(i)' /\ NewsOwed(i)'
    BY <1>4, <2>1, <2>4, <2>5, <2>6 DEF InOrder, PointFirst, PointOwed, NewsOwed, SameGhosts
  <2>8. NewsToCome(i)' /\ WriterHasPoint(i)' /\ HeldIsTrue(i)'
    BY <1>4, <2>1, <2>4, <2>6 DEF InOrder, NewsToCome, WriterHasPoint, HeldIsTrue, SameGhosts
  <2>9. QED
    BY <2>7, <2>8 DEF InOrder
<1>5. QED
  BY <1>2, <1>3, <1>4, WriterEffect

-----------------------------------------------------------------------------
(* What a step of a run can do to an item.                                  *)

\* A point goes when it has been chosen or is an orphan.
LEMMA PointTaken ==
  ASSUME Shape, NEW j \in Jobs, RunStep(j), NEW i \in Items, i \in points, i \notin points'
  PROVE  \/ EraseChosen(j) /\ i \in seen[j]
         \/ EraseOrphans(j) /\ i \in jtodo[j]
<1>1. UNCHANGED points \/ EraseChosen(j) \/ EraseOrphans(j)
  BY DEF RunStep, RunSteps, BeginRun, AppendRun, TakeRun, ReadRows, ExpiredAll, EraseChosen, ErasedAll,
         MarkExpired, MarkGone, TellDeleted, ListPoints, EraseOrphans, OrphansReported, NextCollection,
         NextStage, AllDone, Succeed, CloseRun, RunRaises, RunCrashes, plane
<1>2. QED
  BY <1>1 DEF EraseChosen, EraseOrphans

\* Runs announce deletions.
LEMMA NewsOfRuns ==
  ASSUME Shape, NEW j \in Jobs, RunStep(j), NEW i \in Items, said'[i] # said[i]
  PROVE  TellDeleted(j, i) /\ said'[i] = "DELETED"
<1>1. UNCHANGED said \/ \E m \in Items : TellDeleted(j, m)
  BY DEF RunStep, RunSteps, BeginRun, AppendRun, TakeRun, ReadRows, ExpiredAll, EraseChosen, ErasedAll,
         MarkExpired, MarkGone, TellDeleted, ListPoints, EraseOrphans, OrphansReported, NextCollection,
         NextStage, AllDone, Succeed, CloseRun, RunRaises, RunCrashes, plane
<1>2. TypeOK
  BY DEF Shape
<1>3. QED
  BY <1>1, <1>2 DEF TellDeleted, TypeOK

\* What is raced stays so until a reconciliation succeeds that found it quiet.
LEMMA RacedBefore ==
  ASSUME Shape, NEW j \in Jobs, RunStep(j), NEW i \in Items, raced'[i] # "raced"
  PROVE  \/ raced'[i] = raced[i]
         \/ /\ Succeed(j) /\ Task[j] = "RECONCILE" /\ i \in quiet[j]
            /\ raced[i] = "raced" /\ raced'[i] = "repaired"
<1>1. CASE UNCHANGED ghosts
  BY <1>1 DEF ghosts
<1>2. CASE TakeRun(j)
  BY <1>2 DEF TakeRun
<1>3. CASE Succeed(j)
  BY <1>3 DEF Succeed
<1>4. CASE CloseRun(j)
  BY <1>4 DEF CloseRun
<1>5. CASE RunRaises(j) \/ RunCrashes(j)
  BY <1>5 DEF RunRaises, RunCrashes, Abort
<1>6. QED
  BY <1>1, <1>2, <1>3, <1>4, <1>5, OtherRunSteps

\* A collection is listed by listing it.
LEMMA ListedBefore ==
  ASSUME Shape, NEW j \in Jobs, RunStep(j), NEW i \in Items, NEW k \in Jobs, Listed(k, i)'
  PROVE  \/ Listed(k, i)
         \/ k = j /\ ListPoints(j) /\ i \in quiet[j] /\ Working(j) /\ KindOf[i] \in First(visits[j])
<1>1. TypeOK /\ KindFrame(j)
  BY DEF Shape
<1>2. CASE k # j
  BY <1>2, RunEffect DEF Listed, Working, Active
<1>3. CASE k = j
  <2>1. ~Succeed(j) /\ ~CloseRun(j) /\ ~RunRaises(j) /\ ~RunCrashes(j)
    BY <1>1, <1>3 DEF Succeed, CloseRun, RunRaises, RunCrashes, Drop, Listed, Working, Active, Started, TypeOK
  <2>2. ~TakeRun(j)
    <3>1. SUFFICES ASSUME TakeRun(j) PROVE FALSE
      OBVIOUS
    <3>2. i \in Scope[j] /\ KindOf[i] \in Kinds[j]
      BY <1>1, <1>3, <3>1, ScopeFacts DEF TakeRun, TypeOK, Listed
    <3>3. KindOf[i] \in visits'[j] \cup stages'[j]
      BY <1>1, <3>1, <3>2, FirstFacts DEF TakeRun, TypeOK
    <3>4. jpc'[j] = "erase" => Task[j] # "RECONCILE"
      BY <1>1, <3>1, AfterRowsFacts DEF TakeRun, TypeOK
    <3>5. jpc'[j] \in {"rows", "expire", "erase", "list"}
      BY <1>1, <3>1, AfterRowsFacts DEF TakeRun, TypeOK
    <3>6. QED
      BY <1>3, <3>3, <3>4, <3>5 DEF Listed
  <2>3. UNCHANGED ghosts /\ Working(j) /\ i \in quiet[j]
    BY <1>3, <2>1, <2>2, OtherRunSteps DEF Listed, ghosts
  <2>4. ~BeginRun(j) /\ ~AppendRun(j)
    BY <2>3 DEF BeginRun, AppendRun, Working, Active, Started
  <2>5. CASE ReadRows(j) \/ ExpiredAll(j) \/ EraseChosen(j) \/ ErasedAll(j)
    <3>1. CASE Task[j] = "RECONCILE"
      <4>1. ReadRows(j)
        BY <1>1, <2>5, <3>1 DEF KindFrame, ExpiredAll, EraseChosen, ErasedAll
      <4>2. jpc'[j] \in {"rows", "list"} /\ UNCHANGED <<visits, stages>>
        BY <1>1, <4>1, <3>1, AfterRowsFacts DEF ReadRows, TypeOK
      <4>3. QED
        BY <1>3, <2>3, <4>2 DEF Listed
    <3>2. QED
      BY <1>3, <3>1 DEF Listed
  <2>6. CASE \E m \in Items : MarkExpired(j, m) \/ MarkGone(j, m) \/ TellDeleted(j, m)
    BY <1>3, <2>3, <2>6 DEF MarkExpired, MarkGone, TellDeleted, reading, Listed
  <2>7. CASE ListPoints(j)
    BY <1>3, <2>3, <2>7 DEF ListPoints, reading, Listed
  <2>8. CASE EraseOrphans(j) \/ OrphansReported(j)
    BY <1>3, <2>3, <2>8 DEF EraseOrphans, OrphansReported, reading, Listed
  <2>9. CASE NextCollection(j)
    <3>1. /\ jpc[j] = "mark" /\ jpc'[j] = "list"
          /\ visits'[j] = visits[j] \ First(visits[j]) /\ stages'[j] = stages[j]
      BY <1>1, <2>9 DEF NextCollection, TypeOK
    <3>2. QED
      BY <1>3, <2>3, <3>1 DEF Listed
  <2>10. CASE NextStage(j)
    <3>1. jpc'[j] = "rows" /\ visits'[j] \cup stages'[j] = visits[j] \cup stages[j]
      BY <1>1, <2>10, FirstFacts DEF NextStage, TypeOK
    <3>2. QED
      BY <1>3, <2>3, <3>1 DEF Listed
  <2>11. CASE AllDone(j)
    <3>1. jpc'[j] = "succeed" /\ UNCHANGED <<visits, stages>>
      BY <1>1, <2>11 DEF AllDone, TypeOK, reading
    <3>2. QED
      BY <1>3, <2>3, <3>1 DEF Listed
  <2>12. QED
    BY <2>1, <2>2, <2>4, <2>5, <2>6, <2>7, <2>8, <2>9, <2>10, <2>11 DEF RunStep, RunSteps
<1>4. QED
  BY <1>2, <1>3

\* A debt is paid by an announcement, or its run fails.
LEMMA DebtEnds ==
  ASSUME Shape, NEW j \in Jobs, RunStep(j), NEW i \in Items, Owed(i), ~Owed(i)'
  PROVE  \/ TellDeleted(j, i) /\ jpc[j] = "mark"
         \/ Raced(i)
<1>1. TypeOK /\ RunFrame(j) /\ KindFrame(j)
  BY DEF Shape
<1>2. PICK o \in Jobs : OwedBy(o, i)
  BY DEF Owed
<1>3. ~OwedBy(o, i)'
  BY DEF Owed
<1>4. o = j
  BY <1>2, <1>3, RunEffect DEF OwedBy
<1>5. Working(j) /\ i \in Scope[j] /\ jpc[j] \in {"erase", "report", "mark"}
  BY <1>2, <1>4, OwingWorks DEF OwedBy
<1>6. CASE RunRaises(j) \/ RunCrashes(j)
  <2>1. Abort(j)
    BY <1>6 DEF RunRaises, RunCrashes
  <2>2. QED
    BY <1>1, <1>5, <2>1 DEF Abort, Raced, TypeOK
<1>7. ~EraseChosen(j) /\ ~ErasedAll(j)
  BY <1>1, <1>2, <1>3, <1>4 DEF EraseChosen, ErasedAll, TypeOK, reading, OwedBy
<1>8. \A m \in Items : ~MarkGone(j, m)
  BY <1>1, <1>2, <1>3, <1>4 DEF MarkGone, reading, OwedBy
<1>9. ASSUME NEW m \in Items, TellDeleted(j, m) PROVE m = i /\ jpc[j] = "mark"
  <2>1. jtodo'[j] = jtodo[j] \ {m} /\ UNCHANGED <<jpc, seen, missing>>
    BY <1>1, <1>9 DEF TellDeleted, TypeOK, reading
  <2>2. QED
    BY <1>2, <1>3, <1>4, <2>1 DEF OwedBy
<1>10. ~EraseOrphans(j) /\ ~OrphansReported(j)
  BY <1>1, <1>2, <1>3, <1>4 DEF EraseOrphans, OrphansReported, KindFrame, TypeOK, reading, OwedBy
<1>11. ~NextCollection(j) /\ ~AllDone(j)
  BY <1>1, <1>2, <1>4 DEF NextCollection, AllDone, LoopDone, OwedBy
<1>12. /\ ~BeginRun(j) /\ ~AppendRun(j) /\ ~TakeRun(j) /\ ~ReadRows(j) /\ ~ExpiredAll(j)
       /\ ~ListPoints(j) /\ ~NextStage(j) /\ ~Succeed(j) /\ ~CloseRun(j)
       /\ \A m \in Items : ~MarkExpired(j, m)
  BY <1>5 DEF BeginRun, AppendRun, TakeRun, ReadRows, ExpiredAll, ListPoints, NextStage, Succeed, CloseRun, MarkExpired
<1>13. QED
  BY <1>6, <1>7, <1>8, <1>9, <1>10, <1>11, <1>12 DEF RunStep, RunSteps

-----------------------------------------------------------------------------
(* The steps of the runs leave in order what no race has touched, and what  *)
(* a reconciliation has gone over in peace.                                 *)

\* What is settled is calm.
LEMMA SettledIsCalm ==
  ASSUME NEW i \in Items, Settled(i)
  PROVE  Calm(i)
BY DEF Settled, Listed, Calm

\* A run at an item that is calm knows what it has read of it, and no writer is there.
LEMMA CalmRunKnows ==
  ASSUME Shape, Peace, Facts, NEW j \in Jobs, NEW i \in Items, Calm(i), Working(j), i \in Scope[j]
  PROVE  i \in quiet[j] /\ KnowsAll(j, i) /\ ~Writing(i)
BY DEF Peace, NoWriter, AllQuiet, Facts

\* A reconciliation that succeeds finds what was quiet settled, and its points in order.
LEMMA SucceedSettles ==
  ASSUME Shape, Facts, NEW j \in Jobs, Succeed(j), Task[j] = "RECONCILE", NEW i \in quiet[j]
  PROVE  Settled(i) /\ (i \in points => Live(i)) /\ UNCHANGED plane
<1>1. Working(j) /\ jpc[j] = "succeed" /\ UNCHANGED plane
  BY DEF Succeed, Working, Active, Started
<1>2. visits[j] = {} /\ stages[j] = {}
  BY <1>1 DEF Shape, KindFrame
<1>3. KnowsAll(j, i)
  BY <1>1 DEF Facts
<1>4. Listed(j, i) /\ Cleared(j, i)
  BY <1>1, <1>2 DEF Listed, Cleared
<1>5. QED
  BY <1>1, <1>3, <1>4 DEF Settled, KnowsAll, Knows, KnowsReconciling

LEMMA RunsKeepPointFirst ==
  ASSUME Shape, Peace, Facts, Order, NEW j \in Jobs, RunStep(j), NEW i \in Items
  PROVE  PointFirst(i)'
<1>1. SUFFICES ASSUME raced'[i] # "raced", i \in points', ~Live(i)'
               PROVE  \E w \in Writers : ToWrite(w, i)'
  BY DEF PointFirst
<1>2. i \in points /\ UNCHANGED writing
  BY <1>1, RunEffect
<1>3. CASE raced'[i] = raced[i]
  <2>1. ~Live(i)
    BY <1>1, <1>2, <1>3, PointStaysLive DEF Calm
  <2>2. QED
    BY <1>1, <1>2, <1>3, <2>1 DEF Order, InOrder, PointFirst, ToWrite, writing
<1>4. CASE Succeed(j) /\ Task[j] = "RECONCILE" /\ i \in quiet[j]
  BY <1>1, <1>2, <1>4, SucceedSettles DEF plane, Live
<1>5. QED
  BY <1>1, <1>3, <1>4, RacedBefore

LEMMA RunsKeepPointOwed ==
  ASSUME Shape, Peace, Facts, Order, NEW j \in Jobs, RunStep(j), NEW i \in Items
  PROVE  PointOwed(i)'
<1>1. SUFFICES ASSUME Settled(i)', i \notin points', Live(i)'
               PROVE  Owed(i)'
  BY DEF PointOwed
<1>2. Live(i) /\ TypeOK
  BY <1>1, RunEffect DEF Shape
<1>3. CASE Settled(i)
  <2>1. Calm(i)
    BY <1>3, SettledIsCalm
  <2>2. CASE i \in points
    <3>1. CASE EraseChosen(j) /\ i \in seen[j]
      <4>1. OwedBy(j, i)'
        BY <3>1 DEF EraseChosen, OwedBy
      <4>2. QED
        BY <4>1 DEF Owed
    <3>2. CASE EraseOrphans(j) /\ i \in jtodo[j]
      <4>1. Working(j) /\ i \in Scope[j] /\ jpc[j] = "erase" /\ Task[j] = "RECONCILE"
        BY <3>2 DEF EraseOrphans, Working, Active, Started, Shape, RunFrame
      <4>2. ~Live(i)
        BY <2>1, <3>2, <4>1, CalmRunKnows DEF KnowsAll, KnowsReconciling
      <4>3. QED
        BY <1>2, <4>2
    <3>3. QED
      BY <1>1, <2>2, <3>1, <3>2, PointTaken
  <2>3. CASE i \notin points
    <3>1. Owed(i)
      BY <1>2, <1>3, <2>3 DEF Order, InOrder, PointOwed
    <3>2. ASSUME TellDeleted(j, i), jpc[j] = "mark" PROVE FALSE
      <4>1. i \in jtell[j] /\ Working(j) /\ i \in Scope[j]
        BY <3>2 DEF TellDeleted, Working, Active, Started, Shape, RunFrame
      <4>2. QED
        BY <1>2, <2>1, <4>1, CalmRunKnows DEF KnowsAll, Knows
    <3>3. ~Raced(i)
      BY <1>1 DEF Raced, Settled, Listed
    <3>4. QED
      BY <3>1, <3>2, <3>3, DebtEnds
  <2>4. QED
    BY <2>2, <2>3
<1>4. CASE ~Settled(i)
  <2>1. raced'[i] = "raced"
    BY <1>4, RacedBefore, SucceedSettles DEF Settled
  <2>2. PICK k \in Jobs : Listed(k, i)'
    BY <1>1, <2>1 DEF Settled
  <2>3. ListPoints(j) /\ i \in quiet[j] /\ Working(j) /\ KindOf[i] \in First(visits[j])
    BY <1>4, <2>2, ListedBefore DEF Settled
  <2>4. /\ jpc[j] = "list" /\ jpc'[j] = "erase" /\ Task[j] = "RECONCILE" /\ reads[j] = {}
        /\ missing'[j] = (seen[j] \cap OfKinds(First(visits[j]))) \ points
        /\ points' = points
    BY <1>2, <2>3 DEF ListPoints, TypeOK, Shape, KindFrame, plane
  <2>5. KnowsAll(j, i)
    BY <2>3 DEF Facts
  <2>6. i \in seen[j]
    BY <1>2, <2>3, <2>4, <2>5, FirstFacts DEF KnowsAll, KnowsReconciling
  <2>7. OwedBy(j, i)'
    BY <1>1, <2>3, <2>4, <2>6 DEF OwedBy, OfKinds
  <2>8. QED
    BY <2>7 DEF Owed
<1>5. QED
  BY <1>3, <1>4

LEMMA RunsKeepNews ==
  ASSUME Shape, Peace, Facts, Order, NEW j \in Jobs, RunStep(j), NEW i \in Items
  PROVE  NewsOwed(i)' /\ NewsToCome(i)'
<1> SUFFICES ASSUME raced'[i] = "never"
             PROVE  NewsOwed(i)' /\ NewsToCome(i)'
  BY DEF NewsOwed, NewsToCome
<1>1. raced[i] = "never" /\ Calm(i) /\ ~Raced(i) /\ TypeOK
  BY RacedBefore DEF Calm, Raced, Shape
<1>2. UNCHANGED writing /\ points' \subseteq points
  BY RunEffect
<1>3. NewsOwed(i)'
  <2>1. SUFFICES ASSUME i \notin points', said'[i] = "UPSERTED" PROVE Owed(i)'
    BY DEF NewsOwed
  <2>2. said[i] = "UPSERTED" /\ ~TellDeleted(j, i)
    <3>1. ~TellDeleted(j, i)
      BY <1>1, <2>1 DEF TellDeleted, TypeOK
    <3>2. QED
      BY <2>1, <3>1, NewsOfRuns
  <2>3. CASE i \notin points
    BY <1>1, <2>2, <2>3, DebtEnds DEF Order, InOrder, NewsOwed
  <2>4. CASE i \in points /\ EraseChosen(j) /\ i \in seen[j]
    <3>1. OwedBy(j, i)'
      BY <2>4 DEF EraseChosen, OwedBy
    <3>2. QED
      BY <3>1 DEF Owed
  <2>5. CASE i \in points /\ EraseOrphans(j) /\ i \in jtodo[j]
    <3>1. Working(j) /\ i \in Scope[j] /\ jpc[j] = "erase" /\ Task[j] = "RECONCILE"
      BY <2>5 DEF EraseOrphans, Working, Active, Started, Shape, RunFrame
    <3>2. ~Live(i) /\ ~Writing(i)
      BY <1>1, <2>5, <3>1, CalmRunKnows DEF KnowsAll, KnowsReconciling
    <3>3. PICK w \in Writers : ToWrite(w, i)
      BY <1>1, <2>5, <3>2 DEF Order, InOrder, PointFirst
    <3>4. QED
      BY <3>2, <3>3 DEF ToWrite, Writing, AtWork, Touches, Shape, WriterFrame
  <2>6. QED
    BY <2>1, <2>3, <2>4, <2>5, PointTaken
<1>4. NewsToCome(i)'
  <2>1. SUFFICES ASSUME i \in points', said'[i] # "UPSERTED"
                 PROVE  \E w \in Writers : wpc'[w] = "write" /\ i \in wtodo'[w]
    BY DEF NewsToCome
  <2>2. ~TellDeleted(j, i)
    <3>1. SUFFICES ASSUME TellDeleted(j, i) PROVE FALSE
      OBVIOUS
    <3>2. /\ i \in jtodo[j] /\ i \in Scope[j] /\ Working(j)
          /\ jpc[j] = "mark" \/ (jpc[j] = "report" /\ Task[j] = "RECONCILE")
      BY <3>1 DEF TellDeleted, Working, Active, Started, Shape, RunFrame, KindFrame
    <3>3. i \notin points
      BY <1>1, <3>2, CalmRunKnows DEF KnowsAll, Knows, KnowsReconciling
    <3>4. QED
      BY <1>2, <2>1, <3>3
  <2>3. said[i] # "UPSERTED" /\ i \in points
    BY <1>2, <2>1, <2>2, NewsOfRuns
  <2>4. QED
    BY <1>1, <1>2, <2>3 DEF Order, InOrder, NewsToCome, writing
<1>5. QED
  BY <1>3, <1>4

\* No run is at the item of a writer, unless it has been raced.
LEMMA WriterIsAlone ==
  ASSUME Shape, Peace, Facts, NEW j \in Jobs, RunStep(j), NEW i \in Items, Writing(i), raced'[i] # "raced"
  PROVE  raced[i] # "raced" /\ ~(Working(j) /\ i \in Scope[j])
<1>1. raced[i] # "raced"
  BY RacedBefore DEF Peace, NoWriter
<1>2. QED
  BY <1>1, CalmRunKnows DEF Calm

LEMMA RunsKeepWriterHasPoint ==
  ASSUME Shape, Peace, Facts, Order, NEW j \in Jobs, RunStep(j), NEW i \in Items
  PROVE  WriterHasPoint(i)'
<1>1. SUFFICES ASSUME raced'[i] # "raced", NEW w \in Writers, Upserted(w, i)' PROVE i \in points'
  BY DEF WriterHasPoint
<1>2. Upserted(w, i) /\ Writing(i)
  BY <1>1, RunEffect DEF Upserted, Writing, AtWork, Touches, writing
<1>3. i \in points /\ ~(Working(j) /\ i \in Scope[j])
  BY <1>1, <1>2, WriterIsAlone DEF Order, InOrder, WriterHasPoint
<1>4. QED
  BY <1>3, PointTaken DEF EraseChosen, EraseOrphans, Working, Active, Started, Shape, RunFrame

\* A run changes the row of an item in its hands.
LEMMA RowOfRuns ==
  ASSUME Shape, NEW j \in Jobs, RunStep(j), NEW i \in Items, row'[i] # row[i]
  PROVE  Working(j) /\ i \in Scope[j]
<1>1. TypeOK /\ RunFrame(j)
  BY DEF Shape
<1>2. \/ UNCHANGED row
      \/ \E m \in Items : MarkExpired(j, m) \/ MarkGone(j, m)
  BY DEF RunStep, RunSteps, BeginRun, AppendRun, TakeRun, ReadRows, ExpiredAll, EraseChosen, ErasedAll, TellDeleted,
         ListPoints, EraseOrphans, OrphansReported, NextCollection, NextStage, AllDone, Succeed, CloseRun,
         RunRaises, RunCrashes, plane
<1>3. PICK m \in Items : MarkExpired(j, m) \/ MarkGone(j, m)
  BY <1>2
<1>4. m = i /\ m \in jtodo[j] /\ jpc[j] \in {"expire", "mark"}
  BY <1>1, <1>3, FirstFacts DEF MarkExpired, MarkGone, TypeOK
<1>5. QED
  BY <1>1, <1>4 DEF RunFrame, Working, Active, Started

LEMMA RunsKeepHeld ==
  ASSUME Shape, Peace, Facts, Order, NEW j \in Jobs, RunStep(j), NEW i \in Items
  PROVE  HeldIsTrue(i)'
<1>1. SUFFICES ASSUME NEW w \in Writers, raced'[i] # "raced", Holding(w, i)' PROVE held'[w][i] = row'[i]
  BY DEF HeldIsTrue
<1>2. Holding(w, i) /\ Writing(i) /\ held' = held
  BY <1>1, RunEffect DEF Holding, Writing, AtWork, Touches, writing
<1>3. row'[i] = row[i] /\ raced[i] # "raced"
  BY <1>1, <1>2, WriterIsAlone, RowOfRuns
<1>4. QED
  BY <1>2, <1>3 DEF Order, InOrder, HeldIsTrue

LEMMA RunsKeepOrder ==
  ASSUME Shape, Peace, Facts, Order, NEW j \in Jobs, RunStep(j)
  PROVE  Order'
BY RunsKeepPointFirst, RunsKeepPointOwed, RunsKeepNews, RunsKeepWriterHasPoint, RunsKeepHeld DEF Order, InOrder

-----------------------------------------------------------------------------
IInv == Shape /\ Peace /\ Facts /\ Order

(* The shape of the state, the peace of the quiet items, what runs know of *)
(* them and the debts they have hold in every reachable state.              *)
THEOREM Inductive == Spec => []IInv
<1>1. Init => IInv
  <2> SUFFICES ASSUME Init PROVE IInv
    OBVIOUS
  <2>1. Shape
    BY InitShape
  <2>2. Peace /\ Facts
    BY DEF Init, Peace, NoWriter, AllQuiet, Facts, Working, Active, Started
  <2>3. Order
    BY DEF Init, Order, InOrder, PointFirst, PointOwed, NewsOwed, NewsToCome, WriterHasPoint, Upserted, HeldIsTrue,
           Holding, Live
  <2>4. QED
    BY <2>1, <2>2, <2>3 DEF IInv
<1>2. IInv /\ [Next]_vars => IInv'
  <2> SUFFICES ASSUME IInv, [Next]_vars PROVE IInv'
    OBVIOUS
  <2>1. ASSUME NEW w \in Writers, WriterStep(w) PROVE IInv'
    BY <2>1, WritersKeepShape, WritersKeepPeace, WritersKeepFacts, WritersKeepOrder DEF IInv, WriterStep
  <2>2. ASSUME NEW j \in Jobs, RunStep(j) PROVE IInv'
    BY <2>2, RunsKeepShape, RunsKeepPeace, RunsKeepFacts, RunsKeepOrder DEF IInv
  <2>3. CASE UNCHANGED vars
    <3>1. Shape'
      BY <2>3, StutterKeepsShape DEF IInv
    <3>2. Peace' /\ Facts'
      BY <2>3 DEF IInv, vars, plane, writing, working, reading, ghosts, Peace, NoWriter, AllQuiet, Calm, Writing, AtWork,
                  Facts, KnowsAll, Knows, KnowsErasing, KnowsReconciling, Cleared, Live, Working, Active
    <3>3. Order'
      BY <2>3 DEF IInv, vars, plane, writing, working, reading, ghosts, Order, InOrder, PointFirst, PointOwed,
                  ToWrite, NewsOwed, NewsToCome, WriterHasPoint, Upserted, HeldIsTrue, Holding, Settled, Listed,
                  Owed, OwedBy, Live, Working, Active
    <3>4. QED
      BY <3>1, <3>2, <3>3 DEF IInv
  <2>4. QED
    BY <2>1, <2>2, <2>3, NextStep
<1>3. QED
  BY <1>1, <1>2, PTL DEF Spec

\* At rest nothing is owed and nobody is still to come.
LEMMA RestSettles ==
  ASSUME IInv, NEW i \in Items, AtRest(i)
  PROVE  ~Owed(i) /\ \A w \in Writers : ~ToWrite(w, i) /\ ~(wpc[w] = "write" /\ i \in wtodo[w])
<1>1. ~Owed(i)
  BY OwingWorks DEF IInv, AtRest, Owed
<1>2. QED
  BY <1>1 DEF IInv, Shape, WriterFrame, AtRest, Writing, AtWork, Touches, ToWrite

(* An item that no race and no failure has touched has, at rest, a point    *)
(* exactly when its row is live and exactly when the last event says so:    *)
(* for any number of writers of it, builders that save a state they have    *)
(* read before among them, any runs over it and any choice the clock makes  *)
(* among its rows.  A race is a writer that meets a run, or a row that      *)
(* changes between a builder's reading it and its saving it.                *)
THEOREM Agree == Spec => []StoresAgree
<1>1. IInv => StoresAgree
  <2> SUFFICES ASSUME IInv PROVE StoresAgree
    OBVIOUS
  <2>1. ASSUME NEW i \in Items, AtRest(i), raced[i] = "never"
        PROVE  (i \in points <=> Live(i)) /\ (i \in points <=> said[i] = "UPSERTED")
    <3>1. InOrder(i) /\ Settled(i)
      BY <2>1 DEF IInv, Order, Settled
    <3>2. QED
      BY <2>1, <3>1, RestSettles DEF InOrder, PointFirst, PointOwed, NewsOwed, NewsToCome
  <2>2. QED
    BY <2>1 DEF StoresAgree, IInv, Shape
<1>2. QED
  BY <1>1, Inductive, PTL

(* What a reconciliation has gone over in peace has, at rest, a point       *)
(* exactly when its row is live, whatever the races before; and no          *)
(* reconciliation takes the point of a live row, whatever other runs do     *)
(* beside it, unless a writer is at the item.                               *)
THEOREM Repairs == Spec => ReconcileIsRight
<1>1. IInv => Repaired
  <2> SUFFICES ASSUME IInv, NEW i \in Items, AtRest(i), raced[i] = "repaired"
               PROVE  i \in points <=> Live(i)
    BY DEF Repaired
  <2>1. InOrder(i) /\ Settled(i)
    BY DEF IInv, Order, Settled
  <2>2. QED
    BY <2>1, RestSettles DEF InOrder, PointFirst, PointOwed
<1>2. ASSUME IInv, NEW j \in Jobs, NEW i \in Items, EraseOrphans(j), i \in quiet[j] \cap (points \ points')
      PROVE  ~Live(i)
  <2>1. Working(j) /\ jpc[j] = "erase" /\ Task[j] = "RECONCILE" /\ i \in jtodo[j]
    BY <1>2 DEF EraseOrphans, Working, Active, Started
  <2>2. KnowsAll(j, i)
    BY <1>2, <2>1 DEF IInv, Facts
  <2>3. QED
    BY <2>1, <2>2 DEF KnowsAll, KnowsReconciling
<1>3. IInv /\ IInv' /\ [Next]_vars =>
        [/\ Repaired'
         /\ \A j \in Jobs, i \in Items :
              EraseOrphans(j) /\ i \in quiet[j] \cap (points \ points') => ~Live(i)]_vars
  <2>1. IInv' => Repaired'
    BY <1>1, PTL
  <2>2. QED
    BY <1>2, <2>1
<1>4. QED
  BY <1>3, Inductive, PTL DEF Spec, ReconcileIsRight

=============================================================================
