---------------------------- MODULE InlineMemory ----------------------------
(***************************************************************************)
(* The C-items a conversation writes into the vector store itself, without *)
(* the event plane: the user's message, what is applied to the memory, a   *)
(* registered text, a file attached to a turn.  Batches of items are       *)
(* ingested side by side, since only turns take the mutex; an item is      *)
(* looked up by its content, saved, and then held against the others for   *)
(* contradictions.  The forget worker archives, erases and removes copies, *)
(* and a reconciliation takes every point that has no row for an orphan,   *)
(* as all of these are.                                                    *)
(*                                                                         *)
(* Left out: promotion, since nothing at this commit writes the reference  *)
(* counts it asks for, and the second level of summaries, since nothing    *)
(* creates the first.  Time is counted in days, none of which passes while *)
(* somebody works.  The judgement of the NLI model is a constant relation. *)
(***************************************************************************)
EXTENDS Integers, FiniteSets, FiniteSetsExt, Functions, Sequences

CONSTANTS
  Items,            \* C-items that may be ingested
  Batches,          \* one call each of ingest_citem, ingest_batch or ingest_files
  Kind,             \* [Batches -> {"message", "batch", "file"}]
  Parts,            \* the items of a batch, in order
  Content,          \* what an item says
  Type,             \* its item type
  Confidence,       \* the confidence it is created with, in hundredths
  Override,         \* the importance its caller gives to some of them
  Contradict,       \* pairs of contents the NLI model calls a contradiction
  AttenuationAge, AlphaPurge,   \* days: 7 and 30 in ForgetParams
  Window,           \* how many candidates the detector looks at: 20
  MaxDay,           \* bound of the model: the last day
  MaxFaults         \* bound of the model: raised calls and reconciliations

None == "none"
CONFLICTABLE == {"FACT", "DERIVED", "HYPOTHESIS", "DECISION", "CONSTRAINT", "OBSERVATION"}
Protected == {"DECISION", "CONSTRAINT", "PROCEDURE"}
TypeBase(t) ==
  CASE t \in {"DECISION", "CONSTRAINT"} -> 85
    [] t = "PROCEDURE" -> 75
    [] t = "HYPOTHESIS" -> 45
    [] t = "ASSUMPTION" -> 35
    [] t = "OBSERVATION" -> 40
    [] OTHER -> 50
Importance(i) ==
  IF i \in DOMAIN Override THEN Override[i] ELSE (TypeBase(Type[i]) * Confidence[i]) \div 100

AttenuationThreshold == 20
MinImportanceToPurge == 30

InlineAssumption ==
  /\ IsFiniteSet(Items)
  /\ Parts \in [Batches -> Seq(Items)] /\ \A b \in Batches : Parts[b] # << >>
  /\ \A b \in Batches : IsInjective(Parts[b])
  /\ \A b, c \in Batches : b # c => Range(Parts[b]) \cap Range(Parts[c]) = {}
  /\ Confidence \in [Items -> 0..100]
  /\ DOMAIN Override \subseteq Items /\ Range(Override) \subseteq 0..100
  /\ {AttenuationAge, AlphaPurge, Window, MaxDay, MaxFaults} \subseteq Nat

VARIABLES
  memory,           \* the payloads in the collection of local C-items, by item
  conflicts,        \* conflict_log: pairs of items
  step, at,         \* where each batch is, and at which of its parts
  known,            \* items ingest_batch found to exist before it began
  rival,            \* the item a detection has found to contradict its own
  file,             \* status of the registry row of each file
  stage, todo,      \* the forget worker: what it does, to which items still
  day, lastTurn,    \* today, and the day of the last turn
  heard,            \* items whose detection has run to its end
  failures

batchVars == <<step, at, known, rival, file>>
workerVars == <<stage, todo>>
clockVars == <<day, lastTurn>>
vars == <<memory, conflicts, batchVars, workerVars, clockVars, heard, failures>>

Stored == DOMAIN memory
Active == {i \in Stored : memory[i].status = "active"}
Says(i, j) == Content[i] = Content[j]

TypeOK ==
  /\ Stored \subseteq Items
  /\ memory \in [Stored -> [status : {"active", "archived"}, importance : 0..100,
                            flagged : BOOLEAN, born : 0..MaxDay, archivedAt : 0..MaxDay]]
  /\ conflicts \subseteq Items \X Items
  /\ step \in [Batches -> {"idle", "check", "save", "detect", "log", "flagOld", "flagNew", "over"}]
  /\ at \in [Batches -> Nat] /\ \A b \in Batches : at[b] \in 1..Len(Parts[b])
  /\ known \subseteq Items /\ heard \subseteq Items /\ todo \subseteq Items
  /\ rival \in [Batches -> Items \cup {None}]
  /\ file \in [Batches -> {"QUEUED", "PROCESSING", "READY", "FAILED"}]
  /\ stage \in {"idle", "listed", "attenuate", "purge", "dedup"}
  /\ day \in 0..MaxDay /\ lastTurn \in 0..day
  /\ failures \in 0..MaxFaults

Init ==
  /\ memory = << >>
  /\ conflicts = {}
  /\ step = [b \in Batches |-> "idle"]
  /\ at = [b \in Batches |-> 1]
  /\ known = {}
  /\ rival = [b \in Batches |-> None]
  /\ file = [b \in Batches |-> "QUEUED"]
  /\ stage = "idle" /\ todo = {}
  /\ day = 0 /\ lastTurn = 0
  /\ heard = {}
  /\ failures = 0

-----------------------------------------------------------------------------
(* Ingestion.  A batch of several parts goes on with the next one whatever  *)
(* became of the last, unless saving raised.                                *)
Item(b) == Parts[b][at[b]]
Running(b) == step[b] \notin {"idle", "over"}
OfTurn(b) == Kind[b] \in {"message", "file"}
TurnInProgress == \E b \in Batches : OfTurn(b) /\ Running(b)
Fault == failures < MaxFaults /\ failures' = failures + 1
GoTo(b, s) == step' = [step EXCEPT ![b] = s] /\ UNCHANGED at
Row(b, s) == file' = [file EXCEPT ![b] = IF Kind[b] = "file" THEN s ELSE @]

(* exists_by_hash: any copy in the collection counts, an archived one too. *)
Exists(i) == \E j \in Stored : Says(i, j)

(* What ingest_batch will leave out, whatever becomes of the copies. *)
Screened(b) == {i \in Range(Parts[b]) : Kind[b] = "batch" /\ Exists(i)}

Begin(b) ==
  /\ step[b] = "idle"
  /\ OfTurn(b) => ~TurnInProgress
  /\ GoTo(b, "check")
  /\ known' = known \cup Screened(b)
  /\ Row(b, "PROCESSING")
  /\ lastTurn' = IF OfTurn(b) THEN day ELSE lastTurn
  /\ UNCHANGED <<memory, conflicts, rival, workerVars, day, heard, failures>>

(* Nothing can be extracted from a file. *)
ExtractionFails(b) ==
  /\ step[b] = "idle" /\ Kind[b] = "file"
  /\ ~TurnInProgress
  /\ GoTo(b, "over")
  /\ Row(b, "FAILED")
  /\ lastTurn' = day
  /\ UNCHANGED <<memory, conflicts, known, rival, workerVars, day, heard, failures>>

Finish(b) == GoTo(b, "over") /\ Row(b, "READY")

Advance(b) ==
  IF at[b] < Len(Parts[b])
  THEN /\ step' = [step EXCEPT ![b] = "check"]
       /\ at' = [at EXCEPT ![b] = @ + 1]
       /\ UNCHANGED file
  ELSE Finish(b)

(* A file whose first item, the one that names it, exists already is left   *)
(* as it is, its row PROCESSING.                                            *)
SkipDuplicate(b) ==
  /\ step[b] = "check"
  /\ Item(b) \in known \/ Exists(Item(b))
  /\ IF Kind[b] = "file" /\ at[b] = 1 THEN GoTo(b, "over") /\ UNCHANGED file ELSE Advance(b)
  /\ UNCHANGED <<memory, conflicts, known, rival, workerVars, clockVars, heard, failures>>

(* A look-up that fails says that there is no copy. *)
FindNew(b) ==
  /\ step[b] = "check"
  /\ Item(b) \notin known
  /\ IF Exists(Item(b)) THEN Fault ELSE UNCHANGED failures
  /\ GoTo(b, "save")
  /\ UNCHANGED <<memory, conflicts, known, rival, file, workerVars, clockVars, heard>>

NewPoint(i) ==
  [status |-> "active", importance |-> Importance(i), flagged |-> FALSE,
   born |-> day, archivedAt |-> 0]

Detects(b) == Kind[b] # "file" /\ Type[Item(b)] \in CONFLICTABLE

Save(b) ==
  /\ step[b] = "save"
  /\ memory' = [i \in Stored \cup {Item(b)} |-> IF i = Item(b) THEN NewPoint(i) ELSE memory[i]]
  /\ IF Detects(b) THEN GoTo(b, "detect") /\ UNCHANGED file ELSE Advance(b)
  /\ UNCHANGED <<conflicts, known, rival, workerVars, clockVars, heard, failures>>

(* The message's error is logged; a batch gives up its other items. *)
SaveFails(b) ==
  /\ step[b] = "save"
  /\ Fault
  /\ GoTo(b, "over")
  /\ Row(b, "FAILED")
  /\ UNCHANGED <<memory, conflicts, known, rival, workerVars, clockVars, heard>>

-----------------------------------------------------------------------------
\* Mutant: only older items are looked at.
CandidatesBefore(i) ==
  {j \in Active \ {i} : Type[j] \in CONFLICTABLE /\ ~memory[j].flagged /\ memory[j].born < day}

(* Contradictions: the new item against the newest of the active ones not   *)
(* flagged yet; the first that contradicts it ends the search.              *)
Candidates(i) ==
  {j \in Active \ {i} : Type[j] \in CONFLICTABLE /\ ~memory[j].flagged}

Newest(S) ==
  {W \in SUBSET S :
     /\ Cardinality(W) = Min({Window, Cardinality(S)})
     /\ \A j \in W, k \in S \ W : memory[k].born <= memory[j].born}

Contradicts(i, j) == {Content[i], Content[j]} \in Contradict

Detect(b) ==
  /\ step[b] = "detect"
  /\ \E W \in Newest(Candidates(Item(b))) :
       LET rivals == {j \in W : Contradicts(j, Item(b))}
       IN \/ /\ rivals = {}
             /\ heard' = heard \cup {Item(b)}
             /\ Advance(b)
             /\ UNCHANGED rival
          \/ /\ \E j \in rivals :
                  /\ \A k \in rivals : memory[k].born <= memory[j].born
                  /\ rival' = [rival EXCEPT ![b] = j]
             /\ GoTo(b, "log")
             /\ UNCHANGED <<heard, file>>
  /\ UNCHANGED <<memory, conflicts, known, workerVars, clockVars, failures>>

LogConflict(b) ==
  /\ step[b] = "log"
  /\ conflicts' = conflicts \cup {<<rival[b], Item(b)>>}
  /\ GoTo(b, "flagOld")
  /\ UNCHANGED <<memory, known, rival, file, workerVars, clockVars, heard, failures>>

Flag(i) == memory' = [memory EXCEPT ![i].flagged = TRUE]

FlagOld(b) ==
  /\ step[b] = "flagOld"
  /\ rival[b] \in Stored
  /\ Flag(rival[b])
  /\ GoTo(b, "flagNew")
  /\ UNCHANGED <<conflicts, known, rival, file, workerVars, clockVars, heard, failures>>

FlagNew(b) ==
  /\ step[b] = "flagNew"
  /\ Item(b) \in Stored
  /\ Flag(Item(b))
  /\ heard' = heard \cup {Item(b)}
  /\ Advance(b)
  /\ UNCHANGED <<conflicts, known, rival, workerVars, clockVars, failures>>

(* update_field raises for an item that is gone, and any call may raise:    *)
(* the detection ends there, the ingestion goes on.                         *)
Missing(b) ==
  \/ step[b] = "flagOld" /\ rival[b] \notin Stored
  \/ step[b] = "flagNew" /\ Item(b) \notin Stored

DetectFails(b) ==
  /\ step[b] \in {"detect", "log", "flagOld", "flagNew"}
  /\ IF Missing(b) THEN UNCHANGED failures ELSE Fault
  /\ Advance(b)
  /\ UNCHANGED <<memory, conflicts, known, rival, workerVars, clockVars, heard>>

Ingest(b) ==
  \/ Begin(b) \/ ExtractionFails(b) \/ SkipDuplicate(b) \/ FindNew(b) \/ Save(b) \/ SaveFails(b)
  \/ Detect(b) \/ LogConflict(b) \/ FlagOld(b) \/ FlagNew(b) \/ DetectFails(b)

-----------------------------------------------------------------------------
(* The forget worker.  A conversation without a turn is listed; when its    *)
(* last turn is a day old, one pass after the other goes over what it read  *)
(* when the pass began.                                                     *)
Work(s, t) == stage' = s /\ todo' = t /\ UNCHANGED <<conflicts, batchVars, clockVars, heard>>

ListConversation ==
  /\ stage = "idle"
  /\ ~TurnInProgress
  /\ lastTurn < day
  /\ Work("listed", {})
  /\ UNCHANGED <<memory, failures>>

ShouldAttenuate(i) ==
  /\ memory[i].status = "active"
  /\ Type[i] \notin Protected
  /\ day - memory[i].born >= AttenuationAge
  /\ memory[i].importance < AttenuationThreshold

CanPurge(i) ==
  /\ memory[i].status = "archived"
  /\ day - memory[i].archivedAt >= AlphaPurge
  /\ memory[i].importance < MinImportanceToPurge

\* Mutant: archived copies are read too, and may be the ones that stay.
CopiesOfAny ==
  {Active \ kept : kept \in {K \in SUBSET Stored :
     \A i \in Stored :
        /\ Cardinality({j \in K : Says(i, j)}) = 1
        /\ i \in K => \A j \in Stored : Says(i, j) => memory[i].born <= memory[j].born}}

(* The copies to archive: of every content all but one of the oldest. *)
Copies ==
  {Active \ kept : kept \in {K \in SUBSET Active :
     \A i \in Active :
        /\ Cardinality({j \in K : Says(i, j)}) = 1
        /\ i \in K => \A j \in Active : Says(i, j) => memory[i].born <= memory[j].born}}

ReadActive ==
  /\ stage = "listed"
  /\ Work("attenuate", {i \in Stored : ShouldAttenuate(i)})
  /\ UNCHANGED <<memory, failures>>

ReadArchived ==
  /\ stage = "attenuate" /\ todo = {}
  /\ Work("purge", {i \in Stored : CanPurge(i)})
  /\ UNCHANGED <<memory, failures>>

ReadCopies ==
  /\ stage = "purge" /\ todo = {}
  /\ \E copies \in Copies : Work("dedup", copies)
  /\ UNCHANGED <<memory, failures>>

Attenuated(p) == [p EXCEPT !.importance = (@ * 4) \div 5]
Archived(p) == [p EXCEPT !.status = "archived", !.archivedAt = day]

(* A fifth less of what was below the threshold is below it still. *)
Attenuate(i) ==
  /\ stage = "attenuate" /\ i \in todo \cap Stored
  /\ memory' = [memory EXCEPT ![i] = Archived(Attenuated(@))]
  /\ Work(stage, todo \ {i})
  /\ UNCHANGED failures

Purge(i) ==
  /\ stage = "purge" /\ i \in todo
  /\ memory' = [j \in Stored \ {i} |-> memory[j]]
  /\ Work(stage, todo \ {i})
  /\ UNCHANGED failures

ArchiveCopy(i) ==
  /\ stage = "dedup" /\ i \in todo \cap Stored
  /\ memory' = [memory EXCEPT ![i] = Archived(@)]
  /\ Work(stage, todo \ {i})
  /\ UNCHANGED failures

EndCycle ==
  /\ stage = "dedup" /\ todo = {}
  /\ Work("idle", {})
  /\ UNCHANGED <<memory, failures>>

(* A call raises, for an item that is gone or otherwise, perhaps after the  *)
(* importance of an item was lowered: the conversation is left as it is.    *)
CycleFails ==
  /\ stage # "idle"
  /\ IF stage \in {"attenuate", "dedup"} /\ todo \ Stored # {} THEN UNCHANGED failures ELSE Fault
  /\ \/ UNCHANGED memory
     \/ \E i \in todo \cap Stored :
          stage = "attenuate" /\ memory' = [memory EXCEPT ![i] = Attenuated(@)]
  /\ Work("idle", {})

Forget ==
  \/ ListConversation \/ ReadActive \/ ReadArchived \/ ReadCopies \/ EndCycle \/ CycleFails
  \/ \E i \in Items : Attenuate(i) \/ Purge(i) \/ ArchiveCopy(i)

(* None of these points has a row that says INDEXED. *)
Sweep ==
  /\ Fault
  /\ memory' = << >>
  /\ UNCHANGED <<conflicts, batchVars, workerVars, clockVars, heard>>

Tick ==
  /\ stage = "idle" /\ \A b \in Batches : ~Running(b)
  /\ day < MaxDay /\ day' = day + 1
  /\ UNCHANGED <<memory, conflicts, batchVars, workerVars, lastTurn, heard, failures>>

Next == (\E b \in Batches : Ingest(b)) \/ Forget \/ Sweep \/ Tick

Spec == Init /\ [][Next]_vars

-----------------------------------------------------------------------------
(***************************************************************************)
(* Of two active items that contradict each other, and whose detections    *)
(* have both run to their end, at least one is flagged, however the two    *)
(* ingestions were interleaved; and what is flagged is named in the        *)
(* conflict log.  Each is saved before it looks for the others, so that    *)
(* the two cannot miss each other.                                         *)
(***************************************************************************)
ContradictionsAreFlagged ==
  /\ TypeOK
  /\ \A i, j \in heard \cap Active :
       i # j /\ Contradicts(i, j) => memory[i].flagged \/ memory[j].flagged
  /\ \A i \in Stored : memory[i].flagged => \E c \in conflicts : i \in {c[1], c[2]}

(***************************************************************************)
(* The worker archives an item only for its own age and unimportance, a    *)
(* protected one never, or while another active item says the same; and it *)
(* erases only what nobody could have read for AlphaPurge days.  It acts   *)
(* on what it read when each pass began, while ingestions go on.           *)
(***************************************************************************)
ForgettingIsEarned ==
  [][Forget => \A i \in Stored :
       \/ i \in Stored' /\ memory'[i].status = memory[i].status
       \/ i \in Stored' /\ ShouldAttenuate(i)
       \/ i \in Stored' /\ \E j \in Active \ {i} : j \in Stored' /\ memory'[j].status = "active" /\ Says(i, j)
       \/ i \notin Stored' /\ i \notin Active /\ day - memory[i].archivedAt >= AlphaPurge]_vars
=============================================================================
