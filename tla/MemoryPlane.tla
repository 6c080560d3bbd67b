----------------------------- MODULE MemoryPlane -----------------------------
(***************************************************************************)
(* The memory of one conversation, from a registered text or an uploaded   *)
(* file to chunks, EDUs, C-items, summaries and global items.  Five        *)
(* handlers feed each other through two partitions of the log: the source, *)
(* semantic, summary and global workers read memory_events, the builder    *)
(* (the other half of the summary worker) reads summary_cmd.  An event is  *)
(* given to a handler once, as ConsumerEffect shows of the ledger; a       *)
(* handler that raises or dies leaves its first writes behind and is not   *)
(* run again.  Rows that nobody reads before the event that announces them *)
(* are written in one step, which a failure may cut after any write.       *)
(***************************************************************************)
EXTENDS Naturals, Sequences, FiniteSets, FiniteSetsExt, Functions

CONSTANTS
  Texts,      \* sources registered as text
  Files,      \* uploaded files, each the source its text becomes
  Parts,      \* chunks of each source; each makes one C-item
  Foreign,    \* texts whose external message id is not a UUID
  Salient,    \* sources whose C-items may be promoted
  Deletable,  \* whether the conversation may be marked for deletion
  MaxOpen,    \* bound: sources on their way to C-items and summaries at a time
  Cuts,       \* bound: the numbers of writes after which one may stop half way
  MaxFaults   \* bound: handlers and routes that stop half way

Sources == Texts \cup Files
Readers == {"source", "semantic", "summary", "builder", "global"}
Epochs == 1..Cardinality(Sources)
Master == 0   \* the level MASTER has no epoch number
Summaries == {Master} \cup Epochs

ASSUME PartsAssumption == Parts \in [Sources -> Nat \ {0}]
ASSUME SourcesAssumption ==
  /\ Foreign \subseteq Texts /\ Salient \subseteq Sources
  /\ Texts \cap Files = {} /\ IsFiniteSet(Sources)
ASSUME BoundAssumption == MaxFaults \in Nat

VARIABLES
  active,      \* the conversation is ACTIVE
  asked,       \* texts and files some client has begun to register
  registered,  \* sources with a row
  file,        \* file_registry: status, chunk_count and number of citem_ids
  chunks,      \* chunk rows of each source
  edus,        \* chunks whose EDUs are saved
  citems,      \* C-item rows of each source
  chunkIndex,  \* chunks marked INDEXED
  citemIndex,  \* C-items marked INDEXED
  text,        \* of each summary row: the sources it was built from
  origins,     \* its local_summary_origins
  point,       \* the text its point was embedded from
  reading,     \* the summary row the semantic worker is embedding
  global,      \* sources with global rows
  globalPoints,\* and with points for them
  globalText, globalOrigins, globalPoint, \* the global summary, likewise
  announced,   \* events of the log
  inbox,       \* of each reader: the records it has still to be given
  builds,      \* how often each summary was built
  faults

rows == <<registered, file, chunks, edus, citems, chunkIndex, citemIndex>>
sums == <<text, origins, builds>>
globals == <<global, globalPoints, globalText, globalOrigins, globalPoint>>
index == <<point, reading>>
vars == <<active, asked, rows, sums, index, globals, announced, inbox, faults>>

Event(type, of) == [type |-> type, of |-> of]
Request(level, target) == [type |-> "SUMMARY_REQUESTED", of |-> target, level |-> level]

\* Mutant: the semantic worker has no branch for EDU_SEGMENTED.
TypesNoEdu(r) ==
  CASE r = "source" -> {"FILE_UPLOADED", "SOURCE_REGISTERED"}
    [] r = "semantic" -> {"CHUNK_CREATED", "CITEM_CREATED", "SUMMARY_CREATED", "SUMMARY_UPDATED"}
    [] r = "summary" -> {"CITEM_CREATED"}
    [] r = "builder" -> {"SUMMARY_REQUESTED"}
    [] r = "global" -> {"CITEM_CREATED", "PROMOTED_GLOBAL"}
\* What each reader has a handler for; it passes over all other records.
Types(r) ==
  CASE r = "source" -> {"FILE_UPLOADED", "SOURCE_REGISTERED"}
    [] r = "semantic" -> {"CHUNK_CREATED", "EDU_SEGMENTED", "CITEM_CREATED",
                          "SUMMARY_CREATED", "SUMMARY_UPDATED"}
    [] r = "summary" -> {"CITEM_CREATED"}
    [] r = "builder" -> {"SUMMARY_REQUESTED"}
    [] r = "global" -> {"CITEM_CREATED", "PROMOTED_GLOBAL"}

\* Records in the order of the log.  The id of a summary event is derived from
\* the summary: when it is appended again, every ledger passes it over.
Given(r, type) == active /\ inbox[r] # <<>> /\ Head(inbox[r]).type = type
Current(r) == Head(inbox[r])

\* What an appended record adds to the inbox of reader q.
Fresh(q, e) == IF e \in announced \/ e.type \notin Types(q) THEN <<>> ELSE <<e>>

\* The inboxes after reader r has taken its record and these were appended.
\* No handler appends more than two.
Advance(r, events) ==
  LET rest(q) == IF q = r THEN Tail(inbox[q]) ELSE inbox[q]
      new(q, k) == IF k <= Len(events) THEN Fresh(q, events[k]) ELSE <<>> IN
  /\ announced' = announced \cup Range(events)
  /\ inbox' = [q \in Readers |-> rest(q) \o new(q, 1) \o new(q, 2)]

\* A handler makes its first n writes; less than all of them is a failure.
Makes(n, all) ==
  /\ n \in 0..all
  /\ IF n = all THEN UNCHANGED faults
     ELSE n \in Cuts /\ faults < MaxFaults /\ faults' = faults + 1

Least(a, b) == IF a < b THEN a ELSE b
After(n, k) == IF n > k THEN n - k ELSE 0

\* The event of a handler, appended by its last write.
Final(n, all, event) == IF n = all THEN <<event>> ELSE <<>>

TypeOK ==
  /\ active \in BOOLEAN /\ asked \subseteq Sources /\ registered \subseteq Sources
  /\ file \in [Files -> [status : {"NONE", "QUEUED", "PROCESSING", "READY", "FAILED"},
                         chunks : Nat, items : Nat]]
  /\ \A count \in {chunks, edus, citems, chunkIndex, citemIndex} :
       count \in [Sources -> Nat] /\ \A s \in Sources : count[s] <= Parts[s]
  /\ text \in [Summaries -> SUBSET Sources] /\ origins \in [Summaries -> SUBSET Sources]
  /\ point \in [Summaries -> SUBSET Sources] /\ reading \in SUBSET Sources
  /\ builds \in [Summaries -> Nat]
  /\ global \subseteq Salient /\ globalPoints \subseteq global
  /\ globalText \subseteq global /\ globalOrigins \subseteq global /\ globalPoint \subseteq global
  /\ \A r \in Readers : Range(inbox[r]) \subseteq {e \in announced : e.type \in Types(r)}
  /\ faults \in 0..MaxFaults

Init ==
  /\ active = TRUE
  /\ asked = {}
  /\ registered = {}
  /\ file = [f \in Files |-> [status |-> "NONE", chunks |-> 0, items |-> 0]]
  /\ chunks = [s \in Sources |-> 0]
  /\ edus = [s \in Sources |-> 0]
  /\ citems = [s \in Sources |-> 0]
  /\ chunkIndex = [s \in Sources |-> 0]
  /\ citemIndex = [s \in Sources |-> 0]
  /\ text = [m \in Summaries |-> {}]
  /\ origins = [m \in Summaries |-> {}]
  /\ point = [m \in Summaries |-> {}]
  /\ reading = {}
  /\ global = {} /\ globalPoints = {}
  /\ globalText = {} /\ globalOrigins = {} /\ globalPoint = {}
  /\ announced = {}
  /\ inbox = [r \in Readers |-> <<>>]
  /\ builds = [m \in Summaries |-> 0]
  /\ faults = 0

-----------------------------------------------------------------------------
(***************************************************************************)
(* The tables.  A save upserts one row by its id, a mark sets the vector   *)
(* state of rows that exist, and a list finds the rows that are there, be  *)
(* they fewer than the event named.  k rows are saved one after the other. *)
(***************************************************************************)
NewFileRow(f) == [file EXCEPT ![f].status = "QUEUED"]
ChunkRows(s, k) == [chunks EXCEPT ![s] = Least(k, Parts[s])]
ChunksFound(s) == chunks[s]
ChunkMarks(s, k) == [chunkIndex EXCEPT ![s] = Least(k, chunks[s])]
EduRows(s, k) == [edus EXCEPT ![s] = Least(k, chunks[s])]
EdusFound(s) == edus[s]
CItemRows(s, k) == [citems EXCEPT ![s] = Least(k, edus[s])]
CItemsFound(s) == citems[s]
CItemMarks(s, k) == [citemIndex EXCEPT ![s] = Least(k, citems[s])]
SummaryRow(m, s) == [text EXCEPT ![m] = {s}]
SummariesFound == {m \in Summaries : text[m] # {}}
OriginRows(m, items) == [origins EXCEPT ![m] = items]
SummaryMark(m) == [point EXCEPT ![m] = reading]
GlobalRow(s) == global \cup {s}
GlobalMark(s) == globalPoints \cup {s}
GlobalsFound(saved) == saved
SaveGlobalSummary(n, found) == globalText' = IF n >= 1 THEN found ELSE globalText
SaveGlobalOrigins(n, found) ==
  globalOrigins' = CASE n <= 1 -> globalOrigins [] n = 2 -> {} [] OTHER -> found
IndexGlobalSummary(n, found) == globalPoint' = IF n >= 4 THEN found ELSE globalPoint

-----------------------------------------------------------------------------
(***************************************************************************)
(* The two routes.  Each saves its row and then appends its event.         *)
(***************************************************************************)
Open == {s \in Sources : \E r \in Readers : \E k \in DOMAIN inbox[r] : inbox[r][k].of = s}

RegisterText(s, n) ==
  /\ active /\ s \in Texts \ asked
  /\ Cardinality(Open) < MaxOpen
  /\ asked' = asked \cup {s}
  /\ Makes(n, 2)
  /\ registered' = IF n >= 1 THEN registered \cup {s} ELSE registered
  /\ Advance("route", Final(n, 2, Event("SOURCE_REGISTERED", s)))
  /\ UNCHANGED <<active, file, chunks, edus, citems, chunkIndex, citemIndex>>
  /\ UNCHANGED <<sums, index, globals>>

RegisterFileUpload(f, n) ==
  /\ active /\ f \in Files \ asked
  /\ Cardinality(Open) < MaxOpen
  /\ asked' = asked \cup {f}
  /\ Makes(n, 2)
  /\ file' = IF n >= 1 THEN NewFileRow(f) ELSE file
  /\ Advance("route", Final(n, 2, Event("FILE_UPLOADED", f)))
  /\ UNCHANGED <<active, registered, chunks, edus, citems, chunkIndex, citemIndex>>
  /\ UNCHANGED <<sums, index, globals>>

-----------------------------------------------------------------------------
(***************************************************************************)
(* The source worker.                                                      *)
(***************************************************************************)
\* update_file_record: what a caller does not pass is set to its default.
FileRow(status, k, items) == [status |-> status, chunks |-> k, items |-> items]

\* PROCESSING, the source row, its event, the ledger.  What raises, be it the
\* ledger at the end, leaves the file FAILED; a crash leaves it PROCESSING.
HandleFileUploaded(n, raised) ==
  LET f == Current("source").of IN
  /\ Given("source", "FILE_UPLOADED")
  /\ Makes(n, 4)
  /\ raised => n \in 1..3
  /\ file' = IF n = 0 THEN file
             ELSE [file EXCEPT ![f] = FileRow(IF raised THEN "FAILED" ELSE "PROCESSING", 0, 0)]
  /\ registered' = IF n >= 2 THEN registered \cup {f} ELSE registered
  /\ Advance("source", IF n >= 3 THEN <<Event("SOURCE_REGISTERED", f)>> ELSE <<>>)
  /\ UNCHANGED <<active, asked, chunks, edus, citems, chunkIndex, citemIndex>>
  /\ UNCHANGED <<sums, index, globals>>

\* The chunks one by one, the file READY, the event.  A chunk row takes the
\* origin of its source for the id of a file and cannot be written when that is
\* not a UUID.
ChunkSource(n) ==
  LET s == Current("source").of IN
  /\ Given("source", "SOURCE_REGISTERED")
  /\ Makes(n, IF s \in Foreign THEN 0 ELSE Parts[s] + 2)
  /\ chunks' = ChunkRows(s, n)
  /\ file' = IF s \in Files /\ n > Parts[s]
             THEN [file EXCEPT ![s] = FileRow("READY", Parts[s], 0)] ELSE file
  /\ Advance("source", Final(n, Parts[s] + 2, Event("CHUNK_CREATED", s)))
  /\ UNCHANGED <<active, asked, registered, edus, citems, chunkIndex, citemIndex>>
  /\ UNCHANGED <<sums, index, globals>>

-----------------------------------------------------------------------------
(***************************************************************************)
(* The semantic worker.                                                    *)
(***************************************************************************)
\* The EDUs of each chunk, all points, the chunk rows, the event.
SegmentChunks(n) ==
  LET s == Current("semantic").of
      k == ChunksFound(s) IN
  /\ Given("semantic", "CHUNK_CREATED")
  /\ Makes(n, IF k = 0 THEN 0 ELSE 2 * k + 2)
  /\ edus' = EduRows(s, n)
  /\ chunkIndex' = ChunkMarks(s, After(n, k + 1))
  /\ Advance("semantic", Final(n, 2 * k + 2, Event("EDU_SEGMENTED", s)))
  /\ UNCHANGED <<active, asked, registered, file, chunks, citems, citemIndex>>
  /\ UNCHANGED <<sums, index, globals>>

\* The C-items one by one, their ids added to the file, the event.
\* Mutant: the event goes out before the last C-item is saved.
BuildCItemsLate(n) ==
  LET s == Current("semantic").of
      k == EdusFound(s) IN
  /\ Given("semantic", "EDU_SEGMENTED")
  /\ Makes(n, k + 2)
  /\ citems' = CItemRows(s, After(n, 1))
  /\ file' = IF s \in Files /\ n > k
             THEN [file EXCEPT ![s] = FileRow("READY", @.chunks, k)] ELSE file
  /\ Advance("semantic", IF n > 0 THEN <<Event("CITEM_CREATED", s)>> ELSE <<>>)
  /\ UNCHANGED <<active, asked, registered, chunks, edus, chunkIndex, citemIndex>>
  /\ UNCHANGED <<sums, index, globals>>
BuildCItems(n) ==
  LET s == Current("semantic").of
      k == EdusFound(s) IN
  /\ Given("semantic", "EDU_SEGMENTED")
  /\ Makes(n, k + 2)
  /\ citems' = CItemRows(s, n)
  /\ file' = IF s \in Files /\ n > k
             THEN [file EXCEPT ![s] = FileRow("READY", @.chunks, k)] ELSE file
  /\ Advance("semantic", Final(n, k + 2, Event("CITEM_CREATED", s)))
  /\ UNCHANGED <<active, asked, registered, chunks, edus, chunkIndex, citemIndex>>
  /\ UNCHANGED <<sums, index, globals>>

\* All points, then the rows.
IndexCItems(n) ==
  LET s == Current("semantic").of IN
  /\ Given("semantic", "CITEM_CREATED")
  /\ Makes(n, CItemsFound(s) + 1)
  /\ citemIndex' = CItemMarks(s, After(n, 1))
  /\ Advance("semantic", <<>>)
  /\ UNCHANGED <<active, asked, registered, file, chunks, edus, citems, chunkIndex>>
  /\ UNCHANGED <<sums, index, globals>>

\* A changed summary is read, embedded, and upserted as it was read.
ReadSummary ==
  /\ \/ Given("semantic", "SUMMARY_CREATED")
     \/ Given("semantic", "SUMMARY_UPDATED")
  /\ reading = {}
  /\ reading' = text[Current("semantic").of]
  /\ UNCHANGED <<active, asked, rows, sums, point, globals, announced, inbox, faults>>

IndexSummary(n) ==
  /\ reading # {}
  /\ Makes(n, 1)
  /\ point' = IF n = 1 THEN SummaryMark(Current("semantic").of) ELSE point
  /\ reading' = {}
  /\ Advance("semantic", <<>>)
  /\ UNCHANGED <<active, asked, rows, sums, globals>>

-----------------------------------------------------------------------------
(***************************************************************************)
(* The summary worker: schedule an epoch and the master for the C-items of *)
(* an event, and build what is requested.                                  *)
(***************************************************************************)
\* The epoch after the last one that has a row.
NextEpoch == 1 + Max((SummariesFound \cap Epochs) \cup {0})

ScheduleSummaries(n) ==
  LET s == Current("summary").of IN
  /\ Given("summary", "CITEM_CREATED")
  /\ Makes(n, 2)
  /\ Advance("summary", SubSeq(<<Request(NextEpoch, s), Request(Master, s)>>, 1, n))
  /\ UNCHANGED <<active, asked, rows, sums, index, globals>>

\* The row with its new text, the old origins deleted, the new ones saved, the
\* event.  _resolve_citems returns the targets of the request, which are stored.
\* Mutant: a rebuilt summary is announced as the first time.
BuildSummaryCreated(n) ==
  LET m == Current("builder").level  s == Current("builder").of IN
  /\ Given("builder", "SUMMARY_REQUESTED")
  /\ Makes(n, 4)
  /\ text' = IF n >= 1 THEN SummaryRow(m, s) ELSE text
  /\ origins' = OriginRows(m, CASE n <= 1 -> origins[m] [] n = 2 -> {} [] OTHER -> {s})
  /\ builds' = IF n >= 1 THEN [builds EXCEPT ![m] = @ + 1] ELSE builds
  /\ Advance("builder", Final(n, 4, Event("SUMMARY_CREATED", m)))
  /\ UNCHANGED <<active, asked, rows, index, globals>>
BuildSummary(n) ==
  LET m == Current("builder").level  s == Current("builder").of IN
  /\ Given("builder", "SUMMARY_REQUESTED")
  /\ Makes(n, 4)
  /\ text' = IF n >= 1 THEN SummaryRow(m, s) ELSE text
  /\ origins' = OriginRows(m, CASE n <= 1 -> origins[m] [] n = 2 -> {} [] OTHER -> {s})
  /\ builds' = IF n >= 1 THEN [builds EXCEPT ![m] = @ + 1] ELSE builds
  /\ Advance("builder", Final(n, 4, Event(IF m \in SummariesFound THEN "SUMMARY_UPDATED" ELSE "SUMMARY_CREATED", m)))
  /\ UNCHANGED <<active, asked, rows, index, globals>>

-----------------------------------------------------------------------------
(***************************************************************************)
(* The global worker: schedule the promotion of what is salient, promote,  *)
(* and refresh the global summary of the conversation.                     *)
(***************************************************************************)
ScheduleGlobal(n) ==
  LET s == Current("global").of IN
  /\ Given("global", "CITEM_CREATED")
  /\ Makes(n, 1)
  /\ Advance("global", IF n = 1 /\ s \in Salient THEN <<Event("PROMOTED_GLOBAL", s)>> ELSE <<>>)
  /\ UNCHANGED <<active, asked, rows, sums, index, globals>>

\* _refresh_global_summary, over all global rows of the conversation: the
\* summary row, the old origins deleted, the new ones saved, point and mark.
RefreshGlobalSummary(n) ==
  LET found == GlobalsFound(global') IN
  /\ SaveGlobalSummary(n, found) /\ SaveGlobalOrigins(n, found) /\ IndexGlobalSummary(n, found)

\* Row and evidence, point and mark, then the global summary.
Promote(n) ==
  LET s == Current("global").of IN
  /\ Given("global", "PROMOTED_GLOBAL")
  /\ Makes(n, 6)
  /\ global' = IF n >= 1 THEN GlobalRow(s) ELSE global
  /\ globalPoints' = IF n >= 2 THEN GlobalMark(s) ELSE globalPoints
  /\ RefreshGlobalSummary(After(n, 2))
  /\ Advance("global", <<>>)
  /\ UNCHANGED <<active, asked, rows, sums, index>>

-----------------------------------------------------------------------------
\* The conversation is marked for deletion.  Each handler that starts after
\* this completes its ledger row and does nothing, so what the readers have
\* still to be given is gone, but for the summary that is being embedded.
BeginDelete ==
  /\ Deletable /\ active
  /\ active' = FALSE
  /\ inbox' = [r \in Readers |-> IF r = "semantic" /\ reading # {} THEN <<Current(r)>> ELSE <<>>]
  /\ UNCHANGED <<asked, rows, sums, index, globals, announced, faults>>

\* The writes of the routes and handlers, up to a cut or all of them.
Writes ==
  Cuts \cup {0, 1, 2, 4, 6} \cup UNION {{Parts[s] + 1, Parts[s] + 2, 2 * Parts[s] + 2} : s \in Sources}

Handle(r, n) ==
  CASE r = "source" -> ChunkSource(n) \/ \E raised \in BOOLEAN : HandleFileUploaded(n, raised)
    [] r = "semantic" -> SegmentChunks(n) \/ BuildCItems(n) \/ IndexCItems(n) \/ IndexSummary(n)
    [] r = "summary" -> ScheduleSummaries(n)
    [] r = "builder" -> BuildSummary(n)
    [] r = "global" -> ScheduleGlobal(n) \/ Promote(n)

Consume(r) ==
  \/ r = "semantic" /\ ReadSummary
  \/ \E n \in Writes : Handle(r, n)

Next ==
  \/ \E n \in Writes, s \in Sources : RegisterText(s, n) \/ RegisterFileUpload(s, n)
  \/ \E r \in Readers : Consume(r)
  \/ BeginDelete

\* Workers that are up go on reading; that one of them moves is enough.
Fairness == WF_vars(\E r \in Readers : Consume(r))

Spec == Init /\ [][Next]_vars /\ Fairness

-----------------------------------------------------------------------------
Announced(type, s) == Event(type, s) \in announced

\* An event is in the log only when all the rows it speaks of are stored.
RowsBeforeEvents ==
  /\ \A s \in Sources :
       /\ Announced("SOURCE_REGISTERED", s) => s \in registered
       /\ Announced("CHUNK_CREATED", s) => chunks[s] = Parts[s]
       /\ Announced("EDU_SEGMENTED", s) => edus[s] = Parts[s] /\ chunkIndex[s] = Parts[s]
       /\ Announced("CITEM_CREATED", s) => citems[s] = Parts[s]
  /\ \A m \in Summaries :
       Announced("SUMMARY_CREATED", m) \/ Announced("SUMMARY_UPDATED", m) => text[m] # {}

\* A file that is READY has all its chunks, and the counts in its row are
\* those of the tables, whichever of the two handlers wrote them last.
FileStatusTrue ==
  \A f \in Files :
    /\ file[f].status = "READY" => chunks[f] = Parts[f] /\ file[f].chunks = chunks[f]
    /\ file[f].items # 0 => file[f].items = citems[f]
    /\ file[f].status = "FAILED" => faults > 0

(***************************************************************************)
(* Whatever fails: no handler finds less than an event promises, and the   *)
(* file rows say what the other tables hold.                               *)
(***************************************************************************)
RowsAreTrue == TypeOK /\ RowsBeforeEvents /\ FileStatusTrue

AtRest == \A r \in Readers : inbox[r] = <<>>
InPeace == faults = 0 /\ active

\* Each batch of C-items has an epoch to itself, unless another batch was
\* given the same number before the first was built; a summary that was built
\* at most twice has its last text in the index.  (After a third build the ids
\* of the two update events are the same, and the ledger skips the second: the
\* index keeps the older text.)
Requests == {e \in announced : e.type = "SUMMARY_REQUESTED"}
SummariesSettle ==
  /\ \A e \in Requests : e.level # Master =>
       \/ text[e.level] = {e.of} /\ origins[e.level] = {e.of}
       \/ \E o \in Requests \ {e} : o.level = e.level
  /\ \A m \in Summaries : builds[m] <= 2 => point[m] = text[m]

\* Every salient C-item that was announced is global and in the index, and the
\* global summary names all of them in its text, its origins and its point.
GlobalSettles ==
  /\ global = {s \in Salient : Announced("CITEM_CREATED", s)}
  /\ \A names \in {globalPoints, globalText, globalOrigins, globalPoint} : names = global

(***************************************************************************)
(* What summaries and global memory come to when their events are handled  *)
(* and nothing has failed, in whatever order the five handlers met.        *)
(***************************************************************************)
MemorySettles ==
  InPeace =>
    /\ AtRest => SummariesSettle
    /\ inbox["global"] = <<>> => GlobalSettles

(***************************************************************************)
(* Every source that is announced is chunked, segmented and indexed in the *)
(* end, if nothing fails and the conversation stays active.                *)
(***************************************************************************)
Indexed(s) == chunkIndex[s] = Parts[s] /\ citemIndex[s] = Parts[s]
EverySourceIndexed ==
  []InPeace => <>[](\A s \in asked : Indexed(s))
=============================================================================
