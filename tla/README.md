# A TLA+ model of CIMA

CIMA (`src/cima_demo`) puts a governed memory and a verifiable context
construction in front of a language model. This directory holds TLA+ modules
that model what its processes do to shared state, how they fail, and the
algorithms between a conversation and a cited answer; TLC configurations that
check them on small instances; and theorems that the TLA+ proof system checks for
every value of the constants. `PROJECT.json` maps each definition to the lines it
models, names each hazard of the code with the properties that would catch it,
and lists a mutant for every property: a plausible bug that makes TLC reject it.

To check a model: `tlc -workers 2 -config MCOutbox_plane.cfg MCOutbox`. To check
the proofs of a module: `tlapm Outbox_proofs.tla`.

## The system

One FastAPI process serves chat turns. In standalone mode its stores are in
memory. In the full runtime they are Postgres and Qdrant, and a plane of worker
processes joined by Kafka indexes, summarises, maintains and deletes what the
turns leave behind.

    client --> chat routes --> orchestrator.handle_turn --> Postgres, outbox
                  |  ^                |      |
                  |  '-- SSE bus <----'      '--> controller: retrieval, markers,
                  |      (TOKEN, ERROR, DONE)     answer, repair, gate --> adapters
                  '--> turn mutex (task_memory.turn_in_progress)

    outbox --> publisher --> Kafka --> consumers, each behind the effect ledger
                                          semantic, source, summary, global,
                                          gc (hard delete, maintenance), geometry,
                                          read-model projector

    forget worker, ephemeral mirror, inline ingestion: beside that plane, in Qdrant

### Inventory

Paths are under `src/cima_demo`. The last column names the module, or says "no"
(see "What is not modelled").

| Component | State | Operations | What is hard | What makes it correct | Model |
|---|---|---|---|---|---|
| Transactional outbox and publisher: `witness_backend/publisher.py`, `outbox_store.py` | `outbox` rows, the batch in memory, the Kafka log | append, claim, send, mark ERROR, mark SENT | several publishers, crash between statements, late acknowledgements | a row is held by one publisher, handed over at most once, SENT only when logged | `Outbox` |
| Effect ledger and worker loop: `consumer_effect.py`, `*_worker_main.py` | `consumer_effect` rows, committed offset, partition owner | begin, handler, complete, commit | redelivery, rebalance, a handler that dies or always raises | each event has at most one run; a poison event does not stop the partition, a record that raises before its ledger row does | `ConsumerEffect`, `AtMostOnceEffect` |
| Asynchronous hard delete: `hard_delete.py`, `lifecycle_guard.py`, `api/routers/conversations.py` | conversation status, `delete_run`, mutex, rows and points | DELETE, request event, purge, completion | late and repeated requests, an id opened again, handlers past their guard | only the run the row names purges, but for one whose row the other route removed; completion is true; no other delete touches an ACTIVE conversation | `HardDelete` |
| Synchronous audited delete: `conversations.py:177` | mutex, audit rows, rows and points | lock, count, sweep, look again, audit, release | the mutex goes with the row; an id opened anew under the call; each call may raise | 204 means that all is gone and audited; turns stay apart | `AuditedDelete` |
| Chat turn: `api/routers/chat.py`, `application/orchestrator.py`, `infrastructure/events/direct.py`, `demo/runtime/journal.py` | mutex, bus and queues, stream, task, history record, journal status | accept, subscribe, publish, receive, disconnect, cancel, persist, release, finalize, DONE | cancellation at any await, a full queue, two turns on one bus key | turns are kept apart; DONE means settled; a closed answer is whole; streams close | `ChatTurn`, `ChatRequest` |
| Model and text adapters: `infrastructure/llm/`, `infrastructure/reranker/tei.py` | the active response, attempts, the reranker's circuit | stream, complete, retry, abort, rerank | streams that break, stop or are closed by another turn; retries after text | an answer is one response; a turn returns | `ModelCalls` |
| Vector maintenance and ephemeral items: `witness_backend/maintenance.py`, `ephemeral.py`, `ephemeral_runtime.py` | vector states, leases, points, maintenance runs, vector events | build, upsert, mark, tell, thin, expire, reconcile | two stores without a transaction; selections that grow stale | row, point and last event agree; reconciliation repairs | `VectorPlane` |
| Inline memory and forget worker: `memory/`, `workers/forget_worker.py`, `demo/lifecycle/service.py` | points and their payload, conflict log, file rows | ingest a message, batch or file, detect, attenuate, purge, remove copies, reconcile | check-then-save, detections side by side, passes over old reads | a contradiction is flagged; nothing is forgotten without cause | `InlineMemory` |
| Source and semantic pipelines: `source_ingest.py`, `semantic_pipeline.py` | file, chunk, EDU, C-item rows, inboxes | register, chunk, segment, build, index | partial failure under fresh ids, events of halves | rows before events; file rows tell the truth | `MemoryPlane` |
| Segmentation: `infrastructure/files/chunker.py`, `semantic_pipeline.py`, `demo/lineage/service.py` | none kept | cut, locate, classify, join | white space, repetitions, long paragraphs | chunks lose and invent nothing, and are found where they stand | `Segmentation` |
| Summaries and global memory: `summary_pipeline.py`, `global_memory.py` | summaries by epoch, origins, event ids, global rows | schedule, build, index, promote, refresh | two schedulers of one epoch, ids made once | every C-item is covered; text, origins and point agree when at rest | `MemoryPlane` |
| Runtime controller: `demo/runtime/controller.py`, `c3_sanitize.py`, `demo/context/`, `demo/lineage/` | pack, registry, markers, support, draft | register, retrieve, resolve, control, zoom, answer, repair, gate, memory | a registry renumbered half way, clean-up passes that undo each other, a summary rebuilt while it is read | a streamed marker shows one item with evidence; the gate tells the truth | `AnswerTurn` |
| Retrieval: `retrieval/`, `domain/operations.py`, `infrastructure/qdrant/expander.py` | none kept | recall, fuse, rerank, expand, bridge, select, pack, try again | a reranker that is down, budgets shared from different totals | nothing invented, budget kept and filled | `Retrieval` |
| Handoff: `demo/handoff/service.py` | capsules, validations, restores, all tables they copy | export, validate, restore, restore again | a few dozen transactions in a row | a restore is closed and faithful, or writes nothing | `Handoff` |
| Geometry service: `geometry/` | runs, hints | recompute, purge | outputs appended one by one | outputs of a command are whole | no |
| Read-model projector: `projector_consumer.py` | read model rows | upsert, tombstone | order | the read model follows the last event | no |
| Domain event buses, cognitive kernel, API wiring, demonstration harness, publication audit of artifacts | | | | | no |

## The modules

| Module | What it is |
|---|---|
| `Outbox`, `MCOutbox`, `Outbox_proofs` | one outbox schema with its publishers and the log |
| `AtMostOnceEffect` | the abstract promise of the ledger: one run per event, write after write, never resumed |
| `ConsumerEffect` | one partition of one consumer group; implements `AtMostOnceEffect` |
| `ModelCalls` | the turns of a process and the model adapters they share |
| `WorkersAndTurns`, `MCConsumerEffect`, `ConsumerEffect_proofs` | those two side by side, their instances, and the proofs about both |
| `HardDelete` | the life and asynchronous deletion of one conversation |
| `AuditedDelete` | the synchronous deletion of one conversation |
| `Deletions`, `MCHardDelete`, `HardDelete_proofs` | those two views of a conversation put together, their instances, and the proofs about both |
| `ChatTurn`, `ChatTurn_proofs` | the chat turns of one conversation |
| `ChatRequest` | operators: what the routes read in a request and show of a turn |
| `MCChatTurn` | instances of `ChatTurn`, and the requests `ChatRequest` is judged on |
| `VectorPlane`, `VectorPlane_proofs` | rows, points and vector events under writers and maintenance runs |
| `InlineMemory`, `InlineMemory_proofs` | what a conversation writes into the vector store itself, and the forget worker |
| `VectorStore`, `MCVectorPlane` | those two side by side, and their instances |
| `MemoryPlane`, `MemoryPlane_proofs` | from a text or file to chunks, C-items, summaries and global items |
| `Segmentation` | operators: cutting a text, finding chunks again, EDUs, types, promotion |
| `MCMemoryPlane` | an instance of `MemoryPlane`, and the texts `Segmentation` is judged on |
| `AnswerTurn`, `AnswerTurn_proofs` | one turn of the controller: evidence, markers, answer, gate |
| `Retrieval` | operators: from hits to a pack of context |
| `Handoff` | operators: export, validation and restore of a capsule |
| `MCAnswerTurn` | an instance of `AnswerTurn`, the scenarios of `Retrieval`, the worlds of `Handoff` |

Operators whose comment says "mutant" are the changed forms PROJECT.json swaps
in; no action uses them.

`Deletions`, `WorkersAndTurns` and `VectorStore` each put two modules together of
which no property is about both: each moves while the other is where it began, or
has come to rest, so that every behaviour of either is checked without their product.
In `WorkersAndTurns` and `VectorStore` the two share no state of the program. Those of
`Deletions` do: both routes are mounted and meet at one row and one mutex. There each
module has the other route in itself, as far as it reaches what the module is about
(`Erasers` in `HardDelete`, `Collectors` in `AuditedDelete`), and the composition adds
no meeting of the two. The proofs are about the specification of each
module by itself (`Spec`, `Audited!Spec`, `Calls!Spec`, `Inline!Spec`), which the
composition implies (`BothDelete`, `BothRun`, `BothStore`). The modules of pure
operators (`ChatRequest`, `Segmentation`, `Retrieval`, `Handoff`) are judged on
every input of a bounded set in the first step of the run (`RequestsAreServed`,
`TextsReachMemory`, `PackIsRight`, `RestoreIsRight`).

### Outbox

A row goes ABSENT, NEW, CLAIMED, then SENT or ERROR. `ClaimOutboxBatch` is the
one autocommitted `UPDATE ... FOR UPDATE SKIP LOCKED` of
`PostgreSQLAdapter._claim_outbox_batch` with the decoding of its rows, which can
raise after the commit and outside the publisher's `try`. Sends of a batch are
separate steps. `MarkOutboxError` follows each failed send, `MarkOutboxSent` is
one statement for the batch. `Crash` forgets what the publisher held. The log is
a count of copies for each row: with several publishers it has no useful order,
and none is modelled. Claimed and rejected rows are never taken up again by any
code, so the model has no such step. Three constants describe the deployment:
`JsonbAsText`, whether the driver hands jsonb over as text; `DoubleEncode`,
whether the producer has serializers of its own; `BrokerFails`.

### ConsumerEffect

The loop shared by all `*_worker_main.py`: poll, ledger begin
(`INSERT ... ON CONFLICT DO NOTHING`), `Steps` writes, ledger complete, offset
commit. A handler that raises ends the process. Kafka assigns a free partition to
an idle member, may take it from a live one, and refuses the commit of a member
that has lost it. A resent record is a second record of the same event. A handler
that raises after begin (`Poison`, `Raise`) leaves STARTED, and the next member skips the
event. A record may also raise before it has a ledger row (`Unreadable`, `RaiseEarly`):
the deserializer of the gc worker (`gc_worker_main.py:55`), and the validation
with which the handlers of hard deletes, of the semantic consumers and of maintenance
begin. Then neither row nor commit is left, and every member that gets the partition
reads the same record again. `Passable` is the offset before the first such record:
the group gets there, and no further (`PoisonIsPassed`).

### HardDelete

The DELETE route, chat turns, handlers of the semantic consumers and gc workers
share one conversation. Each SQL statement or transaction of the code is a step,
each call to Qdrant is a step. `begin_hard_delete` is one transaction, the request
event is another. The ledger is used as `ConsumerEffect` describes it. The route
of OpenAI clients upserts the conversation, so an id that was deleted can live
again (`gen` counts its lives). The ephemeral registry is not apart from the
points. Of the semantic handlers the one for `chunk.created` stands for all: each
reads the status once, saves and upserts a point. What its mark on the row
(`vector_state`) may do beside the point is the matter of `VectorPlane`.

`Erasers` are calls of `DELETE /cima/v1/conversations/{id}`: they ask for the mutex alone
(`LockForErasure`) and remove the row in whatever status it is (`EraseRow`); when a call
raises they release (`ReleaseAfterErasure`). The points of the semantic consumers stay
after them, because `QdrantAdapter.delete_by_conversation` clears its own collection only.
When the row they remove was DELETING, its run is `overtaken`: its event is still to be
delivered, and the worker that gets it checks neither status nor run, so it purges
whatever lives under the id by then, without owning it. The properties name this case
(`Owned`, `Unheeding`) and hold of every other run. `NeedsAttachment` is the return of
`orchestrator.py:317-350`, which keeps the mutex: the turn is "left", and `MutexIsFreed`
excuses it by name.

### ChatTurn

Requests of either route for one conversation. A request takes the mutex
(`Accept`), its generator subscribes and starts the task (`Subscribe`), the task
runs `handle_turn`: `Open`, `BeginTurn`, `StreamToken`, the end of the `try`
block (`ControllerReturns`, `ControllerFails`), `Persist`, `Release`, `Finalize`,
`Finish`. A task step ends where the code awaits something another party can see.
`CancelTask` raises `CancelledError` at the await where the task stands: inside
the `try` it leads into `finally`, elsewhere it ends the task, and the call under
way has been carried out or not. `Disconnect`, `StreamTimeout`, `AwaitTask` and
`DrainError` are the four places that cancel. `EarlyExit` is the return of a turn
that needs an attachment, which publishes no DONE and leaves the mutex held.

The bus is modelled with its eviction: ERROR and DONE are put by force, a token
is evicted for them, terminals before it go to the tail, and the sentinel after
DONE evicts nothing. Deltas carry the turn that published them, which the code's
do not; only the properties look at it. REASONING deltas go the way of tokens. The
non-streaming OpenAI route reads the same generator to its end. Turn metrics,
lineage and promotions are not state of the model.

### AuditedDelete

The synchronous path of `DELETE /cima/v1/conversations/{id}`: `Look`, `Lock`, the counts
before, points, rows, the look at what is left, a second sweep, the audit and its trace,
the release. The mutex is a column of a row that the call itself deletes, so from then on
a request can open the same id anew and take a new mutex, and a late release by
conversation id may free the mutex of another party (`blind`). A gc worker with a pending
event (`Collectors`, `Collect`) may remove the row, points and all, between any two steps
of the call. `Held` is a row that cannot go. Each call that can raise does so in `Raise`,
and the step that follows is that of the `except` it lands in. What the deletion does not
clear (`left`: plans, plan steps, conflicts) and a promoted memory, whose foreign key
makes the delete fail, are kinds of stored items.

### ModelCalls

Turns of several conversations over one adapter of either kind. `active` is
`_active_response`; llama.cpp's `stream_text` never sets it, and a stream that has
ended has forgotten its own, so `Stop` (the orchestrator's `abort`) can only close the
stream of another conversation's turn. The retry rules of each adapter, the fallback
from a stream to a completion and the reranker's breaker, which counts a late success
or failure of a call begun before it opened, are the guards.

### ChatRequest

Parsing of messages (texts, images, files with or without a wrapper), choice of the
prompt, admission of a conversation, the token budget, and the projection of a
turn's deltas onto each route: events of the native stream, chunks of the OpenAI
stream, the buffered body.

### VectorPlane

Each item has a row state, a point, and the last thing `vector.events` said of it. A
writer that indexes upserts all its points in one call and then goes from row to row,
event by event. The builder of summaries makes no point: it reads a row (`Look`, `held`),
builds the text, and saves the row with the state it has read (`SaveRow`,
`summary_pipeline.py:264-291`, `postgres.py:3025`), in another process than the semantic
consumer that may set INDEXED in between. A maintenance run reads rows, deletes points,
marks rows, tells. The model follows the calls one by one, each in its own step, and lets
any of them raise (`RunRaises`, the run FAILED) or the process die (`RunCrashes`).
`BeginRun` and `AppendRun` are two transactions. A run's collections are visited in the
code's order; runs of one partition key are taken one after the other. Ages and expiry
times are the clock's free choice; a scroll is one read. The collections a run has still
to go through are sets of kinds: those whose rows it reads next, those whose points it
visits next, and those of later stages.

`raced` and `quiet` are bookkeeping of the properties. `raced` says of an item
whether a writer and a run have met on it, whether its row has changed while a builder
holds what it read (`Holding`), or one of them stopped half way, and whether a
reconciliation has gone over it since. An item is quiet for a run that has
taken it up when nobody was writing it, when it was just as quiet for every run that
was still at it, and as long as no writer comes to it. The clause about the other
runs is needed: an upsert between the reads of an older run and the beginning of a
reconciliation lets the older run erase the point of a row that is live, after the
reconciliation has seen to it.

### InlineMemory

Batches of kind message, batch and file go through look-up, save, detection and flags
while a forget worker and a reconciliation act on what they read before. `Exists` counts
archived copies and answers FALSE when it fails; `SkipDuplicate` leaves the row of a file
that is there already PROCESSING (the instance has one file, so that it does not get
there: a second one makes the run four times as long). Importance is an integer
percentage, days are a bounded counter, the judgement of the NLI model a constant
relation.

### MemoryPlane

Five handlers and two partitions. Each source has a number of chunks; a table is a
count of rows for a source, or a set. A handler's writes are one step that a fault
may cut after any of them (`n` of `all`, bounded by `Cuts` in the instance); the
event that announces rows is the last. A handler that failed is not run again, as
`ConsumerEffect` shows of the ledger. `IndexSummary` is two steps (`ReadSummary`)
because a summary can be rebuilt between them. `BeginDelete` ends the conversation:
every guard of `lifecycle_guard.py` then drops what is left.

### Segmentation

A text is a sequence of clauses (kind, length, gap before it, marks its words carry).
`Chunks` is the chunker, `Spans` the search of `demo/lineage/service.py` for a
chunk in its text, with its fallbacks, `Segment` the EDUs, `Build` and `Classify`
the C-items, `Shown` what a summary displays.

### AnswerTurn

A marker is a pair such as `<<"S", 2>>`; an answer is a function from places to blocks,
each with a kind and the markers it cites, so that what was published can be laid beside
what the model said. Of kind "short" is a line that the contract takes for no claim unless
it cites (`controller.py:1683-1688`: under 24 characters, or under 140 without `.`, `!` or
`?`). The gate says nothing of short lines without a citation, although a factual bullet
can be one: `GateIsTrue` is about the others. `RegisterQuestion` to `ApplyMemory` are the
passes of `DemoTurnController.run_turn`; each may fail (`ModelFails`). The texts of
C-items carry labels of their own (`Single`, `Grouped`), of which the escaping removes
only the single ones. A summary worker replaces text and origins beside the turn until the
prompt is composed. `_trim` may drop any subset of citable rows; zoom drops a suffix.

### Retrieval and Handoff

`Retrieval` is a scenario (library, hops with recall order, dense and rerank scores, plan,
budget, what failed) to a pack; scores are integers of which only the order and the
thresholds matter. `Handoff` is a world (a record with one set of rows for each table) to
a world: `create_handoff` gives a capsule, `validate_handoff` a verdict. `LegacyNodes` are
found only in a conversation without witness summaries (`load_summaries`,
`postgres.py:731-739`); a reference to one is not bundled once there are any, and the
capsule is invalid. `RestoreWrites` is the sequence of transactions of a restore,
performed up to any point and then again under new ids.

## What is checked

Bounds are constants of the modules and named in the configurations. Deadlock is
not checked where everything asked for may have been served.

| Run | Shows | Instance |
|---|---|---|
| `outbox_plane` | `TypeOK`, `ClaimsExclusive`, `HandedOverOnce`, `SentIsLogged`; `EveryRowClaimed` and `EveryClaimSettles` under fairness | 3 rows (an event and two tombstones, one of them refused), 2 publishers, batches of 2, 2 copies for a send, 1 crash, a failing broker: 11 000 states |
| `outbox_deployed` | violation of `EveryRowReachesLog` | as wired by `publisher_main.py` |
| `ledger_group` | `SuccessIsWhole`, `CommittedWasBegun`, the refinement `AtMostOnce`, `PoisonIsPassed`; of the adapters `AnswersAreWhole`, `TurnsReturn` | 4 records of 3 events, one poison, one resent, one unreadable, 3 workers, 2 writes, 1 fault; 2 turns, 1 retry, breaker at 2, 2 chunks: 64 000 states |
| `ledger_exactly` | violation of `ExactlyOnce` | 2 workers, 1 crash |
| `hdel_plane` | `TypeOK`, `PurgersOwnTheRow`, `CompletionIsTrue`, `ActiveIsUntouched`, `DeletionCompletes`, `MutexIsFreed`; of the synchronous path `DeleteIsAccountable` | 2 DELETE calls, 1 call at `/cima/v1`, 1 turn, 1 handler, 2 workers, 1 fault, 2 lives; 1 audited call, 2 turns, 1 indexer, 1 gc worker, 1 raised call: 989 000 states |
| `hdel_resurrect` | violation of `NothingResurrected` | 1 call, 1 handler, 1 worker, no fault |
| `chat_bus` | `TypeOK`, `OneTurnAtATime`, `AnswerIsWhole`, `DoneMeansSettled`; `StreamsClose` and `LockIsFreed` under fairness; `RequestsAreServed` | a turn of each route, queues of 2, 1 raised database call: 217 000 states; dialogues of up to 3 messages, turns of up to 3 deltas before their end |
| `chat_done` | violation of `DoneClosesItsTurn` | the same, no fault |
| `chat_release` | violation of `ReleaseAlwaysRuns` | the same, no fault |
| `vector_plane` | `StoresAgree`, `ReconcileIsRight`; inline `ContradictionsAreFlagged`, `ForgettingIsEarned` | a summary with its builder and its indexer, a lease with its mirror, a thinning, an expiry and a reconciliation of which two run, 1 fault; a message, a batch of 2, a file of 2, 3 days, 1 raised call: 789 000 states |
| `memory_plane` | `RowsAreTrue`, `MemorySettles`; `EverySourceIndexed` under fairness; `TextsReachMemory` | a file of 2 chunks and 2 texts, 2 in flight, 1 handler cut, a deletion: 430 000 states; every text of 5 clauses over 6 and over 3 kinds, in 3 layouts |
| `answer_plane` | `CitationsStand`, `GateIsTrue`, `OnlyCleaned`; `TurnEnds` under fairness; `PackIsRight`, `RestoreIsRight` | a C-item with evidence, an earlier answer with markers, a summary built twice, 2 items in view, 7 answers with short lines among them: 645 000 states; 9 items under 2 plans and 2 budgets; worlds before and after the first witness summary, 4 capsule kinds, 3 targets, every stop and 2 second stops |

Why the bounds are enough for what is asked. Two publishers and a batch smaller than the
backlog give competing claims and a claim after a crash. The records before the unreadable
one give a redelivery, a resend and a record behind a poison event; three workers leave
one alive when the fault and the poison event have each ended one. Two turns of one
process are what one active response can confuse, and a threshold of two lets the breaker
be passed by a call begun before it opened. Two lives and two DELETE calls let a late
purge meet the conversation opened again, and one call at `/cima/v1` removes the row under
a pending run; so do two turns, a gc worker and one audited call. In `memory_plane` no
text is of a foreign origin (`Foreign` is empty): the raise of `source_ingest.py:346-357`
for an `external_message_id` that is no UUID is in `ChunkSource` and in the proofs, and in
the run one handler cut at any point does more than it. Two turns are what a mutex and a
bus key can confuse; a queue of two makes every case of the eviction reachable (room, a
token to evict, only terminals) and one fault reaches each `except` clause of the turn.
Two runs are enough for a selection to grow stale under another run and for a
reconciliation to repair what a race left; a lease and a summary are the two ways a row is
marked. Three sources let two batches take one epoch and the master be built three times,
the first number at which an event id repeats. A batch of two against a message and a file
with a repeated word are the least in which two detections cross and a copy is removed
under a protected one. Five clauses fill a chunk, start a second and repeat the first.

### Fairness

- Publishers, worker loops and gc workers poll for ever while their process is up:
  weak fairness on the steps of each. Restart is owed to nobody; no part of the
  repository restarts a process.
- In `HardDelete` a DELETE call that has begun and a turn that holds the mutex go
  on, and a worker handles what is delivered: weak fairness on their disjunction
  (`Progress`), which is enough because each of them has a bounded number of steps.
  No client owes a call.
- In `ChatTurn` the event loop runs what is ready and a stream is pulled while its
  client stays: weak fairness on the stream's and the task's steps and on the
  first pull, `Subscribe`. Weak fairness on `ControllerFails` is the turn timeout: a
  controller that streams for ever is stopped. Waiting times are not modelled; a
  timeout may fire whenever its condition holds.
- In `ModelCalls` a turn under way goes on (each call has a timeout). No turn need begin.
- In `MemoryPlane` some consumer that has an event takes it: weak fairness on their
  disjunction, which is less than fairness of each. In `AnswerTurn` the turn goes on;
  the summary worker owes nothing.
- `VectorPlane`, `InlineMemory` and `AuditedDelete` state no liveness: nothing in the
  code brings back a run or a call that failed.
- Liveness properties name the faults they exclude in their own text
  (`\/ faults > 0`, `CutShort`, `InPeace`). `CutShort` also excuses the turn that returns
  for a missing attachment, which keeps the mutex (`EarlyExit`).

### Disagreements found

Each is the one property of a violation run and a finding in PROJECT.json with the
quoted line.

1. `publisher_main.py` gives the producer serializers although
   `OutboxPublisher` encodes the payload itself, and asyncpg without a codec
   returns jsonb as text, on which the claim's decoding raises after it has
   committed. Rows end CLAIMED or ERROR and never reach Kafka.
2. `consumer_effect.py` promises exactly-once effects. A worker that dies between
   begin and complete leaves STARTED, the redelivery is skipped, and the effect is
   lost. What holds is `AtMostOnceEffect`.
3. `lifecycle_guard.py` promises that late events do not resurrect work. Its status
   is read once; a delete that runs between the guard and the upsert leaves a point
   of a conversation that is gone.
4. DONE is published after the mutex is freed, under the conversation's id: the DONE
   of one turn can end the next turn's stream (`chat_done`).
5. The `finally` block says its release must always run. A cancellation that arrives
   while the block waits skips it (`chat_release`).

Others met while modelling have no run of their own. The models follow the code, and
a property that would be stronger says in its comment or text what it leaves out:

- Effect ledger. A record that raises before `begin` stops its partition for good: every
  restart reads it again (`UnreadableStops`).
- Deletion. A call at `/cima/v1` that removes a DELETING row leaves the run's event
  pending; once the id is opened again its worker purges the ACTIVE conversation
  (`conversations.py:137-156`, `hard_delete.py:176-191`). When there is no row, it purges
  nothing and reports SUCCEEDED, though the other route clears one collection only and the
  points of the chunks are still there (`qdrant.py:641-651`). A turn that asks for a
  missing attachment returns without freeing the mutex (`orchestrator.py:317-350`).
  `delete_conversation` (`postgres.py`) clears neither plans nor conflicts, so the audited
  delete of a conversation that had one answers 500. A promoted memory's foreign key
  (`migrations.py:826`, no ON DELETE) makes it fail, and an asynchronous run then ends
  FAILED with the conversation DELETING for ever. A call that fails late releases by
  conversation id, perhaps the mutex of a turn in a conversation opened anew (`blind`). A
  count before the `try` that raises keeps the mutex.
- Adapters. `llamacpp.py:118` says that a stream is retried only before its first
  token; a body that ends without a finish is tried again, and its text is followed
  by the new attempt's. `abort` closes another conversation's stream. `tei.py` says
  "allow one probe request through" of a breaker that lets every caller pass.
- Routes. The buffered completion (`chat.py`, near line 906) is said never to answer
  200 when its turn fails; an ERROR delta gives 200 with `[ERROR: ...]` as the answer,
  and an exception of the task an empty 200. A last user message of attachments only
  gives way to an earlier one with its files.
- Inline memory. A second upload of a file with the same text leaves its row
  PROCESSING. Reconciliation takes every inline point for an orphan, since none
  has a row.
- Segmentation. `chunker.py:105` cuts outside the range its docstring calls hard. A
  chunk that was joined from parts is not found again in its source, and the
  fallback points elsewhere.
- Vector states. The builder's stale write sets an INDEXED summary back to NONE beside
  its point, with no run and no fault, and with it the row's other columns as they were
  read (`summary_pipeline.py:264-291`).
- Memory plane. Two batches may take one epoch; the ledger skips every SUMMARY_UPDATED
  of a summary but the first; a raise in `source_registered` leaves PROCESSING.
- Turn. A summary's text is read before its origins (`demo/context/service.py:932`), so a
  rebuild between them shows text under the lineage of another version. The escaping of
  stored labels knows single labels only (`service.py:55`), not `[S1, S2]` and not the
  header of a zoomed item. Factual lines without a citation pass the gate when they are
  short (`controller.py:1683-1688`), though `c3_sanitize.py:12,123-129` asks citations of
  blocks from 20 characters on and the prompt of every bullet. A blocked answer is still
  streamed and ingested.
- Retrieval. With the reranker down hits keep score 0.0, so the order of the fusion
  is never restored and unverified guesses go first.
- Handoff. A turn that showed a legacy summary has an invalid capsule once its
  conversation has a witness summary. A global item that precedes its origin makes a
  restore fail half way; an invalid capsule restored to a conversation that does not exist
  raises instead of answering `valid=False`; a restore frees the mutex of a running turn.

## What is proved

TLAPS checks all of this with SMT, Zenon and LS4. Every safety invariant that a run
checks of a component, and every action property but those that are about operators
only, is a theorem. Each argument is an inductive invariant, lemmas for the
actions that can disturb its conjuncts, a theorem `Inductive`, and the properties as
corollaries.

- `Outbox_proofs`: `TypeCorrect`, `ClaimsAreExclusive`, `RowsHandedOverOnce`,
  `SentRowsLogged`, `SettledRowsFinal`. `ClaimsExclusive` alone is not inductive:
  the invariant adds `Placed` (within a publisher a row is still to be sent, or
  failed, or acknowledged, never two of them) and `Unsent` (a row still NEW, or still
  to be handed over, is not in the log). Any set of
  rows, publishers, batch size, wiring and number of crashes. `NoStrayTombstone`,
  proved beside `SentIsLogged`, and `SettledRowsFinal` have no run of their own.
- `ConsumerEffect_proofs`, of the ledger: `OffsetsFollowTheLedger`
  (`CommittedWasBegun`), `LedgerIsSound` (`SuccessIsWhole`) and `ImplementsAtMostOnce`,
  the refinement of `AtMostOnceEffect`, for any partition, handlers and workers, and
  `UnreadableStops`, that no offset passes a record without a ledger row. The
  invariant says that a handler owns its STARTED row alone and that the owner of the
  partition stands just after the committed offset.
- `ConsumerEffect_proofs`, of the adapters: `AnswersWhole` (`AnswersAreWhole`). The
  active response is that of a turn whose stream is open, and a turn's chunks are of
  its present attempt unless the rules of the adapter let a cut stream go on.
- `HardDelete_proofs`, asynchronous: `TypeCorrect`, `PurgeIsExclusive`,
  `ReportsAreTrue`, `RunsAreCounted` (no run checks it), `ActiveIsSafe`. The
  strengthening ties each run to its event, its ledger row and the worker that carries
  it out, and counts lives (`LivesCounted`: an ACTIVE conversation has had fewer
  accepted runs than lives, a cardinality argument over finite sets). An overtaken run was
  accepted and never comes back to a row (`OvertakenArePast`): from this the claims about
  all other runs hold whatever `Erasers` do.
- `HardDelete_proofs`, synchronous: `DeleteAccounts` (`DeleteIsAccountable`). The
  strengthening says how far the erasure of what a call found has come (`Erasing`), and
  that a mutex belongs to the party it names until somebody frees it without holding it.
- `ChatTurn_proofs`: `Types` (with the bound on every queue), `Exclusion`,
  `DoneIsFinal`, `Wholeness` (`AnswerIsWhole`), for any number of turns on either
  route, any queue size and any number of faults. Three arguments. Whoever frees the
  mutex holds it, so a turn's late release cannot let a third turn in beside the
  second. `Sealed`: every DONE in any queue is that of a settled turn, which eviction
  cannot break because each queue operation only loses deltas or adds the one it was
  given (`MadeFrom`). And the tokens of a turn that are not yet read are counted along
  its queue: every operation of the bus changes that count as it changes what was
  published and evicted, and none of them lies behind the turn's DONE.
- `VectorPlane_proofs`: `Agree` (`StoresAgree`), `Repairs` (`ReconcileIsRight`), for any
  number of builders, writers, runs and faults; where the instance gives each item one
  indexer, the theorem lets several write one lease. The argument is about one item at a
  time. The shape of the state says whose the loops' sets are (`Shape`). While nobody
  writes a quiet item its point and live row only disappear (`Peace`), so what a run has
  read of it stays good enough (`Facts`). A row ahead of its point, or an event behind it,
  is a debt of a run that is still at the item, and runs pay before they succeed
  (`Order`).
- `InlineMemory_proofs`: `Contradictions`, `Forgetting` (`ForgettingIsEarned`). An item has
  one place in one batch, so what was archived, erased or flagged does not come back
  (`Settled`); a detection that ran to its end saw what was saved before it began
  (`Heard`), and what a pass of the worker read still holds when it acts (`Earned`).
  `Contradictions` has a hypothesis: no more C-items than `Window`. It is a limit of the
  code and not of the proof: the detector looks at the 20 newest unflagged candidates
  (`memory/ingestion/conflict.py`), and misses a contradiction with an older one.
- `MemoryPlane_proofs`: `RowsTrue` (`RowsAreTrue`), `Settles` (`MemorySettles`), for any
  texts, files of any length, any cuts and faults. An event is appended once, so no record
  waits twice for a reader and none that waits has been handled (`Log`). From this a
  source goes through its stages in turn, each of which leaves its rows (`Course`); no
  epoch is numbered past the number of sources scheduled (`Levels`, by cardinality); and
  while nothing has failed, an event that is no longer due has left what it asked for, with
  one exception that the invariant must spell out: the index reads a summary in one
  step and writes it in another (`Requested`, `Indexing`, `Promoting`).
- `AnswerTurn_proofs`: `Citations` (`CitationsStand`), `Gate` (`GateIsTrue`), `CleanedOnly`
  (`OnlyCleaned`), for any memory, size of a prompt, summary and answers. The invariant
  follows evidence from where it is read to where it is cited: what is shown rests on
  lineage (`RowsRest`), the closed set names what is shown, and the answer cites within it
  (`Closed`), whichever clean-up passes ran.

The runs check `Deletions`, `WorkersAndTurns` and `VectorStore`; the theorems `BothDelete`,
`BothRun` and `BothStore` say that each composition implies the specifications of its
two parts, which carries all of the above over to it.

Assumptions are those of the modules: finiteness of `Rows`, `Turns`, `Requests`, `Sources`
and of the items of `InlineMemory`, positive batch, queue, part and step counts, bounds that
are naturals, and the reserved values `NoTurn`, `NoRun`, `NoWorker`, `Nobody` being none of
the others (in `AuditedDelete` calls, turns and indexers are different parties). An item of
`InlineMemory` stands at one place of one batch, since each is made with a fresh id.
Modules that are instantiated beside another name theirs as definitions
(`AuditAssumption`, `CallsAssumption`, `RequestAssumption`, `InlineAssumption`), which
the modules that instantiate them assume (`AuditedAssumption`, `CallsAssumed`,
`InlineAssumed`).

Model-checked only: every liveness property (the prover has no ENABLED), among them
`EverySourceIndexed`, `TurnEnds` and `PoisonIsPassed`; and `RequestsAreServed`,
`TextsReachMemory`, `PackIsRight` and `RestoreIsRight`, which judge operators that fold
over data, by an induction no installed prover can be given.

## What is not modelled, or only in words

- A restart of the API server leaves `turn_in_progress` set and no start-up code
  clears it. A client that leaves before the generator's first step leaves the mutex
  held (`Disconnect` from "accepted" in `ChatTurn`, excluded by `CutShort`).
- asyncpg rejects ISO strings for `timestamptz` parameters
  (`list_due_ephemeral_vector_records` and the two updates after it), so ephemeral
  expiry fails in the full runtime. `VectorPlane` models what the statements ask for.
- The geometry service. Its projections are floating-point work. Of the control around
  them, a recompute of a conversation with vectors saves the states of clusters and
  items before the run row their foreign key needs, and raises
  (`geometry/service.py:150-210`, `migrations.py:509`); in full mode the process ends
  and is given the same command again.
- The read-model projector: one handler around the ledger; its tables are read by no
  part, and no tombstone it handles is ever emitted.
- The cognitive kernel, the domain event buses: no part of the program runs a
  transition, or publishes to a bus.
- The choice of a plan from the words of a question, the executor of plan steps,
  the parsing of documents, the wording of prompts and summaries, the journal's
  artifacts, filters and collections of Qdrant: text, floating point, or one write.
- Code nothing calls: inline promotion and second-level summaries, `resolve_conflict`,
  `ingest_web_content`, `LlamaCppAdapter.stream_chat`, guards of `cognitive/`.
- API wiring, the demonstration harness and its audits of finished artifacts.
- The order of outbox rows with one key; the audits of the forget worker's cycles;
  concurrent restores; `register_text` as two ingestions (inline and by the plane), each
  of which is modelled by itself.

## Plan

Every invariant and action property of a component is now a theorem. What is left:

1. Abstract specifications: a promise of the outbox (a row is handed over at most once and
   settled last) and one of the turn mutex, which `Outbox` and `ChatTurn` would be shown to
   implement as `ConsumerEffect` implements `AtMostOnceEffect`.
2. `SettledIsFinal` and `OneRunPerLife` as properties of a run.
3. Facts about single operators of `Retrieval` and `Segmentation` that need no induction.
