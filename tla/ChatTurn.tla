------------------------------ MODULE ChatTurn ------------------------------
(***************************************************************************)
(* Chat turns of one conversation, as the two chat routes run them.  A     *)
(* request takes the turn mutex, its stream subscribes to the in-process   *)
(* bus and starts the orchestrator's handle_turn as a task of its own; the *)
(* task publishes deltas under the conversation's id, persists, frees the  *)
(* mutex, closes the run journal and publishes DONE.  The client may leave *)
(* at any moment, which cancels the task at whatever await it stands.      *)
(*                                                                         *)
(* The bus keeps one queue per conversation: a new subscription replaces   *)
(* the old one, whose reader keeps an orphaned queue.  REASONING deltas    *)
(* take the way of TOKEN deltas and are not modelled apart.                *)
(***************************************************************************)
EXTENDS Integers, FiniteSets, Sequences

CONSTANTS
  Turns,        \* requests, each with the turn it starts
  OpenAI,       \* those served by /v1/chat/completions, the others by the native route
  NoTurn,       \* no subscription
  QMax,         \* maxsize of a subscription's queue
  MaxFaults     \* bound: database calls that raise

ASSUME TurnAssumption == IsFiniteSet(Turns) /\ OpenAI \subseteq Turns /\ NoTurn \notin Turns
ASSUME QueueAssumption == QMax \in Nat \ {0}
ASSUME FaultAssumption == MaxFaults \in Nat

VARIABLES
  mutex,     \* task_memory.turn_in_progress
  bus,       \* the turn whose queue is registered for the conversation
  queue,     \* what each subscription has buffered
  req,       \* where each request stands
  end,       \* why its stream ended
  unread,    \* TOKEN deltas of it put into a queue, not yielded and not evicted
  task,      \* where each handle_turn stands
  last,      \* where it stood when it ended
  outcome,   \* how its try block ended
  record,    \* what became of its entry in the turn history
  run,       \* demo_runs.status of its journal
  faults     \* database calls that raised so far

stream == <<req, end>>
handler == <<task, last, outcome, record, run>>
vars == <<mutex, bus, queue, unread, stream, handler, faults>>

Kinds == {"TOKEN", "ERROR", "DONE", "NIL"}
Delta == [of : Turns, kind : Kinds]
Deltas(t, kind) == [of |-> t, kind |-> kind]

\* Statuses finalize_run can leave in the journal.
FinalStatus == {"completed", "failed", "cancelled"}

\* Steps of a task that has not freed the mutex yet.
LockedSteps == {"opening", "preparing", "running", "finally", "saving"}
LiveSteps == LockedSteps \cup {"released", "closing"}

\* The request or task that answers for the mutex.
Holds(t) == req[t] = "accepted" \/ task[t] \in LockedSteps

TypeOK ==
  /\ mutex \in BOOLEAN
  /\ bus \in Turns \cup {NoTurn}
  /\ queue \in [Turns -> Seq(Delta)]
  /\ \A t \in Turns : Len(queue[t]) <= QMax
  /\ req \in [Turns -> {"new", "accepted", "announcing", "streaming", "erring", "draining", "ended"}]
  /\ end \in [Turns -> {"none", "ownDone", "otherDone", "cut", "refused"}]
  /\ unread \in [Turns -> Int]
  /\ task \in [Turns -> LiveSteps \cup {"none", "ended"}]
  /\ last \in [Turns -> LiveSteps \cup {"none"}]
  /\ outcome \in [Turns -> {"none", "ok", "error", "cancelled"}]
  /\ record \in [Turns -> {"none", "kept", "failed"}]
  /\ run \in [Turns -> {"none", "running", "blocked"} \cup FinalStatus]
  /\ faults \in 0..MaxFaults

Init ==
  /\ mutex = FALSE
  /\ bus = NoTurn
  /\ queue = [t \in Turns |-> <<>>]
  /\ req = [t \in Turns |-> "new"]
  /\ end = [t \in Turns |-> "none"]
  /\ unread = [t \in Turns |-> 0]
  /\ task = [t \in Turns |-> "none"]
  /\ last = [t \in Turns |-> "none"]
  /\ outcome = [t \in Turns |-> "none"]
  /\ record = [t \in Turns |-> "none"]
  /\ run = [t \in Turns |-> "none"]
  /\ faults = 0

(***************************************************************************)
(* The bus.                                                                *)
(***************************************************************************)
HasRoom(q) == Len(q) < QMax

\* Positions of deltas _evict_one_non_terminal may remove.
Evictable(q) == {i \in 1..Len(q) : q[i].kind = "TOKEN"}

First(q) == CHOOSE i \in Evictable(q) : \A k \in Evictable(q) : i <= k

\* It pops the terminals before the first such delta and puts them back at
\* the tail.
EvictOne(q) == SubSeq(q, First(q) + 1, Len(q)) \o SubSeq(q, 1, First(q) - 1)

MustEvict(q) == ~HasRoom(q) /\ Evictable(q) # {}

ForcePutUnbounded(q, d) == Append(q, d)

ForcePutEager(q, d) ==
  IF Evictable(q) # {} THEN Append(EvictOne(q), d)
  ELSE IF HasRoom(q) THEN Append(q, d)
  ELSE q

\* Nothing is put when the queue is full of terminals.  Mutants: without
\* regard to the size; a token is evicted although there is room.
ForcePut(q, d) ==
  IF HasRoom(q) THEN Append(q, d)
  ELSE IF MustEvict(q) THEN Append(EvictOne(q), d)
  ELSE q

PutError(q, t) == ForcePut(q, Deltas(t, "ERROR"))

\* DONE evicts, the sentinel after it does not.
PutDone(q, t) ==
  LET done == ForcePut(q, Deltas(t, "DONE"))
  IN  IF HasRoom(done) THEN Append(done, Deltas(t, "NIL")) ELSE done

\* Tokens of turn t a forced put evicts.
EvictedFrom(q, t) == IF MustEvict(q) /\ q[First(q)].of = t THEN 1 ELSE 0

CanPut == bus # NoTurn /\ HasRoom(queue[bus])

\* Without a subscriber a token is discarded, with a full queue it is
\* dropped after 5 s.
PublishToken(t) ==
  \/ /\ CanPut
     /\ queue' = [queue EXCEPT ![bus] = Append(@, Deltas(t, "TOKEN"))]
     /\ unread' = [unread EXCEPT ![t] = @ + 1]
  \/ /\ ~CanPut
     /\ UNCHANGED <<queue, unread>>

\* ERROR and DONE are put by force, DONE with its sentinel: the registered
\* queue becomes q.
PublishLast(q) ==
  IF bus = NoTurn
  THEN UNCHANGED <<queue, unread>>
  ELSE /\ queue' = [queue EXCEPT ![bus] = q]
       /\ unread' = [u \in Turns |-> unread[u] - EvictedFrom(queue[bus], u)]

PublishError(t) == PublishLast(PutError(queue[bus], t))
PublishDone(t) == PublishLast(PutDone(queue[bus], t))

(***************************************************************************)
(* The request and its stream.                                             *)
(***************************************************************************)

\* Compare and set on the task_memory row; a loser gets 409 and may try again.
Accept(t) ==
  /\ req[t] = "new"
  /\ ~mutex
  /\ mutex' = TRUE
  /\ req' = [req EXCEPT ![t] = "accepted"]
  /\ UNCHANGED <<bus, queue, unread, end, handler, faults>>

\* The response cannot be built: the route frees the mutex.
ConstructFails(t) ==
  /\ req[t] = "accepted"
  /\ mutex' = FALSE
  /\ req' = [req EXCEPT ![t] = "ended"]
  /\ end' = [end EXCEPT ![t] = "refused"]
  /\ UNCHANGED <<bus, queue, unread, handler, faults>>

\* The generator's first step: subscribe, then create the task.
Subscribe(t) ==
  /\ req[t] = "accepted"
  /\ req' = [req EXCEPT ![t] = IF t \in OpenAI THEN "announcing" ELSE "streaming"]
  /\ bus' = t
  /\ task' = [task EXCEPT ![t] = "opening"]
  /\ UNCHANGED <<mutex, queue, unread, end, last, outcome, record, run, faults>>

\* _stream_openai yields a first chunk before its try block.
Announce(t) ==
  /\ req[t] = "announcing"
  /\ req' = [req EXCEPT ![t] = "streaming"]
  /\ UNCHANGED <<mutex, bus, queue, unread, end, handler, faults>>

\* The status finalize_run writes.
Status(t) ==
  CASE outcome[t] = "ok" -> "completed"
    [] outcome[t] = "error" -> "failed"
    [] OTHER -> "cancelled"

\* CancelledError is raised at the await where the task stands.  In the try
\* block it leads into the finally block; anywhere else it ends the task,
\* a call under way having been carried out or not.
CancelTask(t) ==
  IF task[t] \notin LiveSteps
  THEN UNCHANGED <<mutex, handler>>
  ELSE /\ IF task[t] = "running"
          THEN /\ task' = [task EXCEPT ![t] = "finally"]
               /\ outcome' = [outcome EXCEPT ![t] = "cancelled"]
               /\ last' = last
          ELSE /\ task' = [task EXCEPT ![t] = "ended"]
               /\ last' = [last EXCEPT ![t] = task[t]]
               /\ outcome' = outcome
       /\ \/ UNCHANGED <<mutex, record, run>>
          \/ task[t] = "opening" /\ run' = [run EXCEPT ![t] = "running"] /\ UNCHANGED <<mutex, record>>
          \/ task[t] = "finally" /\ record' = [record EXCEPT ![t] = "kept"] /\ UNCHANGED <<mutex, run>>
          \/ task[t] = "saving" /\ mutex' = FALSE /\ UNCHANGED <<record, run>>
          \/ task[t] = "released" /\ run' = [run EXCEPT ![t] = Status(t)] /\ UNCHANGED <<mutex, record>>

LeaveTask == UNCHANGED <<mutex, handler>>

\* The stream leaves its loop; the first reason to stop is the one kept.
EndStream(t, next, why) ==
  /\ req' = [req EXCEPT ![t] = next]
  /\ end' = [end EXCEPT ![t] = IF @ = "none" THEN why ELSE @]

\* Where it goes: _stream_kima ends, _stream_openai waits for the task first.
AfterLoop(t) ==
  IF t \in OpenAI /\ task[t] # "ended" THEN "draining" ELSE "ended"

Receive(t) ==
  /\ req[t] = "streaming"
  /\ queue[t] # <<>>
  /\ queue' = [queue EXCEPT ![t] = Tail(@)]
  /\ LET d == Head(queue[t]) IN
       \/ /\ d.kind = "TOKEN"
          /\ unread' = [unread EXCEPT ![d.of] = @ - 1]
          /\ UNCHANGED <<req, end>>
       \/ /\ d.kind = "ERROR"
          /\ IF t \notin OpenAI THEN UNCHANGED <<req, end>> ELSE EndStream(t, "erring", "cut")
          /\ unread' = unread
       \/ /\ d.kind \in {"DONE", "NIL"}
          /\ EndStream(t, AfterLoop(t), IF d.of = t THEN "ownDone" ELSE "otherDone")
          /\ unread' = unread
  /\ LeaveTask
  /\ UNCHANGED <<bus, faults>>

\* After an ERROR _stream_openai reads on until DONE, at most 120 s for each
\* delta, and then cancels a task that has not ended.
DrainError(t) ==
  /\ req[t] = "erring"
  /\ \/ /\ queue[t] # <<>>
        /\ queue' = [queue EXCEPT ![t] = Tail(@)]
        /\ IF Head(queue[t]).kind \in {"DONE", "NIL"}
           THEN EndStream(t, AfterLoop(t), "cut") /\ CancelTask(t)
           ELSE UNCHANGED <<req, end>> /\ LeaveTask
        /\ unread' = IF Head(queue[t]).kind = "TOKEN"
                     THEN [unread EXCEPT ![Head(queue[t]).of] = @ - 1]
                     ELSE unread
     \/ /\ queue[t] = <<>>
        /\ UNCHANGED <<queue, unread>>
        /\ EndStream(t, AfterLoop(t), "cut")
        /\ CancelTask(t)
  /\ UNCHANGED <<bus, faults>>

HeartbeatBlind(t) ==
  /\ req[t] = "streaming"
  /\ queue[t] = <<>>
  /\ UNCHANGED vars

\* A heartbeat finds nothing buffered and the task ended.  Mutant: it only
\* yields a keepalive.
Heartbeat(t) ==
  /\ req[t] = "streaming"
  /\ queue[t] = <<>>
  /\ task[t] = "ended"
  /\ EndStream(t, "ended", "cut")
  /\ UNCHANGED <<mutex, bus, queue, unread, handler, faults>>

\* _stream_openai gives up on a stream that stayed silent for too long.
StreamTimeout(t) ==
  /\ req[t] = "streaming"
  /\ t \in OpenAI
  /\ queue[t] = <<>>
  /\ task[t] # "ended"
  /\ EndStream(t, "ended", "cut")
  /\ CancelTask(t)
  /\ UNCHANGED <<bus, queue, unread, faults>>

\* Before data:[DONE] _stream_openai waits 15 s for the task to end, then
\* cancels it.
AwaitTask(t) ==
  /\ req[t] = "draining"
  /\ EndStream(t, "ended", "cut")
  /\ CancelTask(t)
  /\ UNCHANGED <<bus, queue, unread, faults>>

\* The client goes away.  A generator that never started runs none of its
\* code; before its try block and after its loop it cancels nothing.
Disconnect(t) ==
  /\ EndStream(t, "ended", "cut")
  /\ \/ req[t] \in {"accepted", "announcing", "draining"} /\ LeaveTask
     \/ req[t] \in {"streaming", "erring"} /\ CancelTask(t)
  /\ UNCHANGED <<bus, queue, unread, faults>>

\* The finished generator is collected with its queue, which it removes from
\* the bus if it is still the registered one.
Collect(t) ==
  /\ req[t] = "ended"
  /\ bus = t \/ queue[t] # <<>>
  /\ bus' = IF bus = t THEN NoTurn ELSE bus
  /\ queue' = [queue EXCEPT ![t] = <<>>]
  /\ UNCHANGED <<mutex, unread, stream, handler, faults>>

(***************************************************************************)
(* handle_turn.                                                            *)
(***************************************************************************)
Goto(t, step) ==
  /\ task' = [task EXCEPT ![t] = step]
  /\ last' = last

Return(t) ==
  /\ task' = [task EXCEPT ![t] = "ended"]
  /\ last' = [last EXCEPT ![t] = task[t]]

Step(t, step) ==
  /\ task[t] = step
  /\ UNCHANGED <<bus, stream>>

\* Task memory is loaded, the journal opened, files and the message ingested.
Open(t) ==
  /\ Step(t, "opening")
  /\ Goto(t, "preparing")
  /\ run' = [run EXCEPT ![t] = "running"]
  /\ UNCHANGED <<mutex, queue, unread, outcome, record, faults>>

\* Task state and bootstrap checkpoint; begin_turn is saved.
BeginTurn(t) ==
  /\ Step(t, "preparing")
  /\ Goto(t, "running")
  /\ mutex' = TRUE
  /\ UNCHANGED <<queue, unread, outcome, record, run, faults>>

\* A call before the try block raises, before or after the journal is opened.
OpenFails(t) ==
  /\ \/ Step(t, "opening") /\ run' \in {run, [run EXCEPT ![t] = "running"]}
     \/ Step(t, "preparing") /\ run' = run
  /\ faults < MaxFaults
  /\ faults' = faults + 1
  /\ Return(t)
  /\ UNCHANGED <<mutex, queue, unread, outcome, record>>

\* The task needs an attachment and the request has none: the turn asks for
\* it, closes its journal and returns.
EarlyExit(t) ==
  /\ Step(t, "preparing")
  /\ PublishToken(t)
  /\ run' = [run EXCEPT ![t] = "blocked"]
  /\ Return(t)
  /\ UNCHANGED <<mutex, outcome, record, faults>>

\* The controller streams a part of the answer.
StreamToken(t) ==
  /\ Step(t, "running")
  /\ PublishToken(t)
  /\ UNCHANGED <<mutex, task, last, outcome, record, run, faults>>

ControllerReturns(t) ==
  /\ Step(t, "running")
  /\ Goto(t, "finally")
  /\ outcome' = [outcome EXCEPT ![t] = "ok"]
  /\ UNCHANGED <<mutex, queue, unread, record, run, faults>>

\* Turn timeout, context overflow or any other exception.
ControllerFails(t) ==
  /\ Step(t, "running")
  /\ Goto(t, "finally")
  /\ outcome' = [outcome EXCEPT ![t] = "error"]
  /\ PublishError(t)
  /\ UNCHANGED <<mutex, record, run, faults>>

PersistAfterRelease(t) ==
  /\ Step(t, "finally")
  /\ Goto(t, "saving")
  /\ mutex' = FALSE
  /\ record' = [record EXCEPT ![t] = "kept"]
  /\ UNCHANGED <<queue, unread, outcome, run, faults>>

\* Metadata, history entry, lineage and fallback observation, each in a try
\* of its own.  Mutant: the mutex is freed first.
Persist(t) ==
  /\ Step(t, "finally")
  /\ Goto(t, "saving")
  /\ \/ record' = [record EXCEPT ![t] = "kept"] /\ faults' = faults
     \/ /\ faults < MaxFaults
        /\ faults' = faults + 1
        /\ record' = [record EXCEPT ![t] = "failed"]
  /\ UNCHANGED <<mutex, queue, unread, outcome, run>>

ReleaseOnSuccess(t) ==
  /\ Step(t, "saving")
  /\ Goto(t, "released")
  /\ mutex' = (mutex /\ outcome[t] # "ok")
  /\ UNCHANGED <<queue, unread, outcome, record, run, faults>>

\* finish_turn and save_task_memory; if that raises, the explicit release;
\* if that raises too, the turn goes on with the mutex held.  Mutant: only a
\* turn that succeeded frees it.
Release(t) ==
  /\ Step(t, "saving")
  /\ Goto(t, "released")
  /\ \E raised \in 0..2 :
       /\ faults + raised <= MaxFaults
       /\ faults' = faults + raised
       /\ mutex' = IF raised = 2 THEN mutex ELSE FALSE
  /\ UNCHANGED <<queue, unread, outcome, record, run>>

\* FINALIZING, the last checkpoint and finalize_run; what they raise leaves
\* the task.
Finalize(t) ==
  /\ Step(t, "released")
  /\ \/ /\ Goto(t, "closing")
        /\ run' = [run EXCEPT ![t] = Status(t)]
        /\ faults' = faults
     \/ /\ faults < MaxFaults
        /\ faults' = faults + 1
        /\ Return(t)
        /\ run' = run
  /\ UNCHANGED <<mutex, queue, unread, outcome, record>>

FinishUnclosed(t) ==
  /\ Step(t, "released")
  /\ PublishDone(t)
  /\ Return(t)
  /\ UNCHANGED <<mutex, outcome, record, run, faults>>

\* DONE is the last thing a turn publishes.  Mutant: it does not wait for
\* the journal.
Finish(t) ==
  /\ Step(t, "closing")
  /\ PublishDone(t)
  /\ Return(t)
  /\ UNCHANGED <<mutex, outcome, record, run, faults>>

(***************************************************************************)
(* The whole.                                                              *)
(***************************************************************************)
StreamSteps(t) ==
  \/ Announce(t) \/ Receive(t) \/ DrainError(t) \/ Heartbeat(t) \/ StreamTimeout(t) \/ AwaitTask(t)

TaskSteps(t) ==
  \/ Open(t) \/ BeginTurn(t) \/ OpenFails(t) \/ EarlyExit(t)
  \/ StreamToken(t) \/ ControllerReturns(t) \/ ControllerFails(t)
  \/ Persist(t) \/ Release(t) \/ Finalize(t) \/ Finish(t)

Next ==
  \E t \in Turns :
    \/ Accept(t) \/ ConstructFails(t) \/ Subscribe(t) \/ Disconnect(t) \/ Collect(t)
    \/ StreamSteps(t) \/ TaskSteps(t)

Spec == Init /\ [][Next]_vars

\* The event loop runs what is ready, a stream is pulled while its client
\* stays, and the turn timeout ends a controller that does not return.
\* Nothing obliges a client to leave or to send.
Fairness ==
  \A t \in Turns :
    /\ WF_vars(Subscribe(t)) /\ WF_vars(StreamSteps(t)) /\ WF_vars(TaskSteps(t))
    /\ WF_vars(ControllerFails(t))

FairSpec == Spec /\ Fairness

(***************************************************************************)
(* Properties.                                                             *)
(***************************************************************************)

\* The mutex keeps turns of a conversation apart from the moment a request
\* is accepted until its turn has saved, and it is held all that time: no
\* late release of one turn lets a third one in beside the second.
OneTurnAtATime ==
  /\ \A t, u \in Turns : Holds(t) /\ Holds(u) => t = u
  /\ \A t \in Turns : Holds(t) => mutex

\* A client whose stream closed on its own turn's DONE has every token the
\* bus took and did not evict: none went to another turn's queue, none is
\* left behind DONE.
AnswerIsWhole ==
  \A t \in Turns : end[t] = "ownDone" => unread[t] = 0

\* When its own DONE reaches a client, the turn's history entry has been
\* tried, its journal has its final status, and the mutex is no longer its.
DoneMeansSettled ==
  \A t \in Turns : end[t] = "ownDone" =>
    record[t] # "none" /\ run[t] \in FinalStatus /\ ~Holds(t)

\* A stream whose client stays is closed in the end, also when its DONE was
\* evicted, went to another queue, or was never published.
StreamsClose ==
  \A t \in Turns : req[t] = "streaming" ~> req[t] = "ended"

\* A turn that a crash or a cancellation caught outside its try block, or that
\* has returned before it to ask for an attachment (EarlyExit), and keeps the
\* mutex.
CutShort(t) ==
  \/ req[t] = "ended" /\ end[t] = "cut" /\ task[t] = "none"
  \/ last[t] \in LockedSteps

\* Reply, timeout, exception and cancellation of the running turn all free
\* the mutex, as long as the database answers.
LockIsFreed ==
  [](faults = 0 /\ \A t \in Turns : ~CutShort(t)) => (mutex ~> ~mutex)

\* What the route says of its DONE: the turn has ended or all but ended.
DoneClosesItsTurn ==
  \A t \in Turns : end[t] \in {"ownDone", "otherDone"} => task[t] \in {"closing", "ended"}

\* What the finally block says of the release: it must always run.
ReleaseAlwaysRuns ==
  \A t \in Turns :
    last[t] \in {"finally", "saving"} /\ (\A u \in Turns : ~Holds(u)) => ~mutex

=============================================================================
