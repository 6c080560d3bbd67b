------------------------------- MODULE Outbox -------------------------------
(***************************************************************************)
(* The transactional outbox of one schema (cima or geom): the table, the   *)
(* publisher processes that drain it and the Kafka log they write to.      *)
(*                                                                         *)
(* A service appends a row with status NEW; a publisher claims the oldest  *)
(* NEW rows in one autocommitted statement, hands them to the Kafka        *)
(* producer one at a time, marks each failed row ERROR as it fails, and    *)
(* marks all the acknowledged rows SENT with one statement at the end of   *)
(* the batch.  Nothing in the code takes a CLAIMED or ERROR row up again.  *)
(***************************************************************************)
EXTENDS Naturals, FiniteSets

CONSTANTS
  Rows,             \* outbox_id values that may ever be appended
  Tombstones,       \* rows whose payload_json is NULL
  OnCompacted,      \* rows whose topic is a compacted topic
  Publishers,       \* publisher processes draining this schema
  BatchSize,        \* --batch-size of publish_once
  BrokerCopies,     \* most copies one acknowledged send can leave in the log
  JsonbAsText,      \* the driver returns jsonb columns undecoded, as text
  DoubleEncode,     \* the producer has serializers of its own
  BrokerFails,      \* the broker may reject or time out a request
  MaxCrashes        \* bound: publisher crashes in a behaviour

ASSUME RowsAssumption == Rows \subseteq Nat /\ IsFiniteSet(Rows)
ASSUME KindsAssumption == Tombstones \subseteq Rows /\ OnCompacted \subseteq Rows
ASSUME BatchAssumption == BatchSize \in Nat \ {0}
ASSUME CopiesAssumption == BrokerCopies \in Nat \ {0}
ASSUME WiringAssumption == {JsonbAsText, DoubleEncode, BrokerFails} \subseteq BOOLEAN
ASSUME CrashAssumption == MaxCrashes \in Nat

VARIABLES
  status,    \* outbox.status of each row, "ABSENT" before the INSERT
  copies,    \* copies of the row's record in the Kafka log
  pc,        \* where each publisher stands in publish_once
  todo,      \* rows of its batch the publisher has not handed over yet
  failed,    \* the row whose send raised, until it is marked ERROR
  sentIds,   \* sent_ids: rows of the batch the broker acknowledged
  crashes    \* publisher crashes so far

vars == <<status, copies, pc, todo, failed, sentIds, crashes>>

\* What a publisher holds in memory and loses when its process ends.
Held(p) == todo[p] \cup failed[p] \cup sentIds[p]

WithStatus(s) == {r \in Rows : status[r] = s}

\* Rows a claim may take; mutant: an expired claim is retried.
ClaimableOrClaimed == WithStatus("NEW") \cup WithStatus("CLAIMED")
Claimable == WithStatus("NEW")

(***************************************************************************)
(* The n oldest rows of S: ORDER BY outbox_id LIMIT n.  Mutant: wait for a *)
(* full batch.                                                             *)
(***************************************************************************)
IsFullBatch(b, S, n) == b \subseteq S /\ Cardinality(b) = n
IsOldest(b, S, n) ==
  /\ b \subseteq S
  /\ Cardinality(b) = n \/ (b = S /\ Cardinality(b) < n)
  /\ \A r \in b, q \in S \ b : r < q

\* dict(row["payload_json"]) raises on text; a NULL payload is passed over.
DecodeRaises(b) == JsonbAsText /\ ~(b \subseteq Tombstones)

\* A NULL payload may go to a compacted topic only.  Mutants: any, or none.
RefusesNone(r) == FALSE
RefusesEvery(r) == r \in Tombstones
Refused(r) == r \in Tombstones \ OnCompacted

\* What mark_outbox_error writes.  Mutants: a value outside the column's
\* CHECK, or only the error text with the status left alone.
ErrorStatusUnknown == "FAILED"
ErrorStatusKept == "CLAIMED"
ErrorStatus == "ERROR"

TypeOK ==
  /\ status \in [Rows -> {"ABSENT", "NEW", "CLAIMED", "SENT", "ERROR"}]
  /\ copies \in [Rows -> Nat]
  /\ pc \in [Publishers -> {"idle", "sending", "marking", "down"}]
  /\ todo \in [Publishers -> SUBSET Rows]
  /\ failed \in [Publishers -> SUBSET Rows]
  /\ sentIds \in [Publishers -> SUBSET Rows]
  /\ crashes \in Nat

Init ==
  /\ status = [r \in Rows |-> "ABSENT"]
  /\ copies = [r \in Rows |-> 0]
  /\ pc = [p \in Publishers |-> "idle"]
  /\ todo = [p \in Publishers |-> {}]
  /\ failed = [p \in Publishers |-> {}]
  /\ sentIds = [p \in Publishers |-> {}]
  /\ crashes = 0

-----------------------------------------------------------------------------
(***************************************************************************)
(* A service inserts a row.  Ids come from a sequence at INSERT time, so   *)
(* concurrent inserts become visible in any order.                         *)
(***************************************************************************)
AppendOutboxEvent(r) ==
  /\ status[r] = "ABSENT"
  /\ status' = [status EXCEPT ![r] = "NEW"]
  /\ UNCHANGED <<copies, pc, todo, failed, sentIds, crashes>>

(***************************************************************************)
(* claim_outbox_batch.  The UPDATE has committed by the time the rows are  *)
(* decoded; an exception there leaves publish_once, and the process.       *)
(***************************************************************************)
ClaimOutboxBatch(p) ==
  /\ pc[p] = "idle"
  /\ \E b \in (SUBSET Claimable) \ {{}} :
       /\ IsOldest(b, Claimable, BatchSize)
       /\ status' = [r \in Rows |-> IF r \in b THEN "CLAIMED" ELSE status[r]]
       /\ IF DecodeRaises(b)
            THEN /\ pc' = [pc EXCEPT ![p] = "down"]
                 /\ UNCHANGED todo
            ELSE /\ pc' = [pc EXCEPT ![p] = "sending"]
                 /\ todo' = [todo EXCEPT ![p] = b]
  /\ UNCHANGED <<copies, failed, sentIds, crashes>>

(***************************************************************************)
(* send_and_wait returns: the record is in the log, once or, when the      *)
(* producer client resent a batch whose answer was late, several times.    *)
(***************************************************************************)
SendAcknowledged(p, r) ==
  /\ pc[p] = "sending"
  /\ r \in todo[p]
  /\ ~Refused(r)
  /\ ~DoubleEncode
  /\ \E n \in 1..BrokerCopies : copies' = [copies EXCEPT ![r] = @ + n]
  /\ todo' = [todo EXCEPT ![p] = @ \ {r}]
  /\ sentIds' = [sentIds EXCEPT ![p] = @ \cup {r}]
  /\ UNCHANGED <<status, pc, failed, crashes>>

\* Mutant: the id is appended to sent_ids before the send can raise.
SendRaisesAfterAppend(p, r) ==
  /\ pc[p] = "sending"
  /\ r \in todo[p]
  /\ Refused(r) \/ DoubleEncode \/ BrokerFails
  /\ todo' = [todo EXCEPT ![p] = @ \ {r}]
  /\ sentIds' = [sentIds EXCEPT ![p] = @ \cup {r}]
  /\ UNCHANGED <<status, copies, pc, failed, crashes>>

(***************************************************************************)
(* The send raises: a refused tombstone or a serializer error writes       *)
(* nothing, a timed-out request may have been written all the same.        *)
(***************************************************************************)
SendRaises(p, r) ==
  /\ pc[p] = "sending"
  /\ r \in todo[p]
  /\ Refused(r) \/ DoubleEncode \/ BrokerFails
  /\ \E n \in 0..BrokerCopies :
       /\ (Refused(r) \/ DoubleEncode) => n = 0
       /\ copies' = [copies EXCEPT ![r] = @ + n]
  /\ pc' = [pc EXCEPT ![p] = "marking"]
  /\ todo' = [todo EXCEPT ![p] = @ \ {r}]
  /\ failed' = [failed EXCEPT ![p] = {r}]
  /\ UNCHANGED <<status, sentIds, crashes>>

MarkOutboxError(p) ==
  /\ pc[p] = "marking"
  /\ status' = [r \in Rows |-> IF r \in failed[p] THEN ErrorStatus ELSE status[r]]
  /\ pc' = [pc EXCEPT ![p] = "sending"]
  /\ failed' = [failed EXCEPT ![p] = {}]
  /\ UNCHANGED <<copies, todo, sentIds, crashes>>

\* One UPDATE for the whole batch, after its last row.
MarkOutboxSent(p) ==
  /\ pc[p] = "sending"
  /\ todo[p] = {}
  /\ status' = [r \in Rows |-> IF r \in sentIds[p] THEN "SENT" ELSE status[r]]
  /\ pc' = [pc EXCEPT ![p] = "idle"]
  /\ sentIds' = [sentIds EXCEPT ![p] = {}]
  /\ UNCHANGED <<copies, todo, failed, crashes>>

\* The process ends anywhere: a kill, or a database error that propagates.
Crash(p) ==
  /\ pc[p] # "down"
  /\ crashes < MaxCrashes
  /\ crashes' = crashes + 1
  /\ pc' = [pc EXCEPT ![p] = "down"]
  /\ todo' = [todo EXCEPT ![p] = {}]
  /\ failed' = [failed EXCEPT ![p] = {}]
  /\ sentIds' = [sentIds EXCEPT ![p] = {}]
  /\ UNCHANGED <<status, copies>>

Restart(p) ==
  /\ pc[p] = "down"
  /\ pc' = [pc EXCEPT ![p] = "idle"]
  /\ UNCHANGED <<status, copies, todo, failed, sentIds, crashes>>

\* The steps a running publisher takes on its own.
PublishOnce(p) ==
  \/ ClaimOutboxBatch(p)
  \/ \E r \in Rows : SendAcknowledged(p, r) \/ SendRaises(p, r)
  \/ MarkOutboxError(p)
  \/ MarkOutboxSent(p)

Next ==
  \/ \E r \in Rows : AppendOutboxEvent(r)
  \/ \E p \in Publishers : PublishOnce(p) \/ Crash(p) \/ Restart(p)

(***************************************************************************)
(* run_publisher polls for ever while its process is up.  Nothing owes an  *)
(* append, a crash, or the restart of a process that has ended.            *)
(***************************************************************************)
Fairness == \A p \in Publishers : WF_vars(PublishOnce(p))

Spec == Init /\ [][Next]_vars

FairSpec == Spec /\ Fairness

-----------------------------------------------------------------------------
(***************************************************************************)
(* Two publishers never hold the same row, and what a publisher holds is   *)
(* a row it claimed and nobody has settled since: FOR UPDATE SKIP LOCKED   *)
(* with the status filter of _claim_outbox_batch.                          *)
(***************************************************************************)
ClaimsExclusive ==
  /\ \A p, q \in Publishers : p # q => Held(p) \cap Held(q) = {}
  /\ \A p \in Publishers : \A r \in Held(p) : status[r] = "CLAIMED"

(***************************************************************************)
(* Whatever publishers crash and restart, a row is handed to the producer  *)
(* at most once, so the log holds no more copies of it than one send       *)
(* leaves.                                                                 *)
(***************************************************************************)
HandedOverOnce == \A r \in Rows : copies[r] <= BrokerCopies

(***************************************************************************)
(* A row marked SENT is in the log, and so is every row the publisher is   *)
(* about to mark SENT; mark_outbox_sent must not outrun the broker.        *)
(***************************************************************************)
SentIsLogged ==
  /\ \A r \in WithStatus("SENT") : copies[r] > 0
  /\ \A p \in Publishers : \A r \in sentIds[p] : copies[r] > 0

(***************************************************************************)
(* A NULL value never reaches a topic that is not compacted, where no      *)
(* consumer takes it for a deletion.                                       *)
(***************************************************************************)
NoStrayTombstone == \A r \in Tombstones \ OnCompacted : copies[r] = 0

Settled(r) == status[r] \in {"SENT", "ERROR"}

(***************************************************************************)
(* A settled row keeps its status for ever, and its record is never sent   *)
(* again: no publisher, however late, touches a row after it is settled.   *)
(***************************************************************************)
SettledIsFinal ==
  [][\A r \in Rows : Settled(r) => status'[r] = status[r] /\ copies'[r] = copies[r]]_vars

(***************************************************************************)
(* While one publisher stays up, the crash of another does not starve a    *)
(* NEW row: the row is claimed.                                            *)
(***************************************************************************)
EveryRowClaimed == \A r \in Rows : status[r] = "NEW" ~> status[r] # "NEW"

(***************************************************************************)
(* As long as no publisher crashes, every claimed row is settled, whatever *)
(* the broker answers: publish_once ends a batch with each of its rows     *)
(* SENT or ERROR.                                                          *)
(***************************************************************************)
EveryClaimSettles ==
  [](crashes = 0) => \A r \in Rows : status[r] = "CLAIMED" ~> Settled(r)

(***************************************************************************)
(* With a broker that answers, every committed row the catalogue allows    *)
(* reaches the Kafka log: the outbox is how the other service hears of it. *)
(***************************************************************************)
EveryRowReachesLog ==
  \A r \in Rows \ (Tombstones \ OnCompacted) : status[r] = "NEW" ~> copies[r] > 0

=============================================================================
