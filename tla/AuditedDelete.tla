---------------------------- MODULE AuditedDelete ----------------------------
(***************************************************************************)
(* The synchronous delete of /cima/v1 and of the standalone runtime: one   *)
(* request erases points and rows, looks at what is left and writes an     *)
(* audit of it.  It holds the turn mutex, which goes with the row: from    *)
(* then on the same id can be opened anew while the request still works.   *)
(* Beside it turns, indexers that take no mutex, and gc workers (those of  *)
(* HardDelete) that delete the same conversation and do not ask for it.    *)
(***************************************************************************)
EXTENDS Naturals, FiniteSets

CONSTANTS
  Calls,      \* DELETE requests for the one conversation
  Turns,      \* chat turns, each of which opens the conversation if need be
  Indexers,   \* workers that write a point for a conversation they have seen
  Collectors, \* gc workers handed a request event for the conversation's id
  Nobody,     \* who holds a mutex that is free
  MaxFaults   \* bound: calls of a database that raise

AuditAssumption ==
  /\ Nobody \notin Calls \cup Turns \cup Indexers
  /\ Calls \cap Turns = {} /\ Turns \cap Indexers = {}
  /\ MaxFaults \in Nat

\* Tables that cascade from the conversation, that delete_conversation clears
\* by hand, and that it leaves; a promoted memory, whose row holds on to its
\* origin; and points.
Kinds == {"cascading", "cleared", "left", "promoted", "point"}
Relational == Kinds \ {"promoted", "point"}

VARIABLES
  row,      \* whether the conversation has its row
  holder,   \* who has turn_in_progress set, Nobody when it is FALSE
  data,     \* what is stored: its kind, and who wrote it
  audits,   \* saved audits: whose, and whether they say that all is gone, or of an error
  cpc,      \* where each call stands
  owed,     \* what was stored when a call took the mutex
  clean,    \* what its last count found gone: of rows, of points
  answer,   \* what it answered, "none" before
  at,      \* where each turn stands
  ipc,      \* where each indexer stands
  purged,   \* gc workers that have dropped the row
  raised,
  unsure,   \* calls of which a count, an audit or the release raised
  blind     \* whether a call or a gc worker has freed the mutex of somebody else

vars == <<row, holder, data, audits, cpc, owed, clean, answer, at, ipc, purged, raised, unsure,
          blind>>
others == <<at, ipc, purged>>

Rows(kinds) == {d \in data : d.kind \in kinds}
Item(kind, by) == [kind |-> kind, by |-> by]

Init ==
  /\ \/ row = FALSE /\ data = {}
     \/ /\ row = TRUE
        /\ \E kept \in SUBSET {"left", "promoted"} :
             data = {Item(k, Nobody) : k \in {"cascading", "cleared", "point"} \cup kept}
  /\ holder = Nobody
  /\ audits = {}
  /\ cpc = [c \in Calls |-> "idle"]
  /\ owed = [c \in Calls |-> {}]
  /\ clean = [c \in Calls |-> [rows |-> FALSE, points |-> FALSE]]
  /\ answer = [c \in Calls |-> "none"]
  /\ at = [t \in Turns |-> "idle"]
  /\ ipc = [i \in Indexers |-> "idle"]
  /\ purged = {}
  /\ raised = 0
  /\ unsure = {}
  /\ blind = FALSE

Goto(c, place) == cpc' = [cpc EXCEPT ![c] = place] /\ UNCHANGED answer
Reply(c, what) == cpc' = [cpc EXCEPT ![c] = "done"] /\ answer' = [answer EXCEPT ![c] = what]
Fault == raised < MaxFaults /\ raised' = raised + 1

-----------------------------------------------------------------------------
(* The request.  It does not look at the conversation's status.             *)

Look(c) ==
  /\ cpc[c] = "idle"
  /\ IF ~row THEN Reply(c, "404") ELSE Goto(c, "lock")
  /\ UNCHANGED <<row, holder, data, audits, owed, clean, others, raised, unsure, blind>>

MutexFree == row /\ holder = Nobody

Lock(c) ==
  /\ cpc[c] = "lock"
  /\ IF MutexFree
     THEN /\ holder' = c
          /\ owed' = [owed EXCEPT ![c] = data]
          /\ Goto(c, "before")
     ELSE Reply(c, "409") /\ UNCHANGED <<holder, owed>>
  /\ UNCHANGED <<row, data, audits, clean, others, raised, unsure, blind>>

\* The counts before, for the audit's sake; they stand outside the try block.
CountBefore(c) ==
  /\ cpc[c] = "before"
  /\ \/ Goto(c, "points") /\ UNCHANGED <<raised, unsure>>
     \/ Fault /\ Reply(c, "500") /\ unsure' = unsure \cup {c}
  /\ UNCHANGED <<row, holder, data, audits, owed, clean, others, blind>>

\* delete_by_conversation, of the local collection.
DeletePoints(c) ==
  /\ cpc[c] \in {"points", "sweep"}
  /\ data' = data \ Rows({"point"})
  /\ Goto(c, IF cpc[c] = "points" THEN "row" ELSE "count")
  /\ UNCHANGED <<row, holder, audits, owed, clean, others, raised, unsure, blind>>

\* delete_conversation, one transaction.  The mutex goes with the row.
Held == row /\ Rows({"promoted"}) # {}
DropRows ==
  /\ data' = data \ Rows({"cascading", "cleared"})
  /\ row' = FALSE
  /\ holder' = Nobody

\* The geometry purge before it, whose failure is swallowed, takes rows that
\* cascade in any case.
DeleteConversation(c) ==
  /\ cpc[c] = "row"
  /\ IF Held
     THEN Goto(c, "recount") /\ UNCHANGED <<row, holder, data>>
     ELSE DropRows /\ Goto(c, "sweep")
  /\ UNCHANGED <<audits, owed, clean, others, raised, unsure, blind>>

\* Mutant: the look is for the conversation's row alone.
CountTheRowOnly(c) ==
  /\ cpc[c] \in {"count", "recount"}
  /\ clean' = [clean EXCEPT ![c].rows = ~row]
  /\ Goto(c, IF cpc[c] = "count" THEN "fetch" ELSE "refetch")
  /\ UNCHANGED <<row, holder, data, audits, owed, others, raised, unsure, blind>>

CountRows(c) ==
  /\ cpc[c] \in {"count", "recount"}
  /\ clean' = [clean EXCEPT ![c].rows = ~row /\ Rows(Relational) = {}]
  /\ Goto(c, IF cpc[c] = "count" THEN "fetch" ELSE "refetch")
  /\ UNCHANGED <<row, holder, data, audits, owed, others, raised, unsure, blind>>

FetchPoints(c) ==
  /\ cpc[c] \in {"fetch", "refetch"}
  /\ clean' = [clean EXCEPT ![c].points = Rows({"point"}) = {}]
  /\ Goto(c, IF cpc[c] = "fetch" THEN "audit" ELSE "reaudit")
  /\ UNCHANGED <<row, holder, data, audits, owed, others, raised, unsure, blind>>

CleanupOk(c) == clean[c].rows /\ clean[c].points

\* The audit's row.
Audit(c) ==
  /\ cpc[c] = "audit"
  /\ audits' = audits \cup {[of |-> c, ok |-> CleanupOk(c), error |-> FALSE]}
  /\ Goto(c, "trace")
  /\ UNCHANGED <<row, holder, data, owed, clean, others, raised, unsure, blind>>

\* Its trace file, then the answer: 204, or 500 for a residue, which leaves the
\* mutex of whatever row there is by now alone.
Trace(c) ==
  /\ cpc[c] = "trace"
  /\ Reply(c, IF CleanupOk(c) THEN "204" ELSE "residue")
  /\ UNCHANGED <<row, holder, data, audits, owed, clean, others, raised, unsure, blind>>

\* Any other exception: counts, an audit of the error, and the release.
Raise(c) ==
  /\ cpc[c] \in {"points", "row", "sweep", "count", "fetch", "audit", "trace"}
  /\ Fault
  /\ Goto(c, "recount")
  /\ UNCHANGED <<row, holder, data, audits, owed, clean, others, unsure, blind>>

AuditError(c) ==
  /\ cpc[c] = "reaudit"
  /\ audits' = audits \cup {[of |-> c, ok |-> CleanupOk(c), error |-> TRUE]}
  /\ Goto(c, "release")
  /\ UNCHANGED <<row, holder, data, owed, clean, others, raised, unsure, blind>>

\* By the conversation's id, whoever holds the mutex.
Release(c) ==
  /\ cpc[c] = "release"
  /\ holder' = Nobody
  /\ blind' = (blind \/ holder \notin {c, Nobody})
  /\ Reply(c, "500")
  /\ UNCHANGED <<row, data, audits, owed, clean, others, raised, unsure>>

RaiseAgain(c) ==
  /\ cpc[c] \in {"recount", "refetch", "reaudit", "release"}
  /\ Fault
  /\ unsure' = unsure \cup {c}
  /\ Reply(c, "500")
  /\ UNCHANGED <<row, holder, data, audits, owed, clean, others, blind>>

-----------------------------------------------------------------------------
(* The others.                                                              *)

\* create_conversation, which does nothing if there is a row.
Open(t) ==
  /\ at[t] = "idle"
  /\ row' = TRUE
  /\ at' = [at EXCEPT ![t] = "opened"]
  /\ UNCHANGED <<holder, data, audits, cpc, owed, clean, answer, ipc, purged, raised, unsure, blind>>

Enter(t) ==
  /\ at[t] = "opened"
  /\ at' = [at EXCEPT ![t] = IF MutexFree THEN "running" ELSE "done"]
  /\ holder' = IF MutexFree THEN t ELSE holder
  /\ UNCHANGED <<row, data, audits, cpc, owed, clean, answer, ipc, purged, raised, unsure, blind>>

Running(t) == at[t] \in {"running", "wrote"}

\* A row that does not cascade; its points are an indexer's.  Bound: one write.
Write(t) ==
  /\ at[t] = "running"
  /\ at' = [at EXCEPT ![t] = "wrote"]
  /\ data' = data \cup {Item("left", t)}
  /\ UNCHANGED <<row, holder, audits, cpc, owed, clean, answer, ipc, purged, raised, unsure, blind>>

\* It frees the mutex, unless it returns to ask for a file.
Leave(t) ==
  /\ Running(t)
  /\ at' = [at EXCEPT ![t] = "done"]
  /\ holder' \in {holder, Nobody}
  /\ UNCHANGED <<row, data, audits, cpc, owed, clean, answer, ipc, purged, raised, unsure, blind>>

Index(i) ==
  /\ \/ /\ ipc[i] = "idle" /\ row
        /\ ipc' = [ipc EXCEPT ![i] = "sees"] /\ UNCHANGED data
     \/ /\ ipc[i] = "sees"
        /\ ipc' = [ipc EXCEPT ![i] = "done"] /\ data' = data \cup {Item("point", i)}
  /\ UNCHANGED <<row, holder, audits, cpc, owed, clean, answer, at, purged, raised, unsure, blind>>

\* A gc worker erases points, then drops the row, and never looks at the mutex.
\* When it does either, and how often the first, is left open here.
Collect(g) ==
  /\ g \notin purged
  /\ \/ data' = data \ Rows({"point"}) /\ UNCHANGED <<row, holder, purged, blind>>
     \/ /\ ~Held /\ DropRows
        /\ purged' = purged \cup {g}
        /\ blind' = (blind \/ holder # Nobody)
  /\ UNCHANGED <<audits, cpc, owed, clean, answer, at, ipc, raised, unsure>>

Next ==
  \/ \E c \in Calls :
       \/ Look(c) \/ Lock(c) \/ CountBefore(c) \/ DeletePoints(c) \/ DeleteConversation(c)
       \/ CountRows(c) \/ FetchPoints(c) \/ Audit(c) \/ Trace(c)
       \/ Raise(c) \/ AuditError(c) \/ Release(c) \/ RaiseAgain(c)
  \/ \E t \in Turns : Open(t) \/ Enter(t) \/ Write(t) \/ Leave(t)
  \/ \E i \in Indexers : Index(i)
  \/ \E g \in Collectors : Collect(g)

Spec == Init /\ [][Next]_vars

-----------------------------------------------------------------------------
(***************************************************************************)
(* A call that answers 204 has erased all that was stored when it took the *)
(* mutex, what its deletion does not clear included, and its audit says    *)
(* so; one that answers that a residue remains has no audit that says so.  *)
(***************************************************************************)
SuccessIsTrue ==
  \A c \in Calls :
    /\ answer[c] = "204" =>
         owed[c] \cap data = {} /\ [of |-> c, ok |-> TRUE, error |-> FALSE] \in audits
    /\ answer[c] = "residue" => \A a \in audits : a.of = c => ~a.ok

(***************************************************************************)
(* A call that took the mutex and has ended leaves an audit and does not   *)
(* hold the mutex any more, unless a count, an audit or the release raised.*)
(***************************************************************************)
CallsAreClosed ==
  \A c \in Calls \ unsure :
    answer[c] \in {"204", "500", "residue"} => holder # c /\ \E a \in audits : a.of = c

(***************************************************************************)
(* Two turns never run in the conversation at a time, although the mutex   *)
(* goes with the row and comes back free; but for the mutex of somebody    *)
(* else that a call which failed late has released, in a conversation      *)
(* opened anew, or that a gc worker has taken away with the row.           *)
(***************************************************************************)
TurnsApart == \A t, u \in Turns : Running(t) /\ Running(u) => t = u \/ blind

DeleteIsAccountable == SuccessIsTrue /\ CallsAreClosed /\ TurnsApart
=============================================================================
