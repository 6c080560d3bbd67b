------------------------------ MODULE Deletions ------------------------------
(***************************************************************************)
(* The two ways a conversation is deleted, by the workers (HardDelete) and *)
(* by the request itself (AuditedDelete), which meet at one row and mutex. *)
(* Each module has the other way in it, as far as it touches what the      *)
(* module is about: the rows that /cima/v1 deletes in HardDelete (Erasers),*)
(* the workers that purge in AuditedDelete (Collectors).  Here are no more *)
(* interleavings of the two: the modules are two views of a conversation,  *)
(* put together so that one run checks both.                               *)
(***************************************************************************)
EXTENDS HardDelete

CONSTANTS
  Calls,     \* DELETE requests of the synchronous kind
  Openers,   \* turns that open the conversation anew
  Indexers,  \* workers that write a point for it
  Collectors, \* gc workers with a request event for it
  Nobody,    \* who holds a mutex that is free
  MaxRaises  \* bound: calls of a database that raise

VARIABLES row, holder, data, audits, cpc, owed, clean, answer, at, ipc, purged,
          raised, unsure, blind
auditVars == <<row, holder, data, audits, cpc, owed, clean, answer, at, ipc, purged, raised,
              unsure, blind>>

Audited == INSTANCE AuditedDelete WITH Turns <- Openers, MaxFaults <- MaxRaises

ASSUME AuditedAssumption == Audited!AuditAssumption

(* No property is about both views: each moves while the other is where it  *)
(* began, the plane beside the beginning in which there is nothing.         *)
BothInit == Init /\ Audited!Init
BothNext ==
  \/ Audited!Init /\ ~row /\ Next /\ UNCHANGED auditVars
  \/ Init /\ Audited!Next /\ UNCHANGED vars
BothSpec == BothInit /\ [][BothNext]_<<vars, auditVars>>

(* FairSpec's fairness, for the plane. *)
FairBoth == BothSpec /\ WF_vars(Progress)

(* What AuditedDelete says of the synchronous, audited delete. *)
DeleteIsAccountable == Audited!DeleteIsAccountable
=============================================================================
