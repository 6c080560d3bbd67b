------------------------------ MODULE MCOutbox ------------------------------
(***************************************************************************)
(* Instances of Outbox for TLC: row 1 is an event, row 2 a tombstone of a  *)
(* compacted topic and row 3 a tombstone of a topic that is not.           *)
(***************************************************************************)
EXTENDS Outbox

MCRows == 1..3
MCTombstones == {2, 3}
MCOnCompacted == {2}

=============================================================================
