-------------------------- MODULE MCConsumerEffect --------------------------
(***************************************************************************)
(* Three records of two events, the first of which the producer resent,    *)
(* and one whose value cannot be read.                                     *)
(* Beside the workers, two conversations' turns.                           *)
(***************************************************************************)
EXTENDS WorkersAndTurns

CONSTANTS e1, e2, e3, one, two

MCEventAt == <<e1, e2, e1, e3>>
=============================================================================
