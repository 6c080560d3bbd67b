---------------------------- MODULE MCHardDelete ----------------------------
(* The plane of workers: two requests, a call at /cima/v1, one turn, one    *)
(* consumer.  Synchronously: one request, two turns of conversations opened *)
(* anew under its id, one indexer, one gc worker.                           *)
EXTENDS Deletions

CONSTANTS r1, r2, t1, h1, w1, w2, e1
CONSTANTS call, first, second, indexer, collector
=============================================================================
