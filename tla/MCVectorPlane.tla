---------------------------- MODULE MCVectorPlane ----------------------------
(* The plane of workers: one summary with its builder and its indexer, one  *)
(* lease with its mirror, and two runs out of a thinning, a reconciliation  *)
(* (same key) and an expiry (key of its own).  Inline: a message; a         *)
(* decision against it and a note, applied to the memory; a file with a     *)
(* chunk that has the words of the note and too little importance to be     *)
(* kept.                                                                    *)
EXTENDS VectorStore, TLC
CONSTANTS summary, lease, builder, indexer, mirror, thin, expire, reconcile
MCKindOf == summary :> "local_summary" @@ lease :> "ephemeral"
MCSaves == builder :> {summary} @@ indexer :> {} @@ mirror :> {}
MCWrites == builder :> {} @@ indexer :> {summary} @@ mirror :> {lease}
MCTask == thin :> "THINNING" @@ expire :> "EPHEMERAL_EXPIRY" @@ reconcile :> "RECONCILE"
MCSubject == thin :> "conv" @@ expire :> "*" @@ reconcile :> "conv"

CONSTANTS message, decision, note, anchor, chunk, turn, apply, upload
MCKind == turn :> "message" @@ apply :> "batch" @@ upload :> "file"
MCParts == turn :> <<message>> @@ apply :> <<decision, note>> @@ upload :> <<anchor, chunk>>
MCContent == message :> "yes" @@ decision :> "no" @@ note :> "list" @@ chunk :> "list" @@ anchor :> "name"
MCType ==
  message :> "OBSERVATION" @@ decision :> "DECISION" @@ note :> "DECISION"
  @@ anchor :> "FACT" @@ chunk :> "OBSERVATION"
MCConfidence == [i \in CItems |-> 100]
MCOverride == chunk :> 10
=============================================================================
