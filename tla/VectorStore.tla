----------------------------- MODULE VectorStore -----------------------------
(***************************************************************************)
(* The two ways C-items get into the vector store, side by side: by the    *)
(* plane of workers (VectorPlane), and from the conversation itself        *)
(* (InlineMemory), whose items have no row.                                *)
(***************************************************************************)
EXTENDS VectorPlane

CONSTANTS
  CItems,           \* C-items that may be ingested
  Batches,          \* one call each of ingest_citem, ingest_batch or ingest_files
  Kind, Parts,      \* of each batch
  Content, Type, Confidence, Override,   \* of the items
  Contradict,       \* pairs of contents the NLI model calls a contradiction
  AttenuationAge, AlphaPurge, Window,    \* settings
  MaxDay            \* bound: the last day

VARIABLES memory, conflicts, step, at, known, rival, file, stage, todo, day, lastTurn, heard, failures
inlineVars == <<memory, conflicts, step, at, known, rival, file, stage, todo, day, lastTurn, heard, failures>>

Inline == INSTANCE InlineMemory WITH Items <- CItems

ASSUME InlineAssumed == Inline!InlineAssumption

(* The two share no variable, and no property is about both: each moves     *)
(* while the other is where it began, which shows all that either can do.   *)
BothInit == Init /\ Inline!Init
BothNext ==
  \/ Inline!Init /\ Next /\ UNCHANGED inlineVars
  \/ Init /\ Inline!Next /\ UNCHANGED vars
BothSpec == BothInit /\ [][BothNext]_<<vars, inlineVars>>

(* What InlineMemory says of contradictions found by concurrent ingestions. *)
ContradictionsAreFlagged == Inline!ContradictionsAreFlagged

(* What InlineMemory says of the worker that archives and erases.           *)
ForgettingIsEarned == Inline!ForgettingIsEarned
=============================================================================
