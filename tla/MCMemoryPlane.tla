---------------------------- MODULE MCMemoryPlane ----------------------------
(* A file of two chunks and two texts of one, so that the master is built    *)
(* more than twice and two batches meet in the summary worker.  The texts    *)
(* of Segmentation are judged on the first step of a deletion, which only    *)
(* one state of the graph is the start of.                                   *)
EXTENDS MemoryPlane, TLC
CONSTANTS file1, text1, text2
MCParts == file1 :> 2 @@ text1 :> 1 @@ text2 :> 1

\* Chunks of at most seven tokens, cut before that only when they have three.
Cutting == INSTANCE Segmentation WITH MaxTokens <- 7, MinTokens <- 3, ItemTokens <- 6, FewTokens <- 2

\* Clauses that recur, run on, head, list, fill a chunk or are noise.
Prose ==
  {Cutting!Clause("fact", 2, "full", "prose", {}), Cutting!Clause("choice", 3, "part", "prose", {"DECISION"}),
   Cutting!Clause("title", 1, "none", "heading", {}), Cutting!Clause("entry", 2, "none", "list", {}),
   Cutting!Clause("claim", 6, "full", "prose", {"ATTRIBUTION"}), Cutting!Clause("figures", 2, "none", "prose", {"NUMBERS"})}
Tables ==
  {Cutting!Clause("cells", 2, "none", "row", {}), Cutting!Clause("routine", 3, "none", "code", {}),
   Cutting!Clause("asked", 2, "full", "prose", {"QUESTION", "CONNECTOR"})}
Layouts ==
  {<<"para", "line", "para", "para">>, <<"para", "blank", "page", "blank">>, <<"void", "wide", "para", "para">>}
Written(kinds, layout) ==
  [i \in 1 .. 5 |-> kinds[i] @@ [gap |-> IF i = 1 THEN "blank" ELSE layout[i - 1]]]
Texts5 == {Written(kinds, layout) : kinds \in [1 .. 5 -> Prose] \cup [1 .. 5 -> Tables], layout \in Layouts}

\* Every text of five clauses reaches memory as it should (see Segmentation).
TextsReachMemory ==
  [][(Init /\ BeginDelete) => \A doc \in Texts5 : Cutting!TextReachesMemory(doc)]_vars
=============================================================================
