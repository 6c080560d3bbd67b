------------------------- MODULE InlineMemory_proofs -------------------------
(***************************************************************************)
(* Proofs about InlineMemory, for any items in any batches, any judgement  *)
(* of the NLI model and any ages.  An item has one place in one batch, so  *)
(* that it is saved once and what the worker has archived or erased, or    *)
(* the detector has flagged, does not come back as new (Settled).  From    *)
(* this the two properties follow: a detection that ran to its end has     *)
(* seen every item that was saved before it began, and what a pass of the  *)
(* worker read of an item still holds when it acts on it.                  *)
(***************************************************************************)
EXTENDS VectorStore, Integers, Sequences, FiniteSetsExt, Functions,
        SequenceTheorems, FiniteSetTheorems, TLAPS

\* A batch is done with the part it is at.
Late == {"detect", "log", "flagOld", "flagNew", "over"}

\* The place of item i is one its batch has passed.
Passed(i) ==
  \E b \in Batches : \E k \in 1..Len(Parts[b]) :
    Parts[b][k] = i /\ (k < at[b] \/ (k = at[b] /\ step[b] \in Late))

\* Nothing is known of an item before its batch has come past it.
Settled == \A i \in Inline!Stored \cup heard \cup todo : Passed(i)

\* A detection is made for items of the types that conflict, it has a rival
\* when it logs, and the log names both when it flags.
Detecting(b) ==
  /\ step[b] \in {"detect", "log", "flagOld", "flagNew"} =>
       Type[Inline!Item(b)] \in Inline!CONFLICTABLE
  /\ step[b] \in {"log", "flagOld", "flagNew"} => rival[b] \in CItems
  /\ step[b] \in {"flagOld", "flagNew"} => <<rival[b], Inline!Item(b)>> \in conflicts

Heard == \A i \in heard : Type[i] \in Inline!CONFLICTABLE

\* As long as the detector's window holds all candidates there can be.
Wide == Cardinality(CItems) <= Window
Flagged ==
  \A i, j \in heard \cap Inline!Active :
    i # j /\ Inline!Contradicts(i, j) => memory[i].flagged \/ memory[j].flagged

Logged == \A i \in Inline!Stored : memory[i].flagged => \E c \in conflicts : i \in {c[1], c[2]}

\* What a pass read of the items it has still to act on is true of them.
Earned ==
  /\ stage = "attenuate" => \A i \in todo \cap Inline!Stored : Inline!ShouldAttenuate(i)
  /\ stage = "purge" => \A i \in todo \cap Inline!Stored : Inline!CanPurge(i)
  /\ stage = "dedup" =>
       \A i \in todo \cap Inline!Active : \E j \in Inline!Active \ todo : Inline!Says(i, j)

IInv ==
  /\ Inline!TypeOK /\ Settled /\ (\A b \in Batches : Detecting(b))
  /\ Heard /\ (Wide => Flagged) /\ Logged /\ Earned

-----------------------------------------------------------------------------
(* What the constants make of an item.                                      *)

Point ==
  [status : {"active", "archived"}, importance : 0..100, flagged : BOOLEAN,
   born : 0..MaxDay, archivedAt : 0..MaxDay]

\* The operators of the library are the same on both sides of the INSTANCE.
LEMMA SameLibrary ==
  /\ \A f : Inline!Range(f) = Range(f) /\ (Inline!IsInjective(f) <=> IsInjective(f))
  /\ \A S : Inline!Min(S) = Min(S)
  /\ \A S : Inline!Cardinality(S) = Cardinality(S) /\ (Inline!IsFiniteSet(S) <=> IsFiniteSet(S))
<1>1. \A f : Inline!Range(f) = Range(f) /\ (Inline!IsInjective(f) <=> IsInjective(f))
  BY DEF Range, Inline!Range, IsInjective, Inline!IsInjective
<1>2. \A S : Inline!Min(S) = Min(S)
  BY DEF Min, Inline!Min
<1>3. \A S : Inline!Cardinality(S) = Cardinality(S) /\ (Inline!IsFiniteSet(S) <=> IsFiniteSet(S))
  BY DEF Cardinality, Inline!Cardinality, IsFiniteSet, Inline!IsFiniteSet
<1> QED
  BY <1>1, <1>2, <1>3

LEMMA TypeBaseBound == \A t : Inline!TypeBase(t) \in 0..85
BY DEF Inline!TypeBase

LEMMA Hundredths ==
  ASSUME NEW u \in 0..85, NEW c \in 0..100
  PROVE  (u * c) \div 100 \in 0..100
<1>1. u * c \in 0..8500
  OBVIOUS
<1>2. PICK d \in 0..8500 : d = u * c
  BY <1>1
<1>3. d \div 100 \in 0..100
  OBVIOUS
<1> QED
  BY <1>2, <1>3

LEMMA AFifthLess ==
  ASSUME NEW d \in 0..100
  PROVE  /\ (d * 4) \div 5 \in 0..100 /\ (d * 4) \div 5 <= d
         /\ \A n \in Nat : d < n => (d * 4) \div 5 < n
<1>1. (d * 4) \div 5 \in 0..100 /\ (d * 4) \div 5 <= d
  OBVIOUS
<1> QED
  BY <1>1

\* No item is more important than 100 hundredths.
LEMMA ImportanceType ==
  ASSUME Inline!InlineAssumption, NEW i \in CItems
  PROVE  Inline!Importance(i) \in 0..100
<1>1. CASE i \in DOMAIN Override
  <2>1. Override[i] \in 0..100
    BY SameLibrary, <1>1 DEF Inline!InlineAssumption, Range
  <2> QED
    BY <1>1, <2>1 DEF Inline!Importance
<1>2. CASE i \notin DOMAIN Override
  <2>1. Confidence[i] \in 0..100
    BY DEF Inline!InlineAssumption
  <2>2. (Inline!TypeBase(Type[i]) * Confidence[i]) \div 100 \in 0..100
    BY <2>1, TypeBaseBound, Hundredths
  <2> QED
    BY <1>2, <2>2 DEF Inline!Importance
<1> QED
  BY <1>1, <1>2

\* A batch that has not saved the item it is at has not passed it.
LEMMA ItemIsNew ==
  ASSUME Inline!InlineAssumption, IInv, NEW b \in Batches
  PROVE  /\ Inline!Item(b) \in CItems
         /\ step[b] \in {"check", "save"} => Inline!Item(b) \notin Inline!Stored \cup heard \cup todo
<1>1. /\ at[b] \in 1..Len(Parts[b]) /\ Parts[b] \in Seq(CItems)
      /\ \A c \in Batches : DOMAIN Parts[c] = 1..Len(Parts[c])
  BY LenProperties DEF IInv, Inline!TypeOK, Inline!InlineAssumption
<1>2. Inline!Item(b) = Parts[b][at[b]] /\ Inline!Item(b) \in CItems
  BY <1>1, ElementOfSeq DEF Inline!Item
<1>3. ASSUME step[b] \in {"check", "save"}, Passed(Inline!Item(b))
      PROVE  FALSE
  <2>1. PICK c \in Batches : \E k \in 1..Len(Parts[c]) :
          Parts[c][k] = Inline!Item(b) /\ (k < at[c] \/ (k = at[c] /\ step[c] \in Late))
    BY <1>3 DEF Passed
  <2>2. PICK k \in 1..Len(Parts[c]) :
          Parts[c][k] = Inline!Item(b) /\ (k < at[c] \/ (k = at[c] /\ step[c] \in Late))
    BY <2>1
  <2>3. CASE c = b
    <3>1. k = at[b]
      BY SameLibrary, <1>1, <1>2, <2>2, <2>3 DEF Inline!InlineAssumption, IsInjective
    <3> QED
      BY <1>1, <1>3, <2>2, <2>3, <3>1 DEF Late
  <2>4. CASE c # b
    <3>1. Inline!Item(b) \in Range(Parts[c]) /\ Inline!Item(b) \in Range(Parts[b])
      BY <1>1, <1>2, <2>2 DEF Range
    <3> QED
      BY SameLibrary, <2>4, <3>1 DEF Inline!InlineAssumption
  <2> QED
    BY <2>3, <2>4
<1> QED
  BY <1>2, <1>3 DEF IInv, Settled

-----------------------------------------------------------------------------
(* How a batch moves, and what an ingestion may do to the memory.           *)

BatchMoves(b) ==
  /\ \A c \in Batches \ {b} : step'[c] = step[c] /\ at'[c] = at[c]
  /\ \/ at'[b] = at[b] /\ (step[b] \in Late => step'[b] \in Late)
     \/ at'[b] = at[b] + 1

LEMMA PassedStays ==
  ASSUME Inline!TypeOK, NEW b \in Batches, BatchMoves(b), NEW i, Passed(i)
  PROVE  Passed(i)'
<1>1. PICK c \in Batches : \E k \in 1..Len(Parts[c]) :
        Parts[c][k] = i /\ (k < at[c] \/ (k = at[c] /\ step[c] \in Late))
  BY DEF Passed
<1>2. PICK k \in 1..Len(Parts[c]) :
        Parts[c][k] = i /\ (k < at[c] \/ (k = at[c] /\ step[c] \in Late))
  BY <1>1
<1>3. k < at'[c] \/ (k = at'[c] /\ step'[c] \in Late)
  <2>1. CASE c = b
    <3>1. at[b] \in Nat
      BY DEF Inline!TypeOK
    <3> QED
      BY <1>2, <2>1, <3>1 DEF BatchMoves
  <2>2. CASE c # b
    BY <1>2, <2>2 DEF BatchMoves
  <2> QED
    BY <2>1, <2>2
<1> QED
  BY <1>2, <1>3 DEF Passed

LEMMA GoToMoves ==
  ASSUME Inline!TypeOK, NEW b \in Batches, NEW s, Inline!GoTo(b, s), step[b] \in Late => s \in Late
  PROVE  /\ BatchMoves(b) /\ step'[b] = s /\ at' = at
         /\ s \in Late => Passed(Inline!Item(b))'
<1>1. /\ step'[b] = s /\ at' = at /\ \A c \in Batches \ {b} : step'[c] = step[c]
  BY DEF Inline!GoTo, Inline!TypeOK
<1>2. BatchMoves(b)
  BY <1>1 DEF BatchMoves
<1>3. ASSUME s \in Late
      PROVE  Passed(Inline!Item(b))'
  BY <1>1, <1>3 DEF Passed, Inline!Item, Inline!TypeOK
<1> QED
  BY <1>1, <1>2, <1>3

LEMMA AdvanceMoves ==
  ASSUME Inline!TypeOK, NEW b \in Batches, Inline!Advance(b), NEW i, i = Inline!Item(b)
  PROVE  /\ BatchMoves(b) /\ step'[b] \in {"check", "over"}
         /\ step' \in [Batches -> {"idle", "check", "save", "detect", "log", "flagOld",
                                   "flagNew", "over"}]
         /\ at' \in [Batches -> Nat] /\ \A c \in Batches : at'[c] \in 1..Len(Parts[c])
         /\ file' \in [Batches -> {"QUEUED", "PROCESSING", "READY", "FAILED"}]
         /\ Passed(i)'
<1> USE DEF Inline!TypeOK
<1>1. CASE at[b] < Len(Parts[b])
  <2>1. /\ step' = [step EXCEPT ![b] = "check"] /\ at' = [at EXCEPT ![b] = at[b] + 1]
        /\ file' = file
    BY <1>1 DEF Inline!Advance
  <2>2. /\ BatchMoves(b) /\ step'[b] = "check"
        /\ at' \in [Batches -> Nat] /\ \A c \in Batches : at'[c] \in 1..Len(Parts[c])
    BY <1>1, <2>1 DEF BatchMoves
  <2>3. Parts[b][at[b]] = i /\ at[b] < at'[b] /\ at[b] \in 1..Len(Parts[b])
    BY <2>1 DEF Inline!Item
  <2> QED
    BY <2>1, <2>2, <2>3 DEF Passed
<1>2. CASE ~(at[b] < Len(Parts[b]))
  <2>1. /\ step' = [step EXCEPT ![b] = "over"] /\ at' = at
        /\ file' \in [Batches -> {"QUEUED", "PROCESSING", "READY", "FAILED"}]
    BY <1>2 DEF Inline!Advance, Inline!Finish, Inline!GoTo, Inline!Row
  <2> QED
    BY <1>2, <2>1 DEF BatchMoves, Passed, Inline!Item, Late
<1> QED
  BY <1>1, <1>2

\* An item that is stored stays so and keeps all but its flag, which it gets.
ItemsKept ==
  \A i \in Inline!Stored :
    /\ i \in Inline!Stored' /\ memory'[i].status = memory[i].status
    /\ memory'[i].importance = memory[i].importance /\ memory'[i].born = memory[i].born
    /\ memory'[i].archivedAt = memory[i].archivedAt
    /\ memory[i].flagged => memory'[i].flagged

LEMMA IngestKeeps ==
  ASSUME Inline!InlineAssumption, IInv, Inline!TypeOK', NEW b \in Batches,
         BatchMoves(b), Detecting(b)', \A c \in Batches \ {b} : rival'[c] = rival[c],
         conflicts \subseteq conflicts', Logged', UNCHANGED <<Inline!workerVars, day>>,
         ItemsKept,
         \A i \in Inline!Stored' \ Inline!Stored : Passed(i)' /\ i \notin heard' /\ i \notin todo,
         heard \subseteq heard',
         \A i \in heard' \ heard : Passed(i)' /\ Type[i] \in Inline!CONFLICTABLE,
         Wide => \A i \in heard' \ heard : i \in Inline!Active' =>
           \A j \in heard \cap Inline!Active : Inline!Contradicts(i, j) => memory'[i].flagged
              \/ memory'[j].flagged,
         \A i, j \in heard' \ heard : i = j
  PROVE  IInv'
<1>1. Settled'
  <2> SUFFICES ASSUME NEW i \in Inline!Stored' \cup heard' \cup todo' PROVE Passed(i)'
    BY DEF Settled
  <2>1. CASE i \in Inline!Stored \cup heard \cup todo
    BY <2>1, PassedStays DEF IInv, Settled
  <2> QED
    BY <2>1 DEF Inline!workerVars
<1>2. ASSUME NEW c \in Batches
      PROVE  Detecting(c)'
  <2>1. CASE c # b
    <3>1. /\ step'[c] = step[c] /\ at'[c] = at[c] /\ rival'[c] = rival[c]
      BY <2>1 DEF BatchMoves
    <3> QED
      BY <3>1 DEF IInv, Detecting, Inline!Item
  <2> QED
    BY <2>1
<1>3. Heard'
  BY DEF IInv, Heard
<1>4. \A i \in Inline!Stored : i \in Inline!Active' <=> i \in Inline!Active
  BY DEF ItemsKept, Inline!Active
<1>5. \A i \in Inline!Active' : i \in Inline!Active \/ i \in Inline!Stored' \ Inline!Stored
  BY <1>4 DEF Inline!Active
<1>6. ASSUME Wide
      PROVE  Flagged'
  <2> SUFFICES ASSUME NEW i \in heard' \cap Inline!Active', NEW j \in heard' \cap Inline!Active',
                      i # j, Inline!Contradicts(i, j)
               PROVE  memory'[i].flagged \/ memory'[j].flagged
    BY DEF Flagged, Inline!Contradicts
  <2>1. i \in Inline!Active /\ j \in Inline!Active
    BY <1>5
  <2>2. CASE i \in heard /\ j \in heard
    BY <1>6, <2>1, <2>2 DEF IInv, Flagged, ItemsKept, Inline!Active
  <2>3. CASE i \notin heard /\ j \in heard
    BY <1>6, <2>1, <2>3
  <2>4. CASE i \in heard /\ j \notin heard
    <3>1. Inline!Contradicts(j, i)
      BY DEF Inline!Contradicts
    <3> QED
      BY <1>6, <2>1, <2>4, <3>1
  <2> QED
    BY <2>2, <2>3, <2>4
<1>7. Earned'
  <2>1. stage' = stage /\ todo' = todo /\ day' = day
    BY DEF Inline!workerVars
  <2>2. \A i \in todo : i \in Inline!Stored' => i \in Inline!Stored
    OBVIOUS
  <2>3. stage = "attenuate" => \A i \in todo \cap Inline!Stored' : Inline!ShouldAttenuate(i)'
    BY <2>1, <2>2 DEF IInv, Earned, ItemsKept, Inline!ShouldAttenuate
  <2>4. stage = "purge" => \A i \in todo \cap Inline!Stored' : Inline!CanPurge(i)'
    BY <2>1, <2>2 DEF IInv, Earned, ItemsKept, Inline!CanPurge
  <2>5. ASSUME stage = "dedup", NEW i \in todo \cap Inline!Active'
        PROVE  \E j \in Inline!Active' \ todo : Inline!Says(i, j)
    <3>1. i \in Inline!Active
      BY <1>4, <1>5, <2>5 DEF Inline!Active
    <3>2. PICK j \in Inline!Active \ todo : Inline!Says(i, j)
      BY <2>5, <3>1 DEF IInv, Earned
    <3>3. j \in Inline!Active'
      BY <1>4, <3>2 DEF Inline!Active
    <3> QED
      BY <3>2, <3>3
  <2> QED
    BY <2>1, <2>3, <2>4, <2>5 DEF Earned, Inline!Says
<1> QED
  BY <1>1, <1>2, <1>3, <1>6, <1>7 DEF IInv, Wide

\* An ingestion step that leaves the memory alone and hears nothing.
LEMMA IngestSilent ==
  ASSUME Inline!InlineAssumption, IInv, Inline!TypeOK', NEW b \in Batches,
         BatchMoves(b), Detecting(b)', \A c \in Batches \ {b} : rival'[c] = rival[c],
         conflicts \subseteq conflicts', UNCHANGED <<memory, heard, Inline!workerVars, day>>
  PROVE  IInv'
<1>1. ItemsKept
  BY DEF ItemsKept, Inline!Stored
<1>2. Logged'
  BY DEF IInv, Logged, Inline!Stored
<1> QED
  BY <1>1, <1>2, IngestKeeps DEF Inline!Stored

-----------------------------------------------------------------------------
(* The steps of an ingestion.                                               *)

LEMMA BeginKeeps ==
  ASSUME Inline!InlineAssumption, IInv, NEW b \in Batches, Inline!Begin(b)
  PROVE  IInv'
<1>1. Inline!GoTo(b, "check") /\ step[b] = "idle" /\ UNCHANGED <<memory, conflicts, rival, Inline!workerVars,
                                                        day, heard>>
  BY DEF Inline!Begin
<1>2. Inline!TypeOK'
  <2>1. Inline!Screened(b) \subseteq CItems
    <3>1. Range(Parts[b]) \subseteq CItems
      BY ElementOfSeq DEF Inline!InlineAssumption, Range
    <3> QED
      BY SameLibrary, <3>1 DEF Inline!Screened
  <2> QED
    BY <2>1 DEF IInv, Inline!TypeOK, Inline!Begin, Inline!GoTo, Inline!Row, Inline!Stored,
       Inline!workerVars
<1>3. BatchMoves(b) /\ step'[b] = "check"
  BY <1>1, GoToMoves DEF IInv, Late
<1> QED
  BY <1>1, <1>2, <1>3, IngestSilent DEF Detecting

LEMMA ExtractionFailsKeeps ==
  ASSUME Inline!InlineAssumption, IInv, NEW b \in Batches, Inline!ExtractionFails(b)
  PROVE  IInv'
<1>1. Inline!GoTo(b, "over") /\ step[b] = "idle" /\ UNCHANGED <<memory, conflicts, rival, Inline!workerVars,
                                                        day, heard>>
  BY DEF Inline!ExtractionFails
<1>2. Inline!TypeOK'
  BY DEF IInv, Inline!TypeOK, Inline!ExtractionFails, Inline!GoTo, Inline!Row, Inline!Stored,
     Inline!workerVars
<1>3. BatchMoves(b) /\ step'[b] = "over"
  BY <1>1, GoToMoves DEF IInv, Late
<1> QED
  BY <1>1, <1>2, <1>3, IngestSilent DEF Detecting

LEMMA SkipDuplicateKeeps ==
  ASSUME Inline!InlineAssumption, IInv, NEW b \in Batches, Inline!SkipDuplicate(b)
  PROVE  IInv'
<1>1. /\ step[b] = "check"
      /\ UNCHANGED <<memory, conflicts, known, rival, Inline!workerVars, Inline!clockVars, heard,
         failures>>
      /\ (Inline!GoTo(b, "over") /\ UNCHANGED file) \/ Inline!Advance(b)
  BY DEF Inline!SkipDuplicate
<1>2. /\ BatchMoves(b) /\ step'[b] \in {"check", "over"}
      /\ step' \in [Batches -> {"idle", "check", "save", "detect", "log", "flagOld",
                                "flagNew", "over"}]
      /\ at' \in [Batches -> Nat] /\ \A c \in Batches : at'[c] \in 1..Len(Parts[c])
      /\ file' \in [Batches -> {"QUEUED", "PROCESSING", "READY", "FAILED"}]
  <2>1. CASE Inline!Advance(b)
    BY <2>1, AdvanceMoves DEF IInv
  <2>2. CASE Inline!GoTo(b, "over") /\ UNCHANGED file
    <3>1. BatchMoves(b) /\ step'[b] = "over"
      BY <1>1, <2>2, GoToMoves DEF IInv, Late
    <3> QED
      BY <2>2, <3>1 DEF Inline!GoTo, IInv, Inline!TypeOK
  <2> QED
    BY <1>1, <2>1, <2>2
<1>3. Inline!TypeOK'
  BY <1>1, <1>2 DEF IInv, Inline!TypeOK, Inline!Stored, Inline!workerVars, Inline!clockVars
<1> QED
  BY <1>1, <1>2, <1>3, IngestSilent DEF Detecting, Inline!clockVars

LEMMA FindNewKeeps ==
  ASSUME Inline!InlineAssumption, IInv, NEW b \in Batches, Inline!FindNew(b)
  PROVE  IInv'
<1>1. /\ Inline!GoTo(b, "save") /\ step[b] = "check" /\ failures' \in {failures, failures + 1}
      /\ UNCHANGED <<memory, conflicts, known, rival, file, Inline!workerVars, Inline!clockVars, heard>>
      /\ failures' = failures \/ failures < MaxFaults
  BY DEF Inline!FindNew, Inline!Fault
<1>2. Inline!TypeOK'
  BY <1>1 DEF IInv, Inline!TypeOK, Inline!GoTo, Inline!Stored, Inline!workerVars,
     Inline!clockVars, Inline!InlineAssumption
<1>3. BatchMoves(b) /\ step'[b] = "save"
  BY <1>1, GoToMoves DEF IInv, Late
<1> QED
  BY <1>1, <1>2, <1>3, IngestSilent DEF Detecting, Inline!clockVars

LEMMA SaveFailsKeeps ==
  ASSUME Inline!InlineAssumption, IInv, NEW b \in Batches, Inline!SaveFails(b)
  PROVE  IInv'
<1>1. /\ Inline!GoTo(b, "over") /\ step[b] = "save" /\ failures' = failures + 1
      /\ failures < MaxFaults
      /\ UNCHANGED <<memory, conflicts, known, rival, Inline!workerVars, Inline!clockVars, heard>>
  BY DEF Inline!SaveFails, Inline!Fault
<1>2. Inline!TypeOK'
  <2>1. failures' \in 0..MaxFaults /\ file' \in [Batches -> {"QUEUED", "PROCESSING",
     "READY", "FAILED"}]
    BY <1>1 DEF IInv, Inline!TypeOK, Inline!SaveFails, Inline!Row, Inline!InlineAssumption
  <2> QED
    BY <1>1, <2>1 DEF IInv, Inline!TypeOK, Inline!GoTo, Inline!Stored, Inline!workerVars,
       Inline!clockVars
<1>3. BatchMoves(b) /\ step'[b] = "over"
  BY <1>1, GoToMoves DEF IInv, Late
<1> QED
  BY <1>1, <1>2, <1>3, IngestSilent DEF Detecting, Inline!clockVars

\* What is saved is new: nobody has stored, heard or listed it before.
LEMMA SaveKeeps ==
  ASSUME Inline!InlineAssumption, IInv, NEW b \in Batches, Inline!Save(b)
  PROVE  IInv'
<1>1. PICK x \in CItems : x = Inline!Item(b) /\ x \notin Inline!Stored \cup heard \cup todo
  BY ItemIsNew DEF Inline!Save
<1>2. /\ step[b] = "save"
      /\ UNCHANGED <<conflicts, known, rival, Inline!workerVars, Inline!clockVars, heard, failures>>
      /\ \/ Inline!GoTo(b, "detect") /\ UNCHANGED file /\ Type[x] \in Inline!CONFLICTABLE
         \/ Inline!Advance(b)
  BY <1>1 DEF Inline!Save, Inline!Detects
<1>3. /\ memory' = [i \in Inline!Stored \cup {x} |-> IF i = x THEN Inline!NewPoint(x) ELSE memory[i]]
      /\ Inline!Stored' = Inline!Stored \cup {x}
  BY <1>1 DEF Inline!Save, Inline!Stored
<1>4. Inline!NewPoint(x) \in Point
  <2>1. Inline!Importance(x) \in 0..100
    BY ImportanceType
  <2>2. day \in 0..MaxDay /\ 0 \in 0..MaxDay
    BY DEF IInv, Inline!TypeOK, Inline!InlineAssumption
  <2> QED
    BY <2>1, <2>2 DEF Inline!NewPoint, Point
<1>5. /\ BatchMoves(b) /\ Detecting(b)' /\ Passed(x)'
      /\ step' \in [Batches -> {"idle", "check", "save", "detect", "log", "flagOld",
                                "flagNew", "over"}]
      /\ at' \in [Batches -> Nat] /\ \A c \in Batches : at'[c] \in 1..Len(Parts[c])
      /\ file' \in [Batches -> {"QUEUED", "PROCESSING", "READY", "FAILED"}]
  <2>1. CASE Inline!Advance(b)
    BY <1>1, <2>1, AdvanceMoves DEF IInv, Detecting
  <2>2. CASE Inline!GoTo(b, "detect") /\ UNCHANGED file /\ Type[x] \in Inline!CONFLICTABLE
    <3>1. BatchMoves(b) /\ step'[b] = "detect" /\ at' = at /\ Passed(Inline!Item(b))'
      BY <1>2, <2>2, GoToMoves DEF IInv, Late
    <3>2. Inline!Item(b)' = x
      BY <1>1, <3>1 DEF Inline!Item
    <3>3. Detecting(b)'
      BY <2>2, <3>1, <3>2 DEF Detecting
    <3>4. Passed(x)'
      BY <3>1, <3>2 DEF Passed
    <3> QED
      BY <2>2, <3>1, <3>3, <3>4 DEF Inline!GoTo, IInv, Inline!TypeOK
  <2> QED
    BY <1>2, <2>1, <2>2
<1>6. Inline!TypeOK'
  <2>1. memory' \in [Inline!Stored' -> Point]
    BY <1>3, <1>4 DEF IInv, Inline!TypeOK, Point
  <2> QED
    BY <1>1, <1>2, <1>3, <1>5, <2>1 DEF IInv, Inline!TypeOK, Point, Inline!workerVars,
       Inline!clockVars
<1>7. ItemsKept
  BY <1>1, <1>3 DEF ItemsKept
<1>8. \A i \in Inline!Stored' \ Inline!Stored : Passed(i)' /\ i \notin heard' /\ i \notin todo
  <2> SUFFICES ASSUME NEW i \in Inline!Stored' \ Inline!Stored
               PROVE  Passed(i)' /\ i \notin heard' /\ i \notin todo
    OBVIOUS
  <2>1. i = x
    BY <1>3
  <2> QED
    BY <1>1, <1>2, <1>5, <2>1 DEF Passed
<1>9. Logged'
  BY <1>1, <1>2, <1>3 DEF IInv, Logged, Inline!NewPoint
<1> QED
  BY <1>2, <1>5, <1>6, <1>7, <1>8, <1>9, IngestKeeps DEF Inline!clockVars

\* A window as wide as the collection leaves no candidate out.
LEMMA NewestAll ==
  ASSUME Inline!InlineAssumption, Wide, NEW S \in SUBSET CItems, NEW W \in Inline!Newest(S)
  PROVE  W = S
<1>1. /\ IsFiniteSet(S) /\ Cardinality(S) \in Nat /\ Cardinality(S) <= Cardinality(CItems)
      /\ Cardinality(CItems) \in Nat /\ Window \in Nat
  BY SameLibrary, FS_Subset, FS_CardinalityType DEF Inline!InlineAssumption
<1>2. Cardinality(S) <= Window
  BY <1>1 DEF Wide
<1>3. Min({Window, Cardinality(S)}) = Cardinality(S)
  BY <1>1, <1>2 DEF Min
<1>4. W \in SUBSET S /\ Cardinality(W) = Cardinality(S)
  BY SameLibrary, <1>3 DEF Inline!Newest
<1> QED
  BY <1>1, <1>4, FS_Subset

\* A detection that finds nothing has seen every unflagged item saved before.
LEMMA DetectKeeps ==
  ASSUME Inline!InlineAssumption, IInv, NEW b \in Batches, Inline!Detect(b)
  PROVE  IInv'
<1>0. PICK x \in CItems : x = Inline!Item(b)
  BY ItemIsNew
<1>1. /\ step[b] = "detect" /\ Type[x] \in Inline!CONFLICTABLE
      /\ UNCHANGED <<memory, conflicts, known, Inline!workerVars, Inline!clockVars, failures>>
  BY <1>0 DEF Inline!Detect, IInv, Detecting
<1>2. PICK W \in Inline!Newest(Inline!Candidates(x)) :
        \/ /\ {j \in W : Inline!Contradicts(j, x)} = {}
           /\ heard' = heard \cup {x} /\ Inline!Advance(b) /\ UNCHANGED rival
        \/ /\ \E j \in {j \in W : Inline!Contradicts(j, x)} : rival' = [rival EXCEPT ![b] = j]
           /\ Inline!GoTo(b, "log") /\ UNCHANGED <<heard, file>>
  BY <1>0 DEF Inline!Detect
<1>3. Inline!Candidates(x) \in SUBSET CItems /\ W \subseteq Inline!Candidates(x)
  BY DEF Inline!Candidates, Inline!Newest, Inline!Active, IInv, Inline!TypeOK
<1>4. ItemsKept /\ Inline!Stored' = Inline!Stored /\ Logged'
  BY <1>1 DEF ItemsKept, Inline!Stored, IInv, Logged
<1>5. CASE /\ {j \in W : Inline!Contradicts(j, x)} = {}
           /\ heard' = heard \cup {x} /\ Inline!Advance(b) /\ UNCHANGED rival
  <2>1. /\ BatchMoves(b) /\ step'[b] \in {"check", "over"} /\ Passed(x)'
        /\ step' \in [Batches -> {"idle", "check", "save", "detect", "log", "flagOld",
                                  "flagNew", "over"}]
        /\ at' \in [Batches -> Nat] /\ \A c \in Batches : at'[c] \in 1..Len(Parts[c])
        /\ file' \in [Batches -> {"QUEUED", "PROCESSING", "READY", "FAILED"}]
    BY <1>0, <1>5, AdvanceMoves DEF IInv
  <2>2. Inline!TypeOK'
    BY <1>1, <1>5, <2>1 DEF IInv, Inline!TypeOK, Inline!Stored, Inline!workerVars,
       Inline!clockVars
  <2>3. Detecting(b)'
    BY <2>1 DEF Detecting
  <2>4. ASSUME Wide, NEW j \in heard \cap Inline!Active, x \notin heard, Inline!Contradicts(x, j)
        PROVE  memory'[x].flagged \/ memory'[j].flagged
    <3>1. Inline!Contradicts(j, x) /\ j # x /\ Type[j] \in Inline!CONFLICTABLE
      BY <2>4 DEF Inline!Contradicts, IInv, Heard
    <3>2. W = Inline!Candidates(x)
      BY <1>3, <2>4, NewestAll
    <3>3. j \notin Inline!Candidates(x)
      BY <1>5, <3>1, <3>2
    <3> QED
      BY <1>1, <2>4, <3>1, <3>3 DEF Inline!Candidates, IInv, Inline!TypeOK
  <2>5. \A i \in heard' \ heard : i = x /\ x \notin heard
    BY <1>5
  <2>6. Wide => \A i \in heard' \ heard : i \in Inline!Active' =>
          \A j \in heard \cap Inline!Active : Inline!Contradicts(i, j) => memory'[i].flagged
             \/ memory'[j].flagged
    BY <2>4, <2>5
  <2>7. \A i \in heard' \ heard : Passed(i)' /\ Type[i] \in Inline!CONFLICTABLE
    <3> SUFFICES ASSUME NEW i \in heard' \ heard PROVE Passed(i)' /\ Type[i] \in Inline!CONFLICTABLE
      OBVIOUS
    <3>1. i = x
      BY <2>5
    <3> QED
      BY <1>1, <2>1, <3>1 DEF Passed
  <2> QED
    BY <1>1, <1>4, <1>5, <2>1, <2>2, <2>3, <2>5, <2>6, <2>7, IngestKeeps DEF Inline!clockVars
<1>6. CASE /\ \E j \in {j \in W : Inline!Contradicts(j, x)} : rival' = [rival EXCEPT ![b] = j]
           /\ Inline!GoTo(b, "log") /\ UNCHANGED <<heard, file>>
  <2>1. BatchMoves(b) /\ step'[b] = "log" /\ at' = at
    BY <1>6, GoToMoves DEF IInv, Late
  <2>2. PICK j \in CItems : rival' = [rival EXCEPT ![b] = j]
    BY <1>3, <1>6
  <2>3. Inline!TypeOK'
    BY <1>1, <1>6, <2>2 DEF IInv, Inline!TypeOK, Inline!GoTo, Inline!Stored,
       Inline!workerVars, Inline!clockVars
  <2>4. Detecting(b)'
    BY <1>0, <1>1, <2>1, <2>2 DEF Detecting, Inline!Item, IInv, Inline!TypeOK
  <2>5. \A c \in Batches \ {b} : rival'[c] = rival[c]
    BY <2>2 DEF IInv, Inline!TypeOK
  <2> QED
    BY <1>1, <1>6, <2>1, <2>3, <2>4, <2>5, IngestSilent DEF Inline!clockVars
<1> QED
  BY <1>2, <1>5, <1>6

LEMMA LogConflictKeeps ==
  ASSUME Inline!InlineAssumption, IInv, NEW b \in Batches, Inline!LogConflict(b)
  PROVE  IInv'
<1>1. /\ Inline!GoTo(b, "flagOld") /\ step[b] = "log"
      /\ conflicts' = conflicts \cup {<<rival[b], Inline!Item(b)>>}
      /\ UNCHANGED <<memory, known, rival, file, Inline!workerVars, Inline!clockVars, heard, failures>>
      /\ Inline!Item(b) \in CItems /\ rival[b] \in CItems
      /\ Type[Inline!Item(b)] \in Inline!CONFLICTABLE
  BY ItemIsNew DEF Inline!LogConflict, IInv, Detecting
<1>2. Inline!TypeOK'
  BY <1>1 DEF IInv, Inline!TypeOK, Inline!GoTo, Inline!Stored, Inline!workerVars,
     Inline!clockVars
<1>3. BatchMoves(b) /\ step'[b] = "flagOld" /\ at' = at
  BY <1>1, GoToMoves DEF IInv, Late
<1>4. Detecting(b)'
  BY <1>1, <1>3 DEF Detecting, Inline!Item
<1> QED
  BY <1>1, <1>2, <1>3, <1>4, IngestSilent DEF Inline!clockVars

\* What a flag does to the memory.
LEMMA FlagKeepsTypes ==
  ASSUME Inline!TypeOK, NEW i \in Inline!Stored, Inline!Flag(i)
  PROVE  /\ Inline!Stored' = Inline!Stored /\ memory' \in [Inline!Stored -> Point]
         /\ memory'[i].flagged /\ ItemsKept
         /\ \A j \in Inline!Stored \ {i} : memory'[j] = memory[j]
<1>1. memory \in [Inline!Stored -> Point]
  BY DEF Inline!TypeOK, Point
<1>2. memory' = [memory EXCEPT ![i].flagged = TRUE]
  BY DEF Inline!Flag
<1>3. Inline!Stored' = Inline!Stored /\ memory' \in [Inline!Stored -> Point]
  BY <1>1, <1>2 DEF Inline!Stored, Point
<1>4. /\ memory'[i].flagged
      /\ \A j \in Inline!Stored \ {i} : memory'[j] = memory[j]
  BY <1>1, <1>2 DEF Point
<1>5. /\ memory'[i].status = memory[i].status /\ memory'[i].importance = memory[i].importance
      /\ memory'[i].born = memory[i].born /\ memory'[i].archivedAt = memory[i].archivedAt
  BY <1>1, <1>2 DEF Point
<1> QED
  BY <1>3, <1>4, <1>5 DEF ItemsKept

LEMMA FlagOldKeeps ==
  ASSUME Inline!InlineAssumption, IInv, NEW b \in Batches, Inline!FlagOld(b)
  PROVE  IInv'
<1>1. /\ Inline!GoTo(b, "flagNew") /\ step[b] = "flagOld" /\ rival[b] \in Inline!Stored
      /\ Inline!Flag(rival[b])
      /\ UNCHANGED <<conflicts, known, rival, file, Inline!workerVars, Inline!clockVars, heard, failures>>
      /\ <<rival[b], Inline!Item(b)>> \in conflicts
      /\ Type[Inline!Item(b)] \in Inline!CONFLICTABLE /\ rival[b] \in CItems
  BY DEF Inline!FlagOld, IInv, Detecting
<1>2. PICK r \in Inline!Stored : r = rival[b]
  BY <1>1
<1>3. /\ Inline!Stored' = Inline!Stored /\ memory' \in [Inline!Stored -> Point] /\ ItemsKept
      /\ \A j \in Inline!Stored \ {r} : memory'[j] = memory[j]
  BY <1>1, <1>2, FlagKeepsTypes DEF IInv
<1>4. Inline!TypeOK'
  BY <1>1, <1>3 DEF IInv, Inline!TypeOK, Inline!GoTo, Point, Inline!workerVars, Inline!clockVars
<1>5. BatchMoves(b) /\ step'[b] = "flagNew" /\ at' = at
  BY <1>1, GoToMoves DEF IInv, Late
<1>6. Detecting(b)'
  BY <1>1, <1>5 DEF Detecting, Inline!Item
<1>7. Logged'
  <2> SUFFICES ASSUME NEW i \in Inline!Stored, memory'[i].flagged
               PROVE  \E c \in conflicts : i \in {c[1], c[2]}
    BY <1>1, <1>3 DEF Logged
  <2>1. CASE i = r
    <3>1. i = <<rival[b], Inline!Item(b)>>[1]
      BY <1>2, <2>1
    <3> QED
      BY <1>1, <3>1
  <2>2. CASE i # r
    BY <1>3, <2>2 DEF IInv, Logged
  <2> QED
    BY <2>1, <2>2
<1> QED
  BY <1>1, <1>3, <1>4, <1>5, <1>6, <1>7, IngestKeeps DEF Inline!clockVars

LEMMA FlagNewKeeps ==
  ASSUME Inline!InlineAssumption, IInv, NEW b \in Batches, Inline!FlagNew(b)
  PROVE  IInv'
<1>1. /\ Inline!Advance(b) /\ step[b] = "flagNew" /\ Inline!Item(b) \in Inline!Stored
      /\ Inline!Flag(Inline!Item(b))
      /\ heard' = heard \cup {Inline!Item(b)}
      /\ UNCHANGED <<conflicts, known, rival, Inline!workerVars, Inline!clockVars, failures>>
      /\ <<rival[b], Inline!Item(b)>> \in conflicts /\ Type[Inline!Item(b)] \in Inline!CONFLICTABLE
  BY DEF Inline!FlagNew, IInv, Detecting
<1>2. PICK x \in Inline!Stored : x = Inline!Item(b)
  BY <1>1
<1>3. /\ Inline!Stored' = Inline!Stored /\ memory' \in [Inline!Stored -> Point] /\ ItemsKept
      /\ memory'[x].flagged
      /\ \A j \in Inline!Stored \ {x} : memory'[j] = memory[j]
  BY <1>1, <1>2, FlagKeepsTypes DEF IInv
<1>4. /\ BatchMoves(b) /\ step'[b] \in {"check", "over"} /\ Passed(x)'
      /\ step' \in [Batches -> {"idle", "check", "save", "detect", "log", "flagOld",
                                "flagNew", "over"}]
      /\ at' \in [Batches -> Nat] /\ \A c \in Batches : at'[c] \in 1..Len(Parts[c])
      /\ file' \in [Batches -> {"QUEUED", "PROCESSING", "READY", "FAILED"}]
  BY <1>1, <1>2, AdvanceMoves DEF IInv
<1>5. Inline!TypeOK'
  BY <1>1, <1>2, <1>3, <1>4 DEF IInv, Inline!TypeOK, Point, Inline!workerVars, Inline!clockVars
<1>6. Detecting(b)'
  BY <1>4 DEF Detecting
<1>7. Logged'
  <2> SUFFICES ASSUME NEW i \in Inline!Stored, memory'[i].flagged
               PROVE  \E c \in conflicts : i \in {c[1], c[2]}
    BY <1>1, <1>3 DEF Logged
  <2>1. CASE i = x
    <3>1. i = <<rival[b], Inline!Item(b)>>[2]
      BY <1>2, <2>1
    <3> QED
      BY <1>1, <3>1
  <2>2. CASE i # x
    BY <1>3, <2>2 DEF IInv, Logged
  <2> QED
    BY <2>1, <2>2
<1>8. \A i \in heard' \ heard : i = x
  BY <1>1, <1>2
<1>9. \A i \in heard' \ heard : Passed(i)' /\ Type[i] \in Inline!CONFLICTABLE
  <2> SUFFICES ASSUME NEW i \in heard' \ heard PROVE Passed(i)' /\ Type[i] \in Inline!CONFLICTABLE
    OBVIOUS
  <2>1. i = x
    BY <1>8
  <2> QED
    BY <1>1, <1>2, <1>4, <2>1 DEF Passed
<1> QED
  BY <1>1, <1>3, <1>4, <1>5, <1>6, <1>7, <1>8, <1>9, IngestKeeps DEF Inline!clockVars

LEMMA DetectFailsKeeps ==
  ASSUME Inline!InlineAssumption, IInv, NEW b \in Batches, Inline!DetectFails(b)
  PROVE  IInv'
<1>1. /\ Inline!Advance(b) /\ failures' \in 0..MaxFaults
      /\ UNCHANGED <<memory, conflicts, known, rival, Inline!workerVars, Inline!clockVars, heard>>
  BY DEF Inline!DetectFails, Inline!Fault, IInv, Inline!TypeOK, Inline!InlineAssumption
<1>2. /\ BatchMoves(b) /\ step'[b] \in {"check", "over"}
      /\ step' \in [Batches -> {"idle", "check", "save", "detect", "log", "flagOld",
                                "flagNew", "over"}]
      /\ at' \in [Batches -> Nat] /\ \A c \in Batches : at'[c] \in 1..Len(Parts[c])
      /\ file' \in [Batches -> {"QUEUED", "PROCESSING", "READY", "FAILED"}]
  BY <1>1, AdvanceMoves DEF IInv
<1>3. Inline!TypeOK'
  BY <1>1, <1>2 DEF IInv, Inline!TypeOK, Inline!Stored, Inline!workerVars, Inline!clockVars
<1> QED
  BY <1>1, <1>2, <1>3, IngestSilent DEF Detecting, Inline!clockVars

LEMMA IngestPreserves ==
  ASSUME Inline!InlineAssumption, IInv, NEW b \in Batches, Inline!Ingest(b)
  PROVE  IInv'
BY BeginKeeps, ExtractionFailsKeeps, SkipDuplicateKeeps, FindNewKeeps, SaveKeeps,
   SaveFailsKeeps, DetectKeeps, LogConflictKeeps, FlagOldKeeps, FlagNewKeeps, DetectFailsKeeps
   DEF Inline!Ingest

-----------------------------------------------------------------------------
(* The steps of the worker, of a reconciliation, and of the days.           *)

\* They store nothing, flag nothing and make nothing active.
LEMMA WorkerKeeps ==
  ASSUME IInv, Inline!TypeOK', UNCHANGED <<conflicts, Inline!batchVars, heard>>,
         Inline!Stored' \subseteq Inline!Stored, todo' \subseteq todo \cup Inline!Stored,
            Inline!Active' \subseteq Inline!Active,
         \A i \in Inline!Stored' : memory'[i].flagged = memory[i].flagged,
         Earned'
  PROVE  IInv'
<1>1. \A i : Passed(i) => Passed(i)'
  BY DEF Passed, Inline!batchVars
<1>2. Settled'
  <2> SUFFICES ASSUME NEW i \in Inline!Stored' \cup heard' \cup todo' PROVE Passed(i)'
    BY DEF Settled
  <2>1. i \in Inline!Stored \cup heard \cup todo
    OBVIOUS
  <2> QED
    BY <1>1, <2>1 DEF IInv, Settled
<1>3. \A b \in Batches : Detecting(b)'
  BY DEF IInv, Detecting, Inline!Item, Inline!batchVars
<1>4. Heard'
  BY DEF IInv, Heard
<1>5. Wide => Flagged'
  BY DEF IInv, Flagged, Inline!Active
<1>6. Logged'
  BY DEF IInv, Logged
<1> QED
  BY <1>2, <1>3, <1>4, <1>5, <1>6 DEF IInv, Wide

\* What a step may do to one stored item without making it active.
Dims(i, p) ==
  /\ p \in Point /\ p.flagged = memory[i].flagged
  /\ p.status \in {"archived", memory[i].status}

LEMMA DimKeeps ==
  ASSUME Inline!InlineAssumption, IInv, NEW i \in Inline!Stored, NEW p, Dims(i, p),
         memory' = [memory EXCEPT ![i] = p]
  PROVE  /\ Inline!Stored' = Inline!Stored /\ memory' \in [Inline!Stored -> Point]
         /\ Inline!Active' \subseteq Inline!Active
         /\ \A j \in Inline!Stored' : memory'[j].flagged = memory[j].flagged
         /\ memory'[i] = p /\ \A j \in Inline!Stored \ {i} : memory'[j] = memory[j]
<1>1. memory \in [Inline!Stored -> Point]
  BY DEF IInv, Inline!TypeOK, Point
<1>2. /\ Inline!Stored' = Inline!Stored /\ memory' \in [Inline!Stored -> Point]
      /\ memory'[i] = p /\ \A j \in Inline!Stored \ {i} : memory'[j] = memory[j]
  BY <1>1 DEF Inline!Stored, Dims
<1> QED
  BY <1>2 DEF Inline!Active, Dims

LEMMA ArchivedDims ==
  ASSUME Inline!InlineAssumption, IInv, NEW i \in Inline!Stored
  PROVE  /\ Dims(i, Inline!Archived(memory[i])) /\ Inline!Archived(memory[i]).status = "archived"
         /\ Dims(i,
            Inline!Attenuated(memory[i])) /\ Inline!Attenuated(memory[i]).status = memory[i].status
         /\ Dims(i, Inline!Archived(Inline!Attenuated(memory[i])))
         /\ Inline!Archived(Inline!Attenuated(memory[i])).status = "archived"
<1>1. PICK m \in Point : m = memory[i]
  BY DEF IInv, Inline!TypeOK, Point
<1>2. PICK n \in 0..100 : n = m.importance
  BY DEF Point
<1>3. (n * 4) \div 5 \in 0..100
  BY AFifthLess
<1>4. /\ Inline!Attenuated(m) \in Point /\ Inline!Attenuated(m).flagged = m.flagged
      /\ Inline!Attenuated(m).status = m.status
  BY <1>2, <1>3 DEF Inline!Attenuated, Point
<1>5. day \in 0..MaxDay
  BY DEF IInv, Inline!TypeOK
<1>6. \A q \in Point : /\ Inline!Archived(q) \in Point /\ Inline!Archived(q).flagged = q.flagged
                       /\ Inline!Archived(q).status = "archived"
  BY <1>5 DEF Inline!Archived, Point
<1> QED
  BY <1>1, <1>4, <1>6 DEF Dims

\* A pass is told what it reads.
LEMMA ReadKeeps ==
  ASSUME Inline!InlineAssumption, IInv,
         Inline!ListConversation \/ Inline!ReadActive \/ Inline!ReadArchived \/ Inline!ReadCopies \/ Inline!EndCycle
  PROVE  IInv'
<1>1. /\ UNCHANGED <<memory, failures, conflicts, Inline!batchVars, Inline!clockVars, heard>>
      /\ stage' \in {"idle", "listed", "attenuate", "purge", "dedup"}
  BY DEF Inline!ListConversation, Inline!ReadActive, Inline!ReadArchived, Inline!ReadCopies,
     Inline!EndCycle, Inline!Work
<1>2. todo' \subseteq Inline!Stored /\ Earned'
  <2>1. CASE Inline!ListConversation \/ Inline!EndCycle
    BY <2>1 DEF Inline!ListConversation, Inline!EndCycle, Inline!Work, Earned
  <2>2. CASE Inline!ReadActive
    BY <1>1, <2>2 DEF Inline!ReadActive, Inline!Work, Earned, Inline!ShouldAttenuate,
       Inline!clockVars
  <2>3. CASE Inline!ReadArchived
    BY <1>1, <2>3 DEF Inline!ReadArchived, Inline!Work, Earned, Inline!CanPurge,
       Inline!clockVars
  <2>4. CASE Inline!ReadCopies
    <3>1. stage' = "dedup" /\ todo' \in Inline!Copies
      BY <2>4 DEF Inline!ReadCopies, Inline!Work
    <3>2. PICK K \in SUBSET Inline!Active :
            todo' = Inline!Active \ K /\ \A i \in Inline!Active : Cardinality({j \in K : Inline!Says(i, j)}) = 1
      BY SameLibrary, <3>1 DEF Inline!Copies
    <3>3. ASSUME NEW i \in Inline!Active
          PROVE  \E j \in K : Inline!Says(i, j)
      <4>1. {j \in K : Inline!Says(i, j)} # {}
        BY <3>2, FS_EmptySet
      <4> QED
        BY <4>1
    <3>4. Inline!Active' = Inline!Active /\ Inline!Active \ todo' = K
                                         /\ Inline!Active \subseteq Inline!Stored
      BY <1>1, <3>2 DEF Inline!Active, Inline!Stored
    <3> QED
      BY <3>1, <3>2, <3>3, <3>4 DEF Earned, Inline!Says
  <2> QED
    BY <2>1, <2>2, <2>3, <2>4
<1>3. Inline!Stored' = Inline!Stored /\ Inline!Active' = Inline!Active
  BY <1>1 DEF Inline!Stored, Inline!Active
<1>4. Inline!TypeOK'
  BY <1>1, <1>2, <1>3 DEF IInv, Inline!TypeOK, Inline!batchVars, Inline!clockVars
<1> QED
  BY <1>1, <1>2, <1>3, <1>4, WorkerKeeps

\* An item done with leaves what was read of the others as it was.
LEMMA AttenuateKeeps ==
  ASSUME Inline!InlineAssumption, IInv, NEW i \in CItems, Inline!Attenuate(i)
  PROVE  IInv'
<1>1. /\ stage = "attenuate" /\ stage' = stage /\ i \in todo \cap Inline!Stored
      /\ todo' = todo \ {i}
      /\ UNCHANGED <<failures, conflicts, Inline!batchVars, Inline!clockVars, heard>>
      /\ memory' = [memory EXCEPT ![i] = Inline!Archived(Inline!Attenuated(memory[i]))]
  BY DEF Inline!Attenuate, Inline!Work
<1>2. PICK p : p = Inline!Archived(Inline!Attenuated(memory[i]))
  OBVIOUS
<1>3. /\ Inline!Stored' = Inline!Stored /\ memory' \in [Inline!Stored -> Point]
      /\ Inline!Active' \subseteq Inline!Active
      /\ \A j \in Inline!Stored' : memory'[j].flagged = memory[j].flagged
      /\ \A j \in Inline!Stored \ {i} : memory'[j] = memory[j]
  BY <1>1, <1>2, ArchivedDims, DimKeeps
<1>4. Inline!TypeOK'
  BY <1>1, <1>3 DEF IInv, Inline!TypeOK, Point, Inline!batchVars, Inline!clockVars
<1>5. Earned'
  BY <1>1, <1>3 DEF IInv, Earned, Inline!ShouldAttenuate, Inline!clockVars
<1> QED
  BY <1>1, <1>3, <1>4, <1>5, WorkerKeeps

LEMMA PurgeKeeps ==
  ASSUME Inline!InlineAssumption, IInv, NEW i \in CItems, Inline!Purge(i)
  PROVE  IInv'
<1>1. /\ stage = "purge" /\ stage' = stage /\ i \in todo /\ todo' = todo \ {i}
      /\ UNCHANGED <<failures, conflicts, Inline!batchVars, Inline!clockVars, heard>>
      /\ memory' = [j \in Inline!Stored \ {i} |-> memory[j]]
  BY DEF Inline!Purge, Inline!Work
<1>2. /\ Inline!Stored' = Inline!Stored \ {i} /\ \A j \in Inline!Stored' : memory'[j] = memory[j]
      /\ memory' \in [Inline!Stored' -> Point]
  BY <1>1 DEF IInv, Inline!TypeOK, Point, Inline!Stored
<1>3. Inline!TypeOK'
  BY <1>1, <1>2 DEF IInv, Inline!TypeOK, Point, Inline!batchVars, Inline!clockVars
<1>4. Earned'
  BY <1>1, <1>2 DEF IInv, Earned, Inline!CanPurge, Inline!clockVars
<1> QED
  BY <1>1, <1>2, <1>3, <1>4, WorkerKeeps DEF Inline!Active

\* The copy that stays is never one of those to archive.
LEMMA ArchiveCopyKeeps ==
  ASSUME Inline!InlineAssumption, IInv, NEW i \in CItems, Inline!ArchiveCopy(i)
  PROVE  IInv'
<1>1. /\ stage = "dedup" /\ stage' = stage /\ i \in todo \cap Inline!Stored /\ todo' = todo \ {i}
      /\ UNCHANGED <<failures, conflicts, Inline!batchVars, Inline!clockVars, heard>>
      /\ memory' = [memory EXCEPT ![i] = Inline!Archived(memory[i])]
  BY DEF Inline!ArchiveCopy, Inline!Work
<1>2. PICK p : p = Inline!Archived(memory[i])
  OBVIOUS
<1>3. /\ Inline!Stored' = Inline!Stored /\ memory' \in [Inline!Stored -> Point]
      /\ Inline!Active' \subseteq Inline!Active
      /\ \A j \in Inline!Stored' : memory'[j].flagged = memory[j].flagged
      /\ memory'[i].status = "archived"
      /\ \A j \in Inline!Stored \ {i} : memory'[j] = memory[j]
  BY <1>1, <1>2, ArchivedDims, DimKeeps
<1>4. Inline!TypeOK'
  BY <1>1, <1>3 DEF IInv, Inline!TypeOK, Point, Inline!batchVars, Inline!clockVars
<1>5. ASSUME NEW k \in todo' \cap Inline!Active'
      PROVE  \E j \in Inline!Active' \ todo' : Inline!Says(k, j)
  <2>1. PICK j \in Inline!Active \ todo : Inline!Says(k, j)
    BY <1>1, <1>3, <1>5 DEF IInv, Earned
  <2>2. j \in Inline!Active' \ todo'
    BY <1>1, <1>3, <2>1 DEF Inline!Active
  <2> QED
    BY <2>1, <2>2
<1>6. Earned'
  BY <1>1, <1>5 DEF Earned, Inline!Says
<1> QED
  BY <1>1, <1>3, <1>4, <1>6, WorkerKeeps

LEMMA CycleFailsKeeps ==
  ASSUME Inline!InlineAssumption, IInv, Inline!CycleFails
  PROVE  IInv'
<1>1. /\ stage' = "idle" /\ todo' = {} /\ failures' \in 0..MaxFaults
      /\ UNCHANGED <<conflicts, Inline!batchVars, Inline!clockVars, heard>>
  BY DEF Inline!CycleFails, Inline!Work, Inline!Fault, IInv, Inline!TypeOK,
     Inline!InlineAssumption
<1>2. /\ Inline!Stored' = Inline!Stored /\ memory' \in [Inline!Stored -> Point]
      /\ Inline!Active' \subseteq Inline!Active
      /\ \A j \in Inline!Stored' : memory'[j].flagged = memory[j].flagged
  <2>1. CASE UNCHANGED memory
    BY <2>1 DEF Inline!Stored, Inline!Active, IInv, Inline!TypeOK, Point
  <2>2. CASE \E i \in todo \cap Inline!Stored : memory' = [memory EXCEPT ![i] = Inline!Attenuated(memory[i])]
    <3>1. PICK i \in todo \cap Inline!Stored : memory' = [memory EXCEPT ![i] = Inline!Attenuated(memory[i])]
      BY <2>2
    <3>2. PICK p : p = Inline!Attenuated(memory[i])
      OBVIOUS
    <3> QED
      BY <3>1, <3>2, ArchivedDims, DimKeeps
  <2> QED
    BY <2>1, <2>2 DEF Inline!CycleFails
<1>3. Inline!TypeOK'
  BY <1>1, <1>2 DEF IInv, Inline!TypeOK, Point, Inline!batchVars, Inline!clockVars
<1>4. Earned'
  BY <1>1 DEF Earned
<1> QED
  BY <1>1, <1>2, <1>3, <1>4, WorkerKeeps

LEMMA SweepKeeps ==
  ASSUME Inline!InlineAssumption, IInv, Inline!Sweep
  PROVE  IInv'
<1>1. /\ memory' = << >> /\ failures' \in 0..MaxFaults
      /\ UNCHANGED <<conflicts, Inline!batchVars, Inline!workerVars, Inline!clockVars, heard>>
  BY DEF Inline!Sweep, Inline!Fault, IInv, Inline!TypeOK, Inline!InlineAssumption
<1>2. Inline!Stored' = {} /\ Inline!Active' = {}
  BY <1>1 DEF Inline!Stored, Inline!Active
<1>3. memory' \in [Inline!Stored' -> Point]
  BY <1>1, <1>2 DEF Inline!Stored
<1>4. Inline!TypeOK'
  BY <1>1, <1>2, <1>3 DEF IInv, Inline!TypeOK, Point, Inline!batchVars, Inline!workerVars,
     Inline!clockVars
<1>5. Earned'
  BY <1>1, <1>2 DEF Earned
<1> QED
  BY <1>1, <1>2, <1>4, <1>5, WorkerKeeps DEF Inline!workerVars

LEMMA TickKeeps ==
  ASSUME Inline!InlineAssumption, IInv, Inline!Tick
  PROVE  IInv'
<1>1. /\ stage = "idle" /\ day' = day + 1 /\ day < MaxDay
      /\ UNCHANGED <<memory, conflicts, Inline!batchVars, Inline!workerVars, lastTurn, heard, failures>>
  BY DEF Inline!Tick
<1>2. Inline!Stored' = Inline!Stored /\ Inline!Active' = Inline!Active
  BY <1>1 DEF Inline!Stored, Inline!Active
<1>3. day' \in 0..MaxDay /\ lastTurn' \in 0..day'
  BY <1>1 DEF IInv, Inline!TypeOK, Inline!InlineAssumption
<1>4. Inline!TypeOK'
  BY <1>1, <1>2, <1>3 DEF IInv, Inline!TypeOK, Inline!batchVars, Inline!workerVars
<1>5. Earned'
  BY <1>1 DEF Earned, Inline!workerVars
<1> QED
  BY <1>1, <1>2, <1>4, <1>5, WorkerKeeps DEF Inline!workerVars

-----------------------------------------------------------------------------
(* The theorems.                                                            *)

LEMMA InitHolds ==
  ASSUME Inline!InlineAssumption, Inline!Init
  PROVE  IInv
<1>1. Inline!Stored = {} /\ Inline!Active = {} /\ memory \in [Inline!Stored -> Point]
  BY DEF Inline!Init, Inline!Stored, Inline!Active
<1>2. \A b \in Batches : 1 \in 1..Len(Parts[b])
  BY LenProperties, EmptySeq DEF Inline!InlineAssumption
<1>3. Inline!TypeOK
  BY <1>1, <1>2 DEF Inline!Init, Inline!TypeOK, Point, Inline!InlineAssumption
<1> QED
  BY <1>1, <1>3 DEF Inline!Init, IInv, Settled, Detecting, Heard, Flagged, Logged, Earned

LEMMA StepKeeps ==
  ASSUME Inline!InlineAssumption, IInv, [Inline!Next]_(Inline!vars)
  PROVE  IInv'
<1>1. CASE \E b \in Batches : Inline!Ingest(b)
  BY <1>1, IngestPreserves
<1>2. CASE Inline!Forget
  BY <1>2, ReadKeeps, AttenuateKeeps, PurgeKeeps, ArchiveCopyKeeps,
     CycleFailsKeeps DEF Inline!Forget
<1>3. CASE Inline!Sweep
  BY <1>3, SweepKeeps
<1>4. CASE Inline!Tick
  BY <1>4, TickKeeps
<1>5. CASE UNCHANGED Inline!vars
  <2>1. /\ UNCHANGED <<memory, failures, conflicts, Inline!batchVars, Inline!workerVars, Inline!clockVars,
                     heard>>
        /\ Inline!Stored' = Inline!Stored /\ Inline!Active' = Inline!Active
    BY <1>5 DEF Inline!vars, Inline!Stored, Inline!Active
  <2>2. Inline!TypeOK'
    BY <2>1 DEF IInv, Inline!TypeOK, Inline!batchVars, Inline!workerVars, Inline!clockVars
  <2>3. Earned'
    BY <2>1 DEF IInv, Earned, Inline!ShouldAttenuate, Inline!CanPurge, Inline!Says,
       Inline!workerVars, Inline!clockVars
  <2> QED
    BY <2>1, <2>2, <2>3, WorkerKeeps DEF Inline!workerVars
<1> QED
  BY <1>1, <1>2, <1>3, <1>4, <1>5 DEF Inline!Next

(* The inductive invariant of the inline memory holds in every reachable    *)
(* state, whatever batches, turns, passes, sweeps and faults do.            *)
THEOREM Inductive == Inline!Spec => []IInv
<1> USE InlineAssumed
<1>1. Inline!Init => IInv
  BY InitHolds
<1>2. IInv /\ [Inline!Next]_(Inline!vars) => IInv'
  BY StepKeeps
<1> QED
  BY <1>1, <1>2, PTL DEF Inline!Spec

(* Of two active items that contradict each other and have both been heard  *)
(* one is flagged, as long as the detector looks at all the candidates      *)
(* there can be; and whatever is flagged is named in the conflict log.      *)
THEOREM Contradictions ==
  Cardinality(CItems) <= Window => (Inline!Spec => []ContradictionsAreFlagged)
<1> USE InlineAssumed
<1> SUFFICES ASSUME Wide PROVE Inline!Spec => []ContradictionsAreFlagged
  BY DEF Wide
<1>1. IInv => ContradictionsAreFlagged
  BY DEF IInv, Flagged, Logged, ContradictionsAreFlagged, Inline!ContradictionsAreFlagged
<1> QED
  BY <1>1, Inductive, PTL

\* What the worker does to an item at a step of its own.
LEMMA ForgetIsEarned ==
  ASSUME Inline!InlineAssumption, IInv, Inline!Forget, NEW i \in Inline!Stored
  PROVE  \/ i \in Inline!Stored' /\ memory'[i].status = memory[i].status
         \/ i \in Inline!Stored' /\ Inline!ShouldAttenuate(i)
         \/ i \in Inline!Stored' /\ \E j \in Inline!Active \ {i} :
              j \in Inline!Stored' /\ memory'[j].status = "active" /\ Inline!Says(i, j)
         \/ i \notin Inline!Stored' /\ i \notin Inline!Active /\ day - memory[i].archivedAt >= AlphaPurge
<1>1. CASE Inline!ListConversation \/ Inline!ReadActive \/ Inline!ReadArchived \/ Inline!ReadCopies \/ Inline!EndCycle
  BY <1>1 DEF Inline!ListConversation, Inline!ReadActive, Inline!ReadArchived,
     Inline!ReadCopies, Inline!EndCycle, Inline!Stored
<1>2. CASE Inline!CycleFails
  <2>1. CASE UNCHANGED memory
    BY <2>1 DEF Inline!Stored
  <2>2. CASE \E k \in todo \cap Inline!Stored : memory' = [memory EXCEPT ![k] = Inline!Attenuated(memory[k])]
    <3>1. PICK k \in todo \cap Inline!Stored : memory' = [memory EXCEPT ![k] = Inline!Attenuated(memory[k])]
      BY <2>2
    <3>2. PICK p : p = Inline!Attenuated(memory[k])
      OBVIOUS
    <3>3. /\ Inline!Stored' = Inline!Stored /\ memory'[k] = p /\ p.status = memory[k].status
          /\ \A j \in Inline!Stored \ {k} : memory'[j] = memory[j]
      BY <3>1, <3>2, ArchivedDims, DimKeeps
    <3> QED
      BY <3>3
  <2> QED
    BY <1>2, <2>1, <2>2 DEF Inline!CycleFails
<1>3. ASSUME NEW k \in CItems, Inline!Attenuate(k)
      PROVE  i \in Inline!Stored' /\ (memory'[i].status = memory[i].status \/ Inline!ShouldAttenuate(i))
  <2>1. /\ stage = "attenuate" /\ k \in todo \cap Inline!Stored
        /\ memory' = [memory EXCEPT ![k] = Inline!Archived(Inline!Attenuated(memory[k]))]
    BY <1>3 DEF Inline!Attenuate
  <2>2. Inline!ShouldAttenuate(k)
    BY <2>1 DEF IInv, Earned
  <2>3. PICK p : p = Inline!Archived(Inline!Attenuated(memory[k]))
    OBVIOUS
  <2>4. Inline!Stored' = Inline!Stored /\ \A j \in Inline!Stored \ {k} : memory'[j] = memory[j]
    BY <2>1, <2>3, ArchivedDims, DimKeeps
  <2> QED
    BY <2>2, <2>4
<1>4. ASSUME NEW k \in CItems, Inline!Purge(k)
      PROVE  \/ i \in Inline!Stored' /\ memory'[i].status = memory[i].status
             \/ i \notin Inline!Stored' /\ i \notin Inline!Active /\ day - memory[i].archivedAt >= AlphaPurge
  <2>1. /\ stage = "purge" /\ k \in todo /\ memory' = [j \in Inline!Stored \ {k} |-> memory[j]]
        /\ Inline!Stored' = Inline!Stored \ {k}
    BY <1>4 DEF Inline!Purge, Inline!Stored
  <2>2. CASE i = k
    BY <2>1, <2>2 DEF IInv, Earned, Inline!CanPurge, Inline!Active
  <2>3. CASE i # k
    BY <2>1, <2>3
  <2> QED
    BY <2>2, <2>3
<1>5. ASSUME NEW k \in CItems, Inline!ArchiveCopy(k)
      PROVE  /\ i \in Inline!Stored'
             /\ \/ memory'[i].status = memory[i].status
                \/ \E j \in Inline!Active \ {i} :
                     j \in Inline!Stored' /\ memory'[j].status = "active" /\ Inline!Says(i, j)
  <2>1. /\ stage = "dedup" /\ k \in todo \cap Inline!Stored
        /\ memory' = [memory EXCEPT ![k] = Inline!Archived(memory[k])]
    BY <1>5 DEF Inline!ArchiveCopy
  <2>2. PICK p : p = Inline!Archived(memory[k])
    OBVIOUS
  <2>3. /\ Inline!Stored' = Inline!Stored /\ memory'[k].status = "archived"
        /\ \A j \in Inline!Stored \ {k} : memory'[j] = memory[j]
    BY <2>1, <2>2, ArchivedDims, DimKeeps
  <2>4. CASE i # k
    BY <2>3, <2>4
  <2>5. CASE i = k /\ i \in Inline!Active
    <3>1. PICK j \in Inline!Active \ todo : Inline!Says(i, j)
      BY <2>1, <2>5 DEF IInv, Earned
    <3>2. j \in Inline!Active \ {i} /\ j \in Inline!Stored' /\ memory'[j].status = "active"
      BY <2>1, <2>3, <2>5, <3>1 DEF Inline!Active
    <3> QED
      BY <2>3, <3>1, <3>2
  <2>6. CASE i = k /\ i \notin Inline!Active
    <3>1. memory[i].status = "archived"
      BY <2>6 DEF Inline!Active, IInv, Inline!TypeOK
    <3> QED
      BY <2>3, <2>6, <3>1
  <2> QED
    BY <2>4, <2>5, <2>6
<1> QED
  BY <1>1, <1>2, <1>3, <1>4, <1>5 DEF Inline!Forget

(* The worker archives an item only for its own age and unimportance or     *)
(* while another active item says the same, and erases only what has been   *)
(* archived for AlphaPurge days, though it acts on what it read when each   *)
(* pass began.                                                              *)
THEOREM Forgetting == Inline!Spec => ForgettingIsEarned
<1> USE InlineAssumed
<1> DEFINE A == Inline!Forget => \A i \in Inline!Stored :
       \/ i \in Inline!Stored' /\ memory'[i].status = memory[i].status
       \/ i \in Inline!Stored' /\ Inline!ShouldAttenuate(i)
       \/ i \in Inline!Stored' /\ \E j \in Inline!Active \ {i} :
            j \in Inline!Stored' /\ memory'[j].status = "active" /\ Inline!Says(i, j)
       \/ i \notin Inline!Stored' /\ i \notin Inline!Active /\ day - memory[i].archivedAt >= AlphaPurge
<1>1. IInv /\ [Inline!Next]_(Inline!vars) => [A]_(Inline!vars)
  BY ForgetIsEarned
<1> HIDE DEF A
<1>2. Inline!Spec => []IInv
  BY Inductive
<1>3. Inline!Spec => [][A]_(Inline!vars)
  BY <1>1, <1>2, PTL DEF Inline!Spec
<1> QED
  BY <1>3 DEF A, ForgettingIsEarned, Inline!ForgettingIsEarned

(* Side by side the plane of workers and the inline memory do what they may *)
(* do by themselves: what is proved of VectorPlane and of InlineMemory      *)
(* holds of VectorStore, which the run checks.                              *)
THEOREM BothStore == BothSpec => Spec /\ Inline!Spec
<1>1. BothInit => Init /\ Inline!Init
  BY DEF BothInit
<1>2. [BothNext]_<<vars, inlineVars>> => [Next]_vars /\ [Inline!Next]_(Inline!vars)
  BY DEF BothNext, inlineVars, Inline!vars, Inline!batchVars, Inline!workerVars, Inline!clockVars
<1>3. QED
  BY <1>1, <1>2, PTL DEF BothSpec, Spec, Inline!Spec
=============================================================================
