------------------------- MODULE AnswerTurn_proofs -------------------------
(***************************************************************************)
(* What AnswerTurn says of a published answer holds of any memory, any     *)
(* size of a prompt, any summary and anything a model may answer.  The     *)
(* invariant follows evidence from where it is read to where it is cited:  *)
(* what is shown rests on lineage, the closed set of markers names what is *)
(* shown, and the answer cites within the closed set.                      *)
(***************************************************************************)
EXTENDS AnswerTurn, Sequences, FiniteSetTheorems, TLAPS

(* The stages before the prompt is rendered, and those before publication. *)
Before == {"new", "retrieve", "resolve", "control", "zoom", "perspective", "lineage", "compose"}
NothingYet == stage \in Before => allowed = {} /\ said = Nothing /\ answer = Nothing
Ungated == stage \in Before \cup {"generate", "repair", "publish"} => gate = "none"

(* The question is no evidence, and what is shown has its lineage. *)
ViewWithoutQuestion == \A n \in DOMAIN view : view[n].item # Question
Rests(r) == r.item # Question /\ r.proof # {} /\ r.proof \subseteq witnessed
RowsRest == \A r \in support : Rests(r)

(* The closed set names what is shown, the answer cites within it. *)
Closed == allowed \subseteq VisibleLabels(support) /\ Cited(answer) \subseteq allowed

IInv ==
  /\ TypeOK /\ NothingYet /\ Ungated /\ ViewWithoutQuestion /\ RowsRest /\ Closed
  /\ NothingInvented /\ NothingLost /\ GateIsTrue

-----------------------------------------------------------------------------
(* The clean-up of an answer.                                               *)

\* What a clean-up may do: leave blocks out, or markers that are not allowed.
Cleaned(b, a, markers) ==
  /\ IsAnswer(b)
  /\ DOMAIN b \subseteq DOMAIN a
  /\ \A i \in DOMAIN b : b[i].kind = a[i].kind /\ b[i].cites = a[i].cites \cap markers
  /\ \A i \in DOMAIN a : a[i].kind # "meta" /\ a[i].cites \cap markers # {} => i \in DOMAIN b

\* SanitizeVisible leaves out the notes and touches nothing else.
LEMMA VisibleKeeps ==
  ASSUME NEW a, IsAnswer(a)
  PROVE  /\ IsAnswer(SanitizeVisible(a))
         /\ DOMAIN SanitizeVisible(a) = {i \in DOMAIN a : a[i].kind # "meta"}
         /\ \A i \in DOMAIN SanitizeVisible(a) : SanitizeVisible(a)[i] = a[i]
BY DEF SanitizeVisible, Only, IsAnswer

\* StripInvalid leaves every block, with the markers that are allowed.
LEMMA StripKeeps ==
  ASSUME NEW a, IsAnswer(a), NEW markers
  PROVE  /\ IsAnswer(StripInvalid(a, markers))
         /\ DOMAIN StripInvalid(a, markers) = DOMAIN a
         /\ \A i \in DOMAIN a :
              /\ StripInvalid(a, markers)[i].kind = a[i].kind
              /\ StripInvalid(a, markers)[i].cites = a[i].cites \cap markers
<1> DEFINE s == StripInvalid(a, markers)
<1>1. DOMAIN s = DOMAIN a
  BY DEF StripInvalid
<1>2. ASSUME NEW i \in DOMAIN a
      PROVE  s[i] \in Blocks /\ s[i].kind = a[i].kind /\ s[i].cites = a[i].cites \cap markers
  BY DEF StripInvalid, IsAnswer, Blocks
<1>3. QED
  BY <1>1, <1>2 DEF IsAnswer

\* DropClosers leaves the blocks it keeps as they are, and keeps those that cite.
LEMMA ClosersCiteNothing ==
  ASSUME NEW a, IsAnswer(a), NEW markers
  PROVE  /\ IsAnswer(DropClosers(a, markers))
         /\ DOMAIN DropClosers(a, markers) \subseteq DOMAIN a
         /\ \A i \in DOMAIN DropClosers(a, markers) : DropClosers(a, markers)[i] = a[i]
         /\ \A i \in DOMAIN a : a[i].cites \cap markers # {} => i \in DOMAIN DropClosers(a,
            markers)
<1> DEFINE kept == {i \in DOMAIN a : \E j \in DOMAIN a : j >= i /\ ~IsCloser(a[j], markers)}
<1>1. DropClosers(a, markers) = [i \in kept |-> a[i]]
  BY DEF DropClosers, Only
<1>2. ASSUME NEW i \in DOMAIN a, a[i].cites \cap markers # {} PROVE i \in kept
  <2>1. i >= i /\ ~IsCloser(a[i], markers)
    BY <1>2 DEF IsCloser, IsAnswer
  <2>2. QED
    BY <2>1
<1> HIDE DEF kept
<1>3. kept \subseteq DOMAIN a
  BY DEF kept
<1>4. QED
  BY <1>1, <1>2, <1>3 DEF IsAnswer

\* The local clean-up of an answer invents nothing and loses nothing.
LEMMA ContractCleans ==
  ASSUME NEW a, IsAnswer(a), NEW markers
  PROVE  Cleaned(SanitizeForContract(a, markers), a, markers)
<1> DEFINE v == SanitizeVisible(a)
           s == StripInvalid(v, markers)
           b == SanitizeForContract(a, markers)
<1>1. IsAnswer(v) /\ DOMAIN v = {i \in DOMAIN a : a[i].kind # "meta"} /\ \A i \in DOMAIN v : v[i] = a[i]
  BY VisibleKeeps
<1>2. /\ IsAnswer(s) /\ DOMAIN s = DOMAIN v
      /\ \A i \in DOMAIN v : s[i].kind = v[i].kind /\ s[i].cites = v[i].cites \cap markers
  BY <1>1, StripKeeps
<1>3. b = s \/ b = DropClosers(s, markers)
  BY DEF SanitizeForContract
<1> HIDE DEF v, s, b
<1>4. /\ IsAnswer(b) /\ DOMAIN b \subseteq DOMAIN s
      /\ \A i \in DOMAIN b : b[i] = s[i]
      /\ \A i \in DOMAIN s : s[i].cites \cap markers # {} => i \in DOMAIN b
  BY <1>2, <1>3, ClosersCiteNothing
<1>5. Cleaned(b, a, markers)
  BY <1>1, <1>2, <1>4 DEF Cleaned
<1>6. QED
  BY <1>5 DEF b

\* A publishable answer that could cite evidence does so in every sentence.
LEMMA GateMeans ==
  ASSUME NEW a, IsAnswer(a), NEW markers, PublicationGate(a, markers) = "publishable"
  PROVE  /\ DOMAIN a # {}
         /\ markers # {} => \A i \in DOMAIN a : a[i].kind \in {"claim",
            "closer"} => a[i].cites # {}
<1>1. DOMAIN a # {} /\ (IsInsufficientEvidence(a) \/ ContractPassed(a, markers))
  BY DEF PublicationGate
<1>2. CASE IsInsufficientEvidence(a)
  BY <1>1, <1>2 DEF IsInsufficientEvidence
<1>3. CASE ContractPassed(a, markers) /\ ~IsInsufficientEvidence(a)
  BY <1>1, <1>3 DEF ContractPassed, RequiresCitations, IsClaim
<1>4. QED
  BY <1>1, <1>2, <1>3

-----------------------------------------------------------------------------
(* The evidence of a prompt.                                                *)

\* The lineage of what is shown is made of C-items.
LEMMA LineageIsCitems ==
  ASSUME TypeOK, NEW i \in Items
  PROVE  Lineage(i) \in SUBSET Citems
BY DEF TypeOK, Lineage

\* What resolves rests on C-items that have a source and a span.
LEMMA ResolvedRests ==
  ASSUME TypeOK, NEW i \in Items, i # Question, Resolved(i)
  PROVE  Lineage(i) # {} /\ Lineage(i) \subseteq witnessed
<1>1. CASE i = Node
  BY <1>1 DEF Resolved, Lineage
<1>2. CASE i # Node
  BY <1>2 DEF Resolved, Lineage, Items
<1>3. QED
  BY <1>1, <1>2

\* The view is a numbered list of items without the question.
LEMMA ViewIsNumbered ==
  ASSUME TypeOK, NEW size \in 0 .. MaxView, NEW pick \in [1 .. size -> Items],
         \A m, n \in 1 .. size : pick[m] = pick[n] => m = n,
         NEW v, v = DropCurrentTurnItems(ContextView(pick))
  PROVE  /\ DOMAIN v \in {1 .. n : n \in 0 .. MaxView}
         /\ \A n \in DOMAIN v : v[n] \in [item : Items, text : Versions] /\ v[n].item # Question
<1> DEFINE w == ContextView(pick)
<1>1. /\ DOMAIN w = 1 .. size
      /\ \A n \in 1 .. size : w[n] = [item |-> pick[n], text |-> TextOf(pick[n])]
  BY DEF ContextView
<1>2. \A i : TextOf(i) \in Versions
  BY SizeAssumption DEF TextOf, TypeOK, Versions
<1>3. \A n \in 1 .. size : w[n] \in [item : Items, text : Versions] /\ w[n].item = pick[n]
  BY <1>1, <1>2
<1>4. MaxView \in Nat /\ size \in Nat /\ size <= MaxView
  BY SizeAssumption
<1>5. v = DropCurrentTurnItems(w)
  OBVIOUS
<1> HIDE DEF w
<1>6. CASE \A n \in DOMAIN w : w[n].item # Question
  <2>1. v = w
    BY <1>5, <1>6 DEF DropCurrentTurnItems
  <2>2. QED
    BY <1>1, <1>3, <1>4, <1>6, <2>1
<1>7. CASE \E n \in DOMAIN w : w[n].item = Question
  <2> DEFINE q == CHOOSE n \in DOMAIN w : w[n].item = Question
  <2>1. q \in 1 .. size /\ pick[q] = Question
    BY <1>1, <1>3, <1>7
  <2>2. v = [n \in DOMAIN w \ {Cardinality(DOMAIN w)} |-> IF n < q THEN w[n] ELSE w[n + 1]]
    BY <1>5, <1>7 DEF DropCurrentTurnItems
  <2>3. Cardinality(DOMAIN w) = size
    BY <1>1, <1>4, <2>1, FS_Interval
  <2> HIDE DEF q
  <2>4. DOMAIN v = 1 .. (size - 1) /\ size - 1 \in 0 .. MaxView
    BY <1>1, <1>4, <2>1, <2>2, <2>3
  <2>5. ASSUME NEW n \in 1 .. (size - 1)
        PROVE  v[n] \in [item : Items, text : Versions] /\ v[n].item # Question
    <3>1. PICK m \in 1 .. size : v[n] = w[m] /\ m # q
      <4>1. CASE n < q
        BY <1>1, <1>4, <2>1, <2>2, <2>3, <2>5, <4>1
      <4>2. CASE ~(n < q)
        BY <1>1, <1>4, <2>1, <2>2, <2>3, <2>5, <4>2
      <4>3. QED
        BY <4>1, <4>2
    <3>2. pick[m] # Question
      BY <2>1, <3>1
    <3>3. QED
      BY <1>3, <3>1, <3>2
  <2>6. QED
    BY <2>4, <2>5
<1>8. QED
  BY <1>6, <1>7

-----------------------------------------------------------------------------
LEMMA InitInvariant == Init => IInv
<1> SUFFICES ASSUME Init PROVE IInv
  OBVIOUS
<1>1. TypeOK
  <2>1. /\ stage \in Stages /\ gate \in Gates /\ stored \in BOOLEAN
        /\ witnessed \subseteq Citems \cup {Question}
    BY NamesAssumption DEF Init, Stages, Gates
  <2>2. summary \in [text : Versions, origins : SUBSET Citems, step : {"idle", "clear", "save"}]
    BY TextAssumption, SizeAssumption DEF Init, Versions
  <2>3. DOMAIN view = {} /\ {} = 1 .. 0 /\ 0 \in 0 .. MaxView /\ outlook \in Versions
    BY SizeAssumption DEF Init, Versions
  <2>4. IsAnswer(said) /\ IsAnswer(answer)
    BY DEF Init, Nothing, IsAnswer
  <2>5. /\ registry \subseteq Labels /\ support \subseteq Rows
        /\ wanted \in [zoom : SUBSET Labels, out : BOOLEAN]
        /\ literals \subseteq AllLabels /\ allowed \subseteq Labels
    BY DEF Init
  <2>6. QED
    BY <2>1, <2>2, <2>3, <2>4, <2>5 DEF TypeOK
<1>2. NothingYet /\ Ungated /\ ViewWithoutQuestion /\ RowsRest /\ GateIsTrue
  BY DEF Init, NothingYet, Ungated, ViewWithoutQuestion, RowsRest, GateIsTrue
<1>3. Closed /\ NothingInvented /\ NothingLost
  BY DEF Init, Closed, Cited, Nothing, NothingInvented, NothingLost
<1>4. QED
  BY <1>1, <1>2, <1>3 DEF IInv

-----------------------------------------------------------------------------
(* Steps that show evidence: the closed set is still empty.                 *)

\* What is true of an answer stays true while nothing of it changes.
LEMMA ReplyStands ==
  ASSUME IInv, UNCHANGED <<allowed, reply>>, UNCHANGED support \/ allowed = {},
         TypeOK', Ungated', NothingYet', ViewWithoutQuestion', RowsRest'
  PROVE  IInv'
<1>1. Closed'
  BY DEF IInv, Closed, Cited, reply
<1>2. NothingInvented' /\ NothingLost' /\ GateIsTrue'
  BY DEF IInv, NothingInvented, NothingLost, GateIsTrue, reply
<1>3. QED
  BY <1>1, <1>2 DEF IInv

\* A stage before the prompt that follows another such stage.
LEMMA EarlyStage ==
  ASSUME IInv, stage \in Before, stage' \in Before \cup {"generate", "failed"}, UNCHANGED reply,
         UNCHANGED allowed \/ stage' \notin Before
  PROVE  NothingYet' /\ Ungated'
BY DEF IInv, NothingYet, Ungated, Before, reply

LEMMA RegisterInvariant ==
  ASSUME IInv, RegisterQuestion
  PROVE  IInv'
<1> USE DEF IInv
<1>1. NothingYet' /\ Ungated'
  BY EarlyStage DEF RegisterQuestion, Go, Before
<1>2. TypeOK'
  BY DEF TypeOK, RegisterQuestion, Go, Stages, evidence, reply
<1>3. ViewWithoutQuestion' /\ RowsRest' /\ UNCHANGED support
  BY DEF ViewWithoutQuestion, RowsRest, Rests, RegisterQuestion, evidence
<1>4. QED
  BY <1>1, <1>2, <1>3, ReplyStands DEF RegisterQuestion

LEMMA RetrieveInvariant ==
  ASSUME IInv, Retrieve
  PROVE  IInv'
<1> USE DEF IInv
<1>1. NothingYet' /\ Ungated'
  BY EarlyStage DEF Retrieve, Go, Before
<1>2. PICK size \in 0 .. MaxView :
        \E pick \in [1 .. size -> Items] :
          /\ \A m, n \in 1 .. size : pick[m] = pick[n] => m = n
          /\ view' = DropCurrentTurnItems(ContextView(pick))
  BY DEF Retrieve, SummaryNodes, Items
<1>3. /\ DOMAIN view' \in {1 .. n : n \in 0 .. MaxView}
      /\ \A n \in DOMAIN view' : view'[n] \in [item : Items,
         text : Versions] /\ view'[n].item # Question
  BY <1>2, ViewIsNumbered
<1>4. TypeOK' /\ ViewWithoutQuestion'
  BY <1>3 DEF TypeOK, ViewWithoutQuestion, Retrieve, Go, Stages, world, reply
<1>5. RowsRest' /\ UNCHANGED support
  BY DEF RowsRest, Rests, Retrieve, world
<1>6. QED
  BY <1>1, <1>4, <1>5, ReplyStands DEF Retrieve

\* What is kept of the view resolves, so it rests on lineage.
LEMMA ResolveInvariant ==
  ASSUME IInv, ResolveContext
  PROVE  IInv'
<1> USE DEF IInv
<1>1. NothingYet' /\ Ungated' /\ allowed = {}
  BY EarlyStage DEF ResolveContext, Go, Before, NothingYet
<1>2. PICK kept \in Trims(view) :
        /\ support' = {[label |-> S(n), item |-> view[n].item, text |-> view[n].text,
                        proof |-> Lineage(view[n].item)] : n \in kept}
        /\ literals' = UNION {Escaped(view[n].item) : n \in kept}
  BY DEF ResolveContext
<1>3. \A n \in DOMAIN view :
        S(n) \in Labels /\ view[n].item \in Items /\ view[n].text \in Versions /\ view[n].item # Question
  BY SizeAssumption DEF TypeOK, ViewWithoutQuestion, Labels
<1>4. kept \subseteq DOMAIN view /\ \A n \in kept : Resolved(view[n].item)
  BY <1>2 DEF Trims, Citable
<1>5. registry' \subseteq Labels
  BY <1>3 DEF ResolveContext, Citable
<1>6. ASSUME NEW r \in support' PROVE r \in Rows /\ Rests(r)'
  <2>1. PICK n \in kept : r = [label |-> S(n), item |-> view[n].item, text |-> view[n].text,
                               proof |-> Lineage(view[n].item)]
    BY <1>2, <1>6
  <2>2. Lineage(view[n].item) \in SUBSET Citems
    BY <1>3, <1>4, LineageIsCitems
  <2>3. Lineage(view[n].item) # {} /\ Lineage(view[n].item) \subseteq witnessed
    BY <1>3, <1>4, ResolvedRests
  <2>4. r \in Rows
    BY <1>3, <1>4, <2>1, <2>2 DEF Rows
  <2>5. witnessed' = witnessed
    BY DEF ResolveContext, world
  <2>6. QED
    BY <1>3, <1>4, <2>1, <2>3, <2>4, <2>5 DEF Rests
<1>7. literals' \subseteq AllLabels
  BY <1>2, <1>3, <1>4, TextAssumption DEF Escaped
<1>8. TypeOK'
  BY <1>5, <1>6, <1>7 DEF TypeOK, ResolveContext, Go, Stages, world, reply
<1>9. ViewWithoutQuestion' /\ RowsRest'
  BY <1>6 DEF ViewWithoutQuestion, RowsRest, ResolveContext
<1>10. QED
  BY <1>1, <1>8, <1>9, ReplyStands DEF ResolveContext

LEMMA ControlInvariant ==
  ASSUME IInv, ControlPass
  PROVE  IInv'
<1> USE DEF IInv
<1>1. NothingYet' /\ Ungated'
  BY EarlyStage DEF ControlPass, Go, Before
<1>2. wanted' \in [zoom : SUBSET Labels, out : BOOLEAN]
  BY DEF ControlPass, TypeOK, Rows
<1>3. TypeOK'
  BY <1>2 DEF TypeOK, ControlPass, Go, Stages, world, reply
<1>4. ViewWithoutQuestion' /\ RowsRest' /\ UNCHANGED support
  BY DEF ViewWithoutQuestion, RowsRest, Rests, ControlPass, world
<1>5. QED
  BY <1>1, <1>3, <1>4, ReplyStands DEF ControlPass

LEMMA ZoomInvariant ==
  ASSUME IInv, Zoom
  PROVE  IInv'
<1> USE DEF IInv
<1>1. NothingYet' /\ Ungated'
  BY EarlyStage DEF Zoom, Go, Before
<1>2. literals' \subseteq AllLabels
  <2>1. PICK shown \in SUBSET support :
          literals' = literals \cup UNION {Single[r.item] \cup Escaped(r.item) : r \in shown}
    BY DEF Zoom
  <2>2. \A r \in shown : r.item \in Items
    BY DEF TypeOK, Rows
  <2>3. QED
    BY <2>1, <2>2, TextAssumption DEF Escaped, TypeOK
<1>3. TypeOK'
  BY <1>2 DEF TypeOK, Zoom, Go, Stages, world, reply
<1>4. ViewWithoutQuestion' /\ RowsRest' /\ UNCHANGED support
  BY DEF ViewWithoutQuestion, RowsRest, Rests, Zoom, world
<1>5. QED
  BY <1>1, <1>3, <1>4, ReplyStands DEF Zoom

LEMMA ZoomOutInvariant ==
  ASSUME IInv, ZoomOut
  PROVE  IInv'
<1> USE DEF IInv
<1>1. NothingYet' /\ Ungated'
  BY EarlyStage DEF ZoomOut, Before
<1>2. TypeOK'
  BY DEF TypeOK, ZoomOut, Stages, world, reply
<1>3. ViewWithoutQuestion' /\ RowsRest' /\ UNCHANGED support
  BY DEF ViewWithoutQuestion, RowsRest, Rests, ZoomOut, world
<1>4. QED
  BY <1>1, <1>2, <1>3, ReplyStands DEF ZoomOut

\* The perspective is shown when the summary resolves as it stands by then.
LEMMA PerspectiveInvariant ==
  ASSUME IInv, ZoomOutLineage
  PROVE  IInv'
<1> USE DEF IInv
<1>1. NothingYet' /\ Ungated' /\ allowed = {}
  BY EarlyStage DEF ZoomOutLineage, Go, Before, NothingYet
<1>2. ViewWithoutQuestion' /\ witnessed' = witnessed
  BY DEF ViewWithoutQuestion, ZoomOutLineage, world
<1>3. CASE Resolved(Node)
  <2> DEFINE p == [label |-> P1, item |-> Node, text |-> outlook, proof |-> Lineage(Node)]
  <2>1. Node \in Items /\ Node # Question /\ P1 \in Labels
    BY NamesAssumption DEF Items, Labels
  <2>2. p \in Rows
    BY <2>1, LineageIsCitems DEF Rows, TypeOK
  <2>3. Rests(p)
    BY <1>3, <2>1, ResolvedRests DEF Rests
  <2>4. registry' = registry \cup {P1} /\ support' = support \cup {p} /\ literals' = literals \cup Escaped(Node)
    BY <1>3 DEF ZoomOutLineage
  <2>5. Escaped(Node) \subseteq AllLabels
    BY <2>1, TextAssumption DEF Escaped
  <2>6. TypeOK'
    BY <2>1, <2>2, <2>4, <2>5 DEF TypeOK, ZoomOutLineage, Go, Stages, world, reply
  <2>7. RowsRest'
    BY <1>2, <2>3, <2>4 DEF RowsRest, Rests
  <2>8. QED
    BY <1>1, <1>2, <2>6, <2>7, ReplyStands DEF ZoomOutLineage
<1>4. CASE ~Resolved(Node)
  <2>1. TypeOK'
    BY <1>4 DEF TypeOK, ZoomOutLineage, Go, Stages, world, reply
  <2>2. RowsRest' /\ UNCHANGED support
    BY <1>2, <1>4 DEF RowsRest, Rests, ZoomOutLineage
  <2>3. QED
    BY <1>1, <1>2, <2>1, <2>2, ReplyStands DEF ZoomOutLineage
<1>5. QED
  BY <1>3, <1>4

\* The closed set is what is citable and shown by then.
LEMMA ComposeInvariant ==
  ASSUME IInv, ComposePrompt
  PROVE  IInv'
<1> USE DEF IInv
<1>1. NothingYet' /\ Ungated' /\ said = Nothing /\ answer = Nothing /\ UNCHANGED reply
  BY EarlyStage DEF ComposePrompt, Before, NothingYet
<1>2. literals' \subseteq AllLabels
  BY TextAssumption DEF ComposePrompt, TypeOK, Items
<1>3. allowed' \subseteq VisibleLabels(support)
  BY DEF ComposePrompt, AvailableMarkers
<1>4. TypeOK'
  BY <1>2, <1>3 DEF TypeOK, VisibleLabels, ComposePrompt, Stages, world, reply
<1>5. ViewWithoutQuestion' /\ RowsRest' /\ UNCHANGED support
  BY DEF ViewWithoutQuestion, RowsRest, Rests, ComposePrompt, world
<1>6. Closed'
  <2>1. Cited(answer)' = {}
    BY <1>1 DEF Cited, Nothing, reply
  <2>2. VisibleLabels(support)' = VisibleLabels(support)
    BY <1>5 DEF VisibleLabels
  <2>3. QED
    BY <1>3, <2>1, <2>2 DEF Closed
<1>7. NothingInvented' /\ NothingLost' /\ GateIsTrue'
  BY <1>1 DEF Nothing, NothingInvented, NothingLost, GateIsTrue, reply
<1>8. QED
  BY <1>1, <1>4, <1>5, <1>6, <1>7

-----------------------------------------------------------------------------
(* Steps that make the answer: the evidence stands.                         *)

\* An answer cleaned within the closed set.
LEMMA CleanedAnswer ==
  ASSUME IInv, NEW output, IsAnswer(output), said' = output,
     answer' = SanitizeForContract(output, allowed),
         UNCHANGED <<world, evidence, allowed, gate>>, stage' \in {"repair", "publish"},
            gate = "none"
  PROVE  IInv'
<1> USE DEF IInv
<1>1. Cleaned(answer', output, allowed)
  BY ContractCleans
<1>2. TypeOK'
  BY <1>1 DEF Cleaned, TypeOK, Stages, world, evidence
<1>3. NothingYet' /\ Ungated' /\ GateIsTrue'
  BY DEF NothingYet, Ungated, GateIsTrue, Before
<1>4. ViewWithoutQuestion' /\ RowsRest'
  BY DEF ViewWithoutQuestion, RowsRest, Rests, world, evidence
<1>5. Closed'
  BY <1>1 DEF Closed, Cleaned, Cited, VisibleLabels, evidence
<1>6. NothingInvented'
  BY <1>1 DEF NothingInvented, Cleaned
<1>7. NothingLost'
  BY <1>1 DEF NothingLost, Cleaned
<1>8. QED
  BY <1>2, <1>3, <1>4, <1>5, <1>6, <1>7

LEMMA GenerateInvariant ==
  ASSUME IInv, GenerateAnswer
  PROVE  IInv'
<1>1. gate = "none"
  BY DEF IInv, GenerateAnswer, Ungated
<1>2. PICK output \in Answers : said' = output /\ answer' = SanitizeForContract(output, allowed)
  BY DEF GenerateAnswer
<1>3. stage' \in {"repair", "publish"} /\ UNCHANGED <<world, evidence, allowed, gate>>
  BY DEF GenerateAnswer
<1>4. QED
  BY <1>1, <1>2, <1>3, CleanedAnswer, AnswersAssumption

\* A step by which only the stage changes, from the model's calls on.
LEMMA LateStage ==
  ASSUME IInv, stage \notin Before, stage' \in Stages \ Before, UNCHANGED <<world, evidence,
     allowed, reply>>,
         gate = "none" \/ stage' \in {"success", "failed", "apply"}
  PROVE  IInv'
<1> USE DEF IInv
<1>1. TypeOK'
  BY DEF TypeOK, world, evidence, reply
<1>2. NothingYet' /\ Ungated'
  BY DEF NothingYet, Ungated, Before, reply
<1>3. ViewWithoutQuestion' /\ RowsRest' /\ UNCHANGED support
  BY DEF ViewWithoutQuestion, RowsRest, Rests, world, evidence
<1>4. QED
  BY <1>1, <1>2, <1>3, ReplyStands

LEMMA RepairInvariant ==
  ASSUME IInv, RepairAnswer
  PROVE  IInv'
<1>1. /\ gate = "none" /\ stage = "repair"
      /\ UNCHANGED <<world, evidence, allowed, gate>>
  BY DEF IInv, RepairAnswer, Ungated
<1>2. CASE stage' \in {"publish", "failed"} /\ UNCHANGED <<said, answer>>
  BY <1>1, <1>2, LateStage DEF Before, Stages, reply
<1>3. CASE \E fix \in Answers :
             stage' = "publish" /\ said' = fix /\ answer' = SanitizeForContract(fix, allowed)
  BY <1>1, <1>3, CleanedAnswer, AnswersAssumption
<1>4. QED
  BY <1>2, <1>3 DEF RepairAnswer

LEMMA StageOnly ==
  ASSUME IInv, ModelFails \/ MemoryPass \/ ApplyMemory
  PROVE  IInv'
BY LateStage DEF ModelFails, MemoryPass, ApplyMemory, Before, Stages

LEMMA PublishInvariant ==
  ASSUME IInv, Publish
  PROVE  IInv'
<1> USE DEF IInv
<1>1. /\ stage' = "memory" /\ gate' = PublicationGate(answer, allowed)
      /\ UNCHANGED <<world, evidence, allowed, said, answer>>
  BY DEF Publish, Go
<1>2. TypeOK'
  BY <1>1 DEF TypeOK, PublicationGate, Gates, Stages, world, evidence
<1>3. NothingYet' /\ Ungated'
  BY <1>1 DEF NothingYet, Ungated, Before
<1>4. ViewWithoutQuestion' /\ RowsRest'
  BY <1>1 DEF ViewWithoutQuestion, RowsRest, Rests, world, evidence
<1>5. Closed' /\ NothingInvented' /\ NothingLost'
  BY <1>1 DEF Closed, Cited, VisibleLabels, NothingInvented, NothingLost, evidence
<1>6. GateIsTrue'
  BY <1>1, GateMeans DEF GateIsTrue, TypeOK
<1>7. QED
  BY <1>2, <1>3, <1>4, <1>5, <1>6

-----------------------------------------------------------------------------
\* The workers: evidence is only added, and a summary keeps to C-items.
LEMMA WorkerInvariant ==
  ASSUME IInv, (\E i \in Citems : SaveEvidence(i) \/ SaveOrigin(i)) \/ SaveSummaryText
     \/ ClearOrigins
  PROVE  IInv'
<1> USE DEF IInv
<1>1. UNCHANGED <<stage, stored, evidence, allowed, reply>>
  BY DEF SaveEvidence, SaveOrigin, SaveSummaryText, ClearOrigins
<1>2. witnessed' \subseteq witnessed \cup Citems /\ witnessed \subseteq witnessed'
  BY DEF SaveEvidence, SaveOrigin, SaveSummaryText, ClearOrigins
<1>3. summary' \in [text : Versions, origins : SUBSET Citems, step : {"idle", "clear", "save"}]
  <2> USE DEF TypeOK
  <2>1. ASSUME NEW i \in Citems, SaveEvidence(i) \/ SaveOrigin(i)
        PROVE  summary' \in [text : Versions, origins : SUBSET Citems, step : {"idle", "clear",
           "save"}]
    <3>1. CASE SaveEvidence(i)
      BY <3>1 DEF SaveEvidence
    <3>2. CASE SaveOrigin(i)
      <4> DEFINE origins == summary.origins \cup {i}
      <4>1. origins \in SUBSET Citems
        OBVIOUS
      <4>2. \E step \in {"idle", "save"} :
              summary' = [summary EXCEPT !.origins = origins, !.step = step]
        BY <3>2 DEF SaveOrigin
      <4>3. QED
        BY <4>1, <4>2
    <3>3. QED
      BY <2>1, <3>1, <3>2
  <2>2. CASE SaveSummaryText
    <3>1. summary.text + 1 \in Versions
      BY <2>2, SizeAssumption DEF SaveSummaryText, Versions
    <3>2. summary' = [summary EXCEPT !.text = summary.text + 1, !.step = "clear"]
      BY <2>2 DEF SaveSummaryText
    <3>3. QED
      BY <3>1, <3>2
  <2>3. CASE ClearOrigins
    BY <2>3 DEF ClearOrigins
  <2>4. QED
    BY <2>1, <2>2, <2>3
<1>4. TypeOK'
  BY <1>1, <1>2, <1>3 DEF TypeOK, evidence, reply
<1>5. NothingYet' /\ Ungated' /\ ViewWithoutQuestion'
  BY <1>1 DEF NothingYet, Ungated, ViewWithoutQuestion, evidence, reply
<1>6. RowsRest' /\ UNCHANGED support
  BY <1>1, <1>2 DEF RowsRest, Rests, evidence
<1>7. QED
  BY <1>1, <1>4, <1>5, <1>6, ReplyStands

(***************************************************************************)
(* The invariant is inductive: every stage of the turn preserves it, and   *)
(* every step of the workers beside it.                                    *)
(***************************************************************************)
THEOREM Inductive == Spec => []IInv
<1>1. IInv /\ [Next]_vars => IInv'
  <2> SUFFICES ASSUME IInv, [Next]_vars PROVE IInv'
    OBVIOUS
  <2>1. CASE UNCHANGED vars
    <3>1. UNCHANGED <<stage, world, evidence, allowed, reply>>
      BY <2>1 DEF vars
    <3>2. TypeOK' /\ NothingYet' /\ Ungated'
      BY <3>1 DEF IInv, TypeOK, NothingYet, Ungated, world, evidence, reply
    <3>3. ViewWithoutQuestion' /\ RowsRest' /\ UNCHANGED support
      BY <3>1 DEF IInv, ViewWithoutQuestion, RowsRest, Rests, world, evidence
    <3>4. QED
      BY <3>1, <3>2, <3>3, ReplyStands
  <2>2. CASE TurnStep
    BY <2>2, RegisterInvariant, RetrieveInvariant, ResolveInvariant, ControlInvariant,
       ZoomInvariant,
       ZoomOutInvariant, PerspectiveInvariant, ComposeInvariant, GenerateInvariant,
          RepairInvariant,
       StageOnly, PublishInvariant DEF TurnStep
  <2>3. CASE (\E i \in Citems : SaveEvidence(i) \/ SaveOrigin(i)) \/ SaveSummaryText
     \/ ClearOrigins
    BY <2>3, WorkerInvariant
  <2>4. QED
    BY <2>1, <2>2, <2>3 DEF Next
<1>2. QED
  BY <1>1, InitInvariant, PTL DEF Spec

(***************************************************************************)
(* Every marker of a streamed answer shows exactly one item of the prompt, *)
(* which is not the question and whose C-items have a source and a span,   *)
(* whatever the summary worker does while the turn reads                   *)
(* (evidence_marker_registry, _available_markers, c3_sanitize).            *)
(***************************************************************************)
THEOREM Citations == Spec => []CitationsStand
<1>1. IInv => CitationsStand
  <2> SUFFICES ASSUME IInv, NEW m \in Cited(answer)
               PROVE  \E i \in Items \ {Question} :
                        /\ \E r \in support : r.label = m /\ r.item = i
                        /\ \A r \in support : r.label = m =>
                             r.item = i /\ r.proof # {} /\ r.proof \subseteq witnessed
    BY DEF IInv, CitationsStand
  <2>1. m \in VisibleLabels(support)
    BY DEF IInv, Closed
  <2>2. PICK s \in support : s.label = m
    BY <2>1 DEF VisibleLabels
  <2>3. s.item \in Items \ {Question}
    BY DEF IInv, TypeOK, Rows, RowsRest, Rests
  <2>4. \A r \in support : r.label = m => r.item = s.item /\ Rests(r)
    BY <2>1, <2>2 DEF VisibleLabels, IInv, RowsRest
  <2>5. QED
    BY <2>2, <2>3, <2>4 DEF Rests
<1>2. QED
  BY <1>1, Inductive, PTL

(***************************************************************************)
(* What the gate calls publishable is not empty, and while evidence can be *)
(* cited it cites some for every block that the contract takes for a claim *)
(* (_validate_citation_contract, build_publication_gate); a short line is  *)
(* none to it, whatever it states.                                         *)
(***************************************************************************)
THEOREM Gate == Spec => []GateIsTrue
<1>1. IInv => GateIsTrue
  BY DEF IInv
<1>2. QED
  BY <1>1, Inductive, PTL

(***************************************************************************)
(* The streamed answer is what the model said, of the answer or of its     *)
(* repair, with blocks and markers left out, and none left out that could  *)
(* be kept (c3_sanitize, _answer_pass).                                    *)
(***************************************************************************)
THEOREM CleanedOnly == Spec => []OnlyCleaned
<1>1. IInv => OnlyCleaned
  BY DEF IInv, OnlyCleaned
<1>2. QED
  BY <1>1, Inductive, PTL

=============================================================================
