------------------------------- MODULE AnswerTurn -------------------------------
(***************************************************************************)
(* One turn of DemoTurnController: what of the memory becomes evidence,    *)
(* under which marker, and what of the model's answer is published.        *)
(*                                                                         *)
(* A marker such as S2 or P1 is <<"S", 2>> or <<"P", 1>>.  An answer is a  *)
(* function from the places of its blocks to blocks: a block that is       *)
(* removed leaves its place empty, so that what was published can be laid  *)
(* beside what the model said.  A block has a kind and the markers it      *)
(* cites.  A summary worker rebuilds the one summary of the conversation   *)
(* while the turn reads it.                                                *)
(***************************************************************************)
EXTENDS Integers, FiniteSets

CONSTANTS Citems,        \* C-items stored before the turn
          Question,      \* the C-item the user's message becomes
          Node,          \* the summary node of the conversation
          Evidenced,     \* C-items that have a source and a span already
          Single,        \* item -> labels its text has in brackets, one by one
          Grouped,       \* item -> labels its text has in one bracket, [S1, S2]
          Effective,     \* version of the summary -> the C-items it was made from
          Answers,       \* what the language model may answer
          MaxView,       \* how many items retrieval selects
          MaxBuilds      \* how often the summary is built

Items == Citems \cup {Question, Node}
Versions == 0 .. MaxBuilds
S(n) == <<"S", n>>
P1 == <<"P", 1>>
Labels == {S(n) : n \in 1 .. MaxView} \cup {P1}
AllLabels == {"S", "E", "P"} \X Nat

\* claim: a statement in a sentence of its own.  short: a line that is taken for
\* a heading, being under 24 characters, or under 140 without a full stop; it may
\* be as factual as a claim.  frame: "The document covers ...".  closer:
\* "Overall, ...".  meta: "Note: ...".  abstain: "NOT ENOUGH INFO".
Kinds == {"claim", "short", "frame", "closer", "meta", "abstain"}
Blocks == [kind : Kinds, cites : SUBSET AllLabels]
IsAnswer(a) == DOMAIN a \subseteq Nat /\ \A i \in DOMAIN a : a[i] \in Blocks
Nothing == [i \in {} |-> {}]

ASSUME NamesAssumption ==
  /\ Question \notin Citems /\ Node \notin Citems /\ Node # Question
  /\ Evidenced \subseteq Citems
ASSUME TextAssumption ==
  /\ Single \in [Items -> SUBSET AllLabels]
  /\ Grouped \in [Items -> SUBSET AllLabels]
  /\ Effective \in [1 .. MaxBuilds -> SUBSET Citems]
ASSUME SizeAssumption == MaxView \in Nat /\ MaxBuilds \in Nat
ASSUME AnswersAssumption == \A a \in Answers : IsAnswer(a)

VARIABLES
  stage,      \* where run_turn stands
  witnessed,  \* items with a source and a span in the lineage tables
  stored,     \* whether the user's message has become a C-item
  summary,    \* the summary's row: version of its text, its origins, the worker's step
  view,       \* selected items in marker order, with the text that was read
  registry,   \* labels the evidence registry calls citable
  support,    \* rows of visible support: which label shows which item
  wanted,     \* what the control pass asked for
  outlook,    \* version of the summary text that zoom_out has read, 0 for none
  literals,   \* bracketed labels that item texts or the user brought into the prompt
  allowed,    \* the closed set of the citation constraint
  said,       \* the model output the answer was made from
  answer,     \* the answer as it stands
  gate        \* the recorded publication decision

world == <<witnessed, stored, summary>>
evidence == <<view, registry, support, wanted, outlook, literals>>
reply == <<said, answer, gate>>
vars == <<stage, world, evidence, allowed, reply>>

Stages == {"new", "retrieve", "resolve", "control", "zoom", "perspective",
           "lineage", "compose", "generate", "repair", "publish", "memory",
           "apply", "success", "failed"}
Gates == {"none", "publishable", "blocked"}
Rows == [label : Labels, item : Items, text : Versions, proof : SUBSET Citems]

-----------------------------------------------------------------------------
(* Evidence *)

\* The text an item shows: a summary has versions, a C-item keeps its own.
TextOf(i) == IF i = Node THEN summary.text ELSE 0

\* The summary nodes of the tables, newest text first; none before the first.
SummaryNodes == IF summary.text > 0 THEN {Node} ELSE {}

\* What the lineage resolver finds beneath an item: a summary's origins, or
\* the item itself.
Lineage(i) == IF i = Node THEN summary.origins ELSE {i} \cap Citems

\* marker_resolution_status: a C-item needs a source and a span, a summary
\* needs them for each of its origins, of which there must be one.
Resolved(i) ==
  IF i = Node THEN summary.origins # {} /\ summary.origins \subseteq witnessed
              ELSE i \in witnessed

\* context_pack_to_view: the selected items in marker order, with their text.
ContextView(pick) ==
  [n \in DOMAIN pick |-> [item |-> pick[n], text |-> TextOf(pick[n])]]

\* What is left of a text's bracketed labels once it is escaped: a label in
\* brackets of its own is, a group such as [S1, S2] is not.
Escaped(i) == Grouped[i]

\* Places the registry calls citable; what stands elsewhere leaves the prompt.
Citable(v) == {n \in DOMAIN v : Resolved(v[n].item)}

\* _trim_marker_items_to_budget: as texts are long or short, any of them fit;
\* one that is cut short keeps its marker.
Trims(v) == SUBSET Citable(v)

\* The turn's own question is taken out and what follows it moves up a marker.
DropCurrentTurnItems(v) ==
  IF \E n \in DOMAIN v : v[n].item = Question
    THEN LET q == CHOOSE n \in DOMAIN v : v[n].item = Question
         IN  [n \in DOMAIN v \ {Cardinality(DOMAIN v)} |->
                IF n < q THEN v[n] ELSE v[n + 1]]
    ELSE v

\* A label is visible when all rows that show it show one item.
VisibleLabels(rows) ==
  {l \in Labels : /\ \E r \in rows : r.label = l
                  /\ \A r, t \in rows : r.label = l /\ t.label = l => r.item = t.item}

AvailableMarkers == registry \cap VisibleLabels(support)

\* The prompt may name no label outside the closed set, if that is not empty.
PromptLint(markers, texts) == markers = {} \/ texts \subseteq markers

-----------------------------------------------------------------------------
(* Answers *)

Cited(a) == UNION {a[i].cites : i \in DOMAIN a}
Only(a, places) == [i \in places |-> a[i]]

SanitizeVisible(a) == Only(a, {i \in DOMAIN a : a[i].kind # "meta"})

\* Mutant: an invalid citation is replaced by one that is allowed.
StripBySubstitute(a, markers) ==
  [i \in DOMAIN a |-> [a[i] EXCEPT !.cites = IF @ \subseteq markers THEN @ ELSE markers]]

StripInvalid(a, markers) ==
  [i \in DOMAIN a |-> [a[i] EXCEPT !.cites = @ \cap markers]]

IsInsufficientEvidence(a) ==
  DOMAIN a # {} /\ \A i \in DOMAIN a : a[i].kind = "abstain"

RequiresCitations(a, markers) == markers # {} /\ ~IsInsufficientEvidence(a)

\* What the contract takes for a claim.  Short lines, framing and abstentions
\* count as claims once they cite something.
IsClaim(b) == b.kind \in {"claim", "closer"} \/ (b.kind # "meta" /\ b.cites # {})

\* Mutant: one valid marker is enough for the whole answer.
ContractPassedByOne(a, markers) ==
  \/ ~RequiresCitations(a, markers)
  \/ Cited(a) \cap markers # {} /\ Cited(a) \subseteq markers

ContractPassed(a, markers) ==
  \/ ~RequiresCitations(a, markers)
  \/ /\ Cited(a) \cap markers # {}
     /\ Cited(a) \subseteq markers
     /\ \A i \in DOMAIN a : IsClaim(a[i]) => a[i].cites \cap markers # {}

\* Framing such as "The meeting ..." is a closer too when it ends the answer.
IsCloser(b, markers) == b.kind \in {"closer", "frame", "meta"} /\ b.cites \cap markers = {}

DropClosers(a, markers) ==
  Only(a, {i \in DOMAIN a : \E j \in DOMAIN a : j >= i /\ ~IsCloser(a[j], markers)})

\* Mutant: invalid markers are left for the repair to mend.
SanitizeLate(a, markers) ==
  LET s == SanitizeVisible(a)
  IN  IF RequiresCitations(s, markers) /\ Cited(s) # {} THEN DropClosers(s, markers) ELSE s

\* The local clean-up before a second model call is spent.
SanitizeForContract(a, markers) ==
  LET s == StripInvalid(SanitizeVisible(a), markers)
  IN  IF RequiresCitations(s, markers) /\ Cited(s) # {} THEN DropClosers(s, markers) ELSE s

ShouldRepair(a, markers) == RequiresCitations(a, markers) /\ ~ContractPassed(a, markers)

\* A pure abstention is traceable: its context snapshot has an identifier.
PublicationGate(a, markers) ==
  IF DOMAIN a # {} /\ (IsInsufficientEvidence(a) \/ ContractPassed(a, markers))
    THEN "publishable" ELSE "blocked"

-----------------------------------------------------------------------------
Init ==
  /\ stage = "new"
  /\ witnessed = Evidenced
  /\ stored = FALSE
  /\ \E v \in {0, 1} \cap Versions :
       summary = [text |-> v, origins |-> IF v = 0 THEN {} ELSE Effective[v], step |-> "idle"]
  /\ view = [n \in {} |-> {}] /\ registry = {} /\ support = {}
  /\ wanted = [zoom |-> {}, out |-> FALSE] /\ outlook = 0 /\ literals = {}
  /\ allowed = {} /\ said = Nothing /\ answer = Nothing /\ gate = "none"

Go(from, to) == stage = from /\ stage' = to

\* The user's message is registered as a source and ingested as a C-item;
\* each of the two may fail without stopping the turn.
RegisterQuestion ==
  /\ Go("new", "retrieve")
  /\ stored' \in BOOLEAN
  /\ witnessed' \in {witnessed, witnessed \cup {Question}}
  /\ UNCHANGED <<summary, evidence, allowed, reply>>

\* Retrieval and the summaries: the text of each item is read here.
Retrieve ==
  /\ Go("retrieve", "resolve")
  /\ \E size \in 0 .. MaxView :
       \E pick \in [1 .. size -> Citems \cup (IF stored THEN {Question} ELSE {}) \cup SummaryNodes] :
         /\ \A m, n \in 1 .. size : pick[m] = pick[n] => m = n
         /\ view' = DropCurrentTurnItems(ContextView(pick))
  /\ UNCHANGED <<world, registry, support, wanted, outlook, literals, allowed, reply>>

\* Lineage is resolved, items without it leave the prompt, the budget trims
\* the rest; what is kept keeps its marker.
ResolveContext ==
  /\ Go("resolve", "control")
  /\ registry' = {S(n) : n \in Citable(view)}
  /\ \E kept \in Trims(view) :
       /\ support' = {[label |-> S(n), item |-> view[n].item, text |-> view[n].text,
                       proof |-> Lineage(view[n].item)] : n \in kept}
       /\ literals' = UNION {Escaped(view[n].item) : n \in kept}
  /\ UNCHANGED <<world, view, wanted, outlook, allowed, reply>>

\* The control pass asks for a closer or a wider look at shown markers.  A
\* call that fails asks for nothing.
ControlPass ==
  /\ Go("control", "zoom")
  /\ \E markers \in SUBSET {r.label : r \in support}, out \in BOOLEAN :
       /\ Cardinality(markers) <= 3
       /\ wanted' = [zoom |-> markers, out |-> out]
  /\ UNCHANGED <<world, view, registry, support, outlook, literals, allowed, reply>>

\* Each target's lineage is looked up again; the budget cuts all but the first.
\* The header of a zoomed item is its text as it stands, escaped in nothing.
Zoom ==
  LET targets == {r \in support : r.label \in wanted.zoom /\ Resolved(r.item)}
  IN  /\ Go("zoom", "perspective")
      /\ \E last \in 0 .. MaxView :
           LET shown == {r \in targets : r.label[2] <= last}
           IN  /\ targets # {} => shown # {}
               /\ literals' = literals \cup UNION {Single[r.item] \cup Escaped(r.item) : r \in shown}
      /\ UNCHANGED <<world, view, registry, support, wanted, outlook, allowed, reply>>

\* zoom_out reads the summary's text, if the control pass asked and there is one.
ZoomOut ==
  /\ stage = "perspective"
  /\ IF wanted.out /\ SummaryNodes # {}
       THEN stage' = "lineage" /\ outlook' = summary.text
       ELSE stage' = "compose" /\ UNCHANGED outlook
  /\ UNCHANGED <<world, view, registry, support, wanted, literals, allowed, reply>>

\* ... and then its lineage.  With it the perspective is evidence, without it
\* background whose bracketed labels are removed.
ZoomOutLineage ==
  /\ Go("lineage", "compose")
  /\ IF Resolved(Node)
       THEN /\ registry' = registry \cup {P1}
            /\ support' = support \cup {[label |-> P1, item |-> Node, text |-> outlook,
                                         proof |-> Lineage(Node)]}
            /\ literals' = literals \cup Escaped(Node)
       ELSE UNCHANGED <<registry, support, literals>>
  /\ UNCHANGED <<world, view, wanted, outlook, allowed, reply>>

\* The prompt is rendered with the closed marker set and the user's words,
\* and linted; a prompt that fails ends the turn.
ComposePrompt ==
  /\ stage = "compose"
  /\ allowed' = AvailableMarkers
  /\ literals' = literals \cup Single[Question] \cup Grouped[Question]
  /\ stage' = IF PromptLint(allowed', literals') THEN "generate" ELSE "failed"
  /\ UNCHANGED <<world, view, registry, support, wanted, outlook, reply>>

\* The model's answer, from the stream or from the call that replaces it, is
\* cleaned and checked.
GenerateAnswer ==
  /\ stage = "generate"
  /\ said' \in Answers
  /\ answer' = SanitizeForContract(said', allowed)
  /\ stage' = IF ShouldRepair(answer', allowed) THEN "repair" ELSE "publish"
  /\ UNCHANGED <<world, evidence, allowed, gate>>

\* One repair.  Its prompt quotes the answer it is to mend; a repair that is
\* empty after clean-up leaves that answer in place.
RepairAnswer ==
  /\ stage = "repair"
  /\ IF PromptLint(allowed, literals \cup Cited(answer))
       THEN \E fix \in Answers :
              /\ stage' = "publish"
              /\ IF SanitizeVisible(fix) = Nothing
                   THEN UNCHANGED <<said, answer>>
                   ELSE said' = fix /\ answer' = SanitizeForContract(fix, allowed)
       ELSE stage' = "failed" /\ UNCHANGED <<said, answer>>
  /\ UNCHANGED <<world, evidence, allowed, gate>>

\* Neither the first call nor the repair is retried.
ModelFails ==
  /\ stage \in {"generate", "repair"}
  /\ stage' = "failed"
  /\ UNCHANGED <<world, evidence, allowed, reply>>

\* Mutant: a blocked answer is held back and nothing follows.
PublishIfPublishable ==
  /\ Go("publish", "memory")
  /\ PublicationGate(answer, allowed) = "publishable" /\ gate' = "publishable"
  /\ UNCHANGED <<world, evidence, allowed, said, answer>>

\* The answer goes to the stream whatever the gate says, which is recorded.
Publish ==
  /\ Go("publish", "memory")
  /\ gate' = PublicationGate(answer, allowed)
  /\ UNCHANGED <<world, evidence, allowed, said, answer>>

\* The memory pass draws conclusions from the answer; if the call fails, none.
MemoryPass ==
  /\ stage = "memory"
  /\ stage' \in {"apply", "success"}
  /\ UNCHANGED <<world, evidence, allowed, reply>>

\* Conclusions are ingested, be the answer blocked or not; storing may raise.
ApplyMemory ==
  /\ stage = "apply"
  /\ stage' \in {"success", "failed"}
  /\ UNCHANGED <<world, evidence, allowed, reply>>

-----------------------------------------------------------------------------
(* The workers beside the turn.  Nothing they do is seen once the prompt is
   composed, and they stand still from there on to bound the model. *)

Reading == stage \in {"new", "retrieve", "resolve", "control", "zoom", "perspective", "lineage"}

\* A C-item gets its evidence rows.
SaveEvidence(i) ==
  /\ Reading /\ i \notin witnessed
  /\ witnessed' = witnessed \cup {i}
  /\ UNCHANGED <<stage, stored, summary, evidence, allowed, reply>>

\* The summary worker writes the text, clears the origins and adds the new ones.
SaveSummaryText ==
  /\ Reading /\ summary.step = "idle" /\ summary.text < MaxBuilds
  /\ summary' = [summary EXCEPT !.text = @ + 1, !.step = "clear"]
  /\ UNCHANGED <<stage, witnessed, stored, evidence, allowed, reply>>

ClearOrigins ==
  /\ Reading /\ summary.step = "clear"
  /\ summary' = [summary EXCEPT !.origins = {}, !.step = "save"]
  /\ UNCHANGED <<stage, witnessed, stored, evidence, allowed, reply>>

SaveOrigin(i) ==
  /\ Reading /\ summary.step = "save" /\ i \in Effective[summary.text] \ summary.origins
  /\ LET origins == summary.origins \cup {i}
     IN  summary' = [summary EXCEPT !.origins = origins,
                       !.step = IF origins = Effective[summary.text] THEN "idle" ELSE "save"]
  /\ UNCHANGED <<stage, witnessed, stored, evidence, allowed, reply>>

TurnStep ==
  \/ RegisterQuestion \/ Retrieve \/ ResolveContext \/ ControlPass \/ Zoom
  \/ ZoomOut \/ ZoomOutLineage \/ ComposePrompt \/ GenerateAnswer \/ RepairAnswer
  \/ ModelFails \/ Publish \/ MemoryPass \/ ApplyMemory

Next ==
  \/ TurnStep
  \/ \E i \in Citems : SaveEvidence(i) \/ SaveOrigin(i)
  \/ SaveSummaryText \/ ClearOrigins

Spec == Init /\ [][Next]_vars /\ WF_vars(TurnStep)

-----------------------------------------------------------------------------
(* Properties *)

Shown == gate # "none"

TypeOK ==
  /\ stage \in Stages /\ gate \in Gates /\ stored \in BOOLEAN
  /\ witnessed \subseteq Citems \cup {Question}
  /\ summary \in [text : Versions, origins : SUBSET Citems, step : {"idle", "clear", "save"}]
  /\ DOMAIN view \in {1 .. n : n \in 0 .. MaxView}
  /\ \A n \in DOMAIN view : view[n] \in [item : Items, text : Versions]
  /\ registry \subseteq Labels /\ support \subseteq Rows /\ outlook \in Versions
  /\ wanted \in [zoom : SUBSET Labels, out : BOOLEAN]
  /\ literals \subseteq AllLabels /\ allowed \subseteq Labels
  /\ IsAnswer(said) /\ IsAnswer(answer)

\* Every marker of the streamed answer shows exactly one item of the prompt;
\* that item is not the question itself and each C-item it rests on has a
\* source and a span; labels, registry and support stay within what they are
\* about all the while (evidence_marker_registry, _available_markers,
\* c3_sanitize).
CitationsStand ==
  /\ TypeOK
  /\ Shown => \A m \in Cited(answer) :
       \E i \in Items \ {Question} :
         /\ \E r \in support : r.label = m /\ r.item = i
         /\ \A r \in support : r.label = m =>
              r.item = i /\ r.proof # {} /\ r.proof \subseteq witnessed

\* What the gate calls publishable is never empty and, while evidence could be
\* cited, cites some for every sentence it states (_validate_citation_contract,
\* build_publication_gate).  Of short lines it says nothing: the contract lets
\* them pass uncited, though the prompt asks a marker of every factual bullet and
\* c3_sanitize of every block from 20 characters on.
GateIsTrue ==
  gate = "publishable" =>
    /\ DOMAIN answer # {}
    /\ allowed # {} => \A i \in DOMAIN answer :
                          answer[i].kind \in {"claim", "closer"} => answer[i].cites # {}

\* No clean-up adds a marker, moves a block or changes its text.
NothingInvented ==
  /\ DOMAIN answer \subseteq DOMAIN said
  /\ \A i \in DOMAIN answer : /\ answer[i].kind = said[i].kind
                              /\ answer[i].cites \subseteq said[i].cites

\* A block that cites evidence stays, with every citation that stands, unless it
\* is a note about the answer itself.
NothingLost ==
  \A i \in DOMAIN said :
    said[i].kind # "meta" /\ said[i].cites \cap allowed # {} =>
      i \in DOMAIN answer /\ answer[i].cites = said[i].cites \cap allowed

\* The streamed answer is what the model said with blocks and markers left out,
\* and none left out that could be kept (invariants C to E of c3_sanitize, over
\* all passes of _answer_pass).
OnlyCleaned == Shown => NothingInvented /\ NothingLost

\* Every turn ends: whichever calls fail, it has succeeded or failed at last.
TurnEnds == <>(stage \in {"success", "failed"})
=============================================================================
