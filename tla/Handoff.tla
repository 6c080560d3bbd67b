------------------------------- MODULE Handoff -------------------------------
(***************************************************************************)
(* A capsule of what one turn saw, taken out of a conversation and written *)
(* into another one (demo/handoff/service.py).  A world is a function from *)
(* the tables to sets of rows; a restore is a sequence of transactions, of *)
(* which a prefix is carried out: all of them, those before the one the    *)
(* database refuses, or those before a crash.  An identifier is a pair of  *)
(* the restore that drew it and a name, so those of two restores differ.   *)
(* Texts stand for all the columns that are copied as they are.            *)
(***************************************************************************)
EXTENDS Naturals, Sequences, FiniteSets
LOCAL INSTANCE SequencesExt
LOCAL INSTANCE Functions
LOCAL INSTANCE TLC

None == <<>>
Fresh(n, id) == <<n, id[2]>>
Ids(rows) == {r.id : r \in rows}
The(rows, id) == CHOOSE r \in rows : r.id = id
IdsOf(seq) == Ids(Range(seq))
OfConv(rows, conv) == Ids({r \in rows : r.conv = conv})
Each(Op(_), seq) == FlattenSeq([i \in DOMAIN seq |-> Op(seq[i])])

-----------------------------------------------------------------------------
(* The tables *)

\* The rows a row refers to by a foreign key.  Plans, legacy summary nodes
\* and points of the vector store have none.
Parents(table, r) ==
  CASE table \in {"conversations", "plans", "nodes", "points", "gsummaries"} -> {}
    [] table = "spans" -> {<<"conversations", r.conv>>, <<"sources", r.source>>}
    [] table = "evidence" ->
         {<<"locals", r.item>>} \cup {<<"sources", i>> : i \in {r.source} \ {None}}
    [] table = "gevidence" -> {<<"globals", r.item>>}
    [] table = "globals" -> {<<"locals", r.origin>>}
    [] table = "origins" -> {<<"summaries", r.summary>>}
    [] table = "gorigins" -> {<<"gsummaries", r.summary>>}
    [] table = "validations" -> {<<"manifests", r.id>>}
    [] table = "restores" -> {<<"manifests", r.handoff>>, <<"conversations", r.conv>>}
    [] OTHER -> {<<"conversations", r.conv>>}

Accepts(w, table, r) == \A p \in Parents(table, r) : p[2] \in Ids(w[p[1]])

\* A plan that exists stays where it is and takes over the status only.
PlanRow(w, r) ==
  IF r.id \in Ids(w.plans) THEN [The(w.plans, r.id) EXCEPT !.status = r.status] ELSE r

\* Rows are upserted by their key.
Put(w, table, r) ==
  LET row == IF table = "plans" THEN PlanRow(w, r) ELSE r
  IN  [w EXCEPT ![table] = {o \in @ : o.id # r.id} \cup {row}]

Write(table, r) == <<[table |-> table, row |-> r]>>

\* All of a transaction or nothing of it.
Commit(acc, transaction) ==
  LET after == FoldLeft(LAMBDA a, x : IF a.up /\ Accepts(a.world, x.table, x.row)
                                       THEN [a EXCEPT !.world = Put(@, x.table, x.row)]
                                       ELSE [a EXCEPT !.up = FALSE], acc, transaction)
  IN  IF after.up THEN after ELSE [acc EXCEPT !.up = FALSE]

Perform(w, transactions) ==
  FoldLeft(Commit, [world |-> w, up |-> TRUE], transactions)

-----------------------------------------------------------------------------
(* Export *)

\* _local_citem_record_to_dict, _global_citem_record_to_dict, _citem_to_dict
LocalItem(r) == [id |-> r.id, scope |-> "episodic", promo |-> None, deps |-> {}, text |-> r.text]
GlobalItem(r) == [id |-> r.id, scope |-> "global", promo |-> r.origin, deps |-> {}, text |-> r.text]
PointItem(p) == [id |-> p.id, scope |-> p.scope, promo |-> None, deps |-> p.deps, text |-> p.text]

\* A row of the conversation itself, else a global row, else a point of
\* whatever conversation, else nothing.
BundledItem(w, conv, id) ==
  IF id \in OfConv(w.locals, conv) THEN <<LocalItem(The(w.locals, id))>>
  ELSE IF id \in Ids(w.globals) THEN <<GlobalItem(The(w.globals, id))>>
  ELSE IF id \in Ids(w.points) THEN <<PointItem(The(w.points, id))>>
  ELSE <<>>

Edge(kind, from, to, toId, ordinal) ==
  [kind |-> kind, from |-> from, to |-> to, toId |-> toId, ordinal |-> ordinal]

EvidenceEdges(e) ==
  (IF e.source = None THEN <<>> ELSE <<Edge("citem", e.item, "source", e.source, e.ordinal)>>)
    \o IF e.span = None THEN <<>> ELSE <<Edge("citem", e.item, "span", e.span, e.ordinal)>>

OriginEdges(o) ==
  <<Edge("summary", o.summary, IF o.kind = "citem" THEN "citem" ELSE "summary", o.origin, 0)>>

InOrder(rows, Key(_)) == SetToSortSeq(rows, LAMBDA a, b : Key(a) < Key(b))

\* An empty list of ids is no condition at all (load_demo_lineage_edges).
StoredEdges(w, conv, kind, ids) ==
  LET rows == {r \in w.edges : r.conv = conv /\ r.kind = kind /\ (ids # {} => r.from \in ids)}
  IN  Each(LAMBDA r : <<Edge(r.kind, r.from, r.to, r.toId, r.ordinal)>>,
           InOrder(rows, LAMBDA r : r.at))

\* list_local_citem_evidence and list_global_citem_evidence
LocalEvidence(w, id) == {e \in w.evidence : e.item = id}
GlobalEvidence(w, id) == {e \in w.gevidence : e.item = id}

CitemLineage(w, conv, refs) ==
  LET rowsOf(id) == IF id \in OfConv(w.locals, conv) THEN LocalEvidence(w, id) ELSE GlobalEvidence(w, id)
      known == OfConv(w.locals, conv) \cup Ids(w.globals)
      missing == Range(refs) \ known
  IN  Each(LAMBDA id : Each(EvidenceEdges, InOrder(rowsOf(id), LAMBDA e : e.ordinal)),
           SelectSeq(refs, LAMBDA id : id \in known))
        \o IF missing = {} THEN <<>>
           ELSE StoredEdges(w, conv, "citem", missing \cap Ids(w.points))

\* list_local_summary_origins and list_global_summary_origins
LocalOrigins(w, id) == {o \in w.origins : o.summary = id}
GlobalOrigins(w, id) == {o \in w.gorigins : o.summary = id}

\* load_demo_summary_resolutions
Resolved(w, conv, id) == UNION {r.origins : r \in {x \in w.resolutions : x.id = id /\ x.conv = conv}}

\* list_global_summary_records, then the two _summary_record_to_dict
GlobalSummaries(w, id) == {r \in w.gsummaries : r.id = id}
RecordSummary(r, scope, rows) ==
  [id |-> r.id, scope |-> scope, origins |-> {o.origin : o \in rows}, text |-> r.text]

\* _summary_to_dict: the origins of a resolution, if it has any, count.
NodeSummary(w, r) ==
  LET resolved == Resolved(w, r.conv, r.id)
  IN  [id |-> r.id, scope |-> "local", text |-> r.text,
       origins |-> IF resolved = {} THEN r.origins ELSE resolved]

\* load_summaries: the nodes of old are found only in a conversation that has
\* no summaries of its own and none of what was promoted from it.
HasSummaries(w, conv) ==
  \/ OfConv(w.summaries, conv) # {}
  \/ \E o \in w.gorigins : o.kind = "citem" /\ o.origin \in OfConv(w.globals, conv)
LegacyNodes(w, conv) == IF HasSummaries(w, conv) THEN {} ELSE {r \in w.nodes : r.conv = conv}

BundledSummary(w, conv, id) ==
  IF GlobalSummaries(w, id) # {}
    THEN <<RecordSummary(The(w.gsummaries, id), "global", GlobalOrigins(w, id))>>
  ELSE IF id \in OfConv(w.summaries, conv)
    THEN <<RecordSummary(The(w.summaries, id), "local", LocalOrigins(w, id))>>
  ELSE IF id \in Ids(LegacyNodes(w, conv)) THEN <<NodeSummary(w, The(w.nodes, id))>>
  ELSE <<>>

SummaryLineage(w, conv, refs) ==
  LET rowsOf(id) == IF GlobalSummaries(w, id) # {} THEN GlobalOrigins(w, id) ELSE LocalOrigins(w, id)
      known == Ids(w.gsummaries) \cup OfConv(w.summaries, conv)
      legacy == Range(refs) \ known
  IN  Each(LAMBDA id : Each(OriginEdges, SetToSeq(rowsOf(id))),
           SelectSeq(refs, LAMBDA id : id \in known))
        \o IF legacy = {} THEN <<>>
           ELSE StoredEdges(w, conv, "summary", legacy \cap Ids(LegacyNodes(w, conv)))

\* The first of the edges between two ends; the ordinal does not tell edges
\* apart.
Dedupe(edges) ==
  FoldLeft(LAMBDA acc, e :
             IF \E f \in Range(acc) : <<f.from, f.to, f.toId>> = <<e.from, e.to, e.toId>>
               THEN acc ELSE Append(acc, e), <<>>, edges)

Checksum(m) == <<m.refs, m.srefs, m.items, m.summaries, m.sources, m.spans, m.lineage, m.task>>

\* load_demo_sources, load_demo_source_spans
SourcesNamed(w, conv, ids) == {s \in w.sources : s.conv = conv /\ s.id \in ids}
SpansNamed(w, conv, ids) == {s \in w.spans : s.conv = conv /\ s.id \in ids}

\* create_handoff, from the references of the run's last context.
Manifest(w, h, conv, refs, srefs, task) ==
  LET items == Each(LAMBDA id : BundledItem(w, conv, id), refs)
      lineage == Dedupe(CitemLineage(w, conv, refs) \o SummaryLineage(w, conv, srefs))
      ends(kind) == {e.toId : e \in {x \in Range(lineage) : x.to = kind}}
      m == [id |-> h, conv |-> conv, refs |-> refs, srefs |-> srefs, items |-> items,
            summaries |-> Each(LAMBDA id : BundledSummary(w, conv, id), srefs),
            sources |-> SourcesNamed(w, conv, ends("source")),
            spans |-> SpansNamed(w, conv, ends("span")),
            lineage |-> lineage, task |-> task]
  IN  m @@ [checksum |-> Checksum(m)]

-----------------------------------------------------------------------------
(* Validation *)

ProvenRefs(m) ==
  {i \in IdsOf(m.items) : \E e \in Range(m.lineage) :
                            e.kind = "citem" /\ e.from = i /\ e.to \in {"source", "span"}}

IsValid(m) ==
  /\ m.checksum = Checksum(m)
  /\ Range(m.refs) \subseteq IdsOf(m.items)
  /\ Range(m.srefs) \subseteq IdsOf(m.summaries)
  /\ 100 * Cardinality(ProvenRefs(m)) >= 80 * Len(m.refs)

-----------------------------------------------------------------------------
(* Restore: what is written, in order, one transaction for each row *)

RestoredSpans(m) == {s \in m.spans : s.source \in Ids(m.sources)}

Sources(m, n, target) ==
  Each(LAMBDA s : <<Write("sources", [s EXCEPT !.id = Fresh(n, @), !.conv = target])>>,
       SetToSeq(m.sources))

Spans(m, n, target) ==
  Each(LAMBDA s : <<Write("spans", [s EXCEPT !.id = Fresh(n, @), !.conv = target,
                                             !.source = Fresh(n, @)])>>,
       SetToSeq(RestoredSpans(m)))

\* A dependency that is not in the capsule keeps its old name.
Points(m, n, target) ==
  LET dep(d) == IF d \in IdsOf(m.items) THEN Fresh(n, d) ELSE d
  IN  Each(LAMBDA it : <<Write("points", [id |-> Fresh(n, it.id), conv |-> target, scope |-> it.scope,
                                          deps |-> {dep(d) : d \in it.deps}, text |-> it.text])>>,
           m.items)

\* The source and span an item's edges of one ordinal name, the last of each.
EvidenceSpec(m, it, ordinal) ==
  LET named(to) == SelectSeq(m.lineage, LAMBDA e : e.kind = "citem" /\ e.from = it.id
                                                     /\ e.to = to /\ e.ordinal = ordinal)
      last(seq) == IF seq = <<>> THEN None ELSE Last(seq).toId
  IN  [source |-> last(named("source")), span |-> last(named("span"))]

\* The source of a span stands in for one that the edges no longer name.
EvidenceRow(m, n, it, table, ordinal) ==
  LET spec == EvidenceSpec(m, it, ordinal)
      span == IF spec.span \in Ids(RestoredSpans(m)) THEN Fresh(n, spec.span) ELSE None
      source == IF spec.source \in Ids(m.sources) THEN Fresh(n, spec.source)
                ELSE IF span = None THEN None
                ELSE Fresh(n, The(m.spans, spec.span).source)
  IN  IF <<source, span>> = <<None, None>> THEN <<>>
      ELSE <<Write(table, [id |-> <<Fresh(n, it.id), ordinal>>, item |-> Fresh(n, it.id),
                           ordinal |-> ordinal, source |-> source, span |-> span])>>

EvidenceRows(m, n, it, table) ==
  LET ordinals == {e.ordinal : e \in {x \in Range(m.lineage) :
                     x.kind = "citem" /\ x.from = it.id /\ x.to \in {"source", "span"}}}
  IN  Each(LAMBDA o : EvidenceRow(m, n, it, table, o), InOrder(ordinals, LAMBDA o : o))

\* A global item without its origin in the capsule gets no row, only a point.
WitnessItem(m, n, target, it) ==
  IF it.scope # "global"
    THEN <<Write("locals", [id |-> Fresh(n, it.id), conv |-> target, text |-> it.text])>>
           \o EvidenceRows(m, n, it, "evidence")
  ELSE IF it.promo \in IdsOf(m.items)
    THEN <<Write("globals", [id |-> Fresh(n, it.id), conv |-> target, text |-> it.text,
                             origin |-> Fresh(n, it.promo)])>>
           \o EvidenceRows(m, n, it, "gevidence")
  ELSE <<>>

CitemEdges(m, n, target) ==
  LET bundled == [source |-> Ids(m.sources), span |-> Ids(RestoredSpans(m)), citem |-> IdsOf(m.items)]
      copy(e) ==
        IF e.kind = "citem" /\ e.from \in IdsOf(m.items) /\ e.toId \in bundled[e.to]
          THEN <<Write("edges", [id |-> <<Fresh(n, e.from), Fresh(n, e.toId)>>, conv |-> target,
                                 kind |-> "citem", from |-> Fresh(n, e.from), to |-> e.to,
                                 toId |-> Fresh(n, e.toId), ordinal |-> e.ordinal, at |-> 0])>>
          ELSE <<>>
  IN  Each(copy, SelectSeq(m.lineage, LAMBDA e : e.kind = "citem"))

\* The legacy node, its resolution and an edge for each item it covers.
Summary(m, n, target, s) ==
  LET id == Fresh(n, s.id)
      covered == {Fresh(n, o) : o \in s.origins \cap IdsOf(m.items)}
      row == [id |-> id, conv |-> target, origins |-> covered, text |-> s.text]
  IN  <<Write("nodes", row), Write("resolutions", row)>>
        \o Each(LAMBDA c : <<Write("edges", [id |-> <<id, c>>, conv |-> target, kind |-> "summary",
                                             from |-> id, to |-> "citem", toId |-> c,
                                             ordinal |-> 0, at |-> 0])>>, SetToSeq(covered))

\* Mutant: origins without an edge of their own are left out.
OriginsNamed(m, s) ==
  LET named == {<<e.to, e.toId>> : e \in {x \in Range(m.lineage) :
                  x.kind = "summary" /\ x.from = s.id /\ x.to \in {"citem", "summary"}}}
  IN  {o \in named :
         o[2] \in IF o[1] = "summary" THEN IdsOf(m.summaries) ELSE IdsOf(m.items)}

\* The edges' kinds, and for every origin of the bundled row a C-item's.
OriginsOf(m, s) ==
  LET named == {<<e.to, e.toId>> : e \in {x \in Range(m.lineage) :
                  x.kind = "summary" /\ x.from = s.id /\ x.to \in {"citem", "summary"}}}
  IN  {o \in named \cup {<<"citem", i>> : i \in s.origins} :
         o[2] \in IF o[1] = "summary" THEN IdsOf(m.summaries) ELSE IdsOf(m.items)}

WitnessSummary(m, n, target, s) ==
  LET id == Fresh(n, s.id)
      tables == IF s.scope = "global" THEN <<"gsummaries", "gorigins">> ELSE <<"summaries", "origins">>
  IN  <<Write(tables[1], [id |-> id, conv |-> target, text |-> s.text])>>
        \o Each(LAMBDA o : <<Write(tables[2], [id |-> <<id, o[1], Fresh(n, o[2])>>, summary |-> id,
                                               kind |-> o[1], origin |-> Fresh(n, o[2])])>>,
                SetToSeq(OriginsOf(m, s)))

\* The plan keeps its name, so its row stays with the conversation it is of;
\* the target's memory is overwritten, the flag of a running turn included.
Task(m, target) ==
  LET plans == IF m.task.plan = None THEN <<>> ELSE Write("plans", [m.task.plan EXCEPT !.conv = target])
      active == IF m.task.plan = None THEN m.task.active ELSE m.task.plan.id
  IN  <<plans \o Write("memory", [id |-> target, conv |-> target, busy |-> FALSE, plan |-> active])>>

RestoreRecord(h, n, target, valid) ==
  <<Write("restores", [id |-> <<n, h>>, conv |-> target, handoff |-> h, valid |-> valid])>>

\* create_conversation: the conversation and its task memory together.
NewConversation(w, target) ==
  IF target \in Ids(w.conversations) THEN <<>>
  ELSE <<Write("conversations", [id |-> target])
           \o Write("memory", [id |-> target, conv |-> target, busy |-> FALSE, plan |-> None])>>

Everything(w, m, n, target) ==
  NewConversation(w, target) \o Sources(m, n, target) \o Spans(m, n, target) \o Points(m, n, target)
    \o Each(LAMBDA it : WitnessItem(m, n, target, it), m.items)
    \o CitemEdges(m, n, target)
    \o Each(LAMBDA s : Summary(m, n, target, s), m.summaries)
    \o Each(LAMBDA s : WitnessSummary(m, n, target, s), m.summaries)
    \o Task(m, target) \o RestoreRecord(m.id, n, target, TRUE)

\* save_demo_handoff_validation: the newer verdict takes the place of the old.
Verdict(h, valid) == <<Write("validations", [id |-> h, valid |-> valid])>>

\* A validation that is stored is taken as it is.
RestoreWrites(w, h, n, target) ==
  IF h \notin Ids(w.manifests) THEN RestoreRecord(h, n, target, FALSE)
  ELSE LET m == The(w.manifests, h)
           stored == {v \in w.validations : v.id = h}
           valid == IF stored = {} THEN IsValid(m) ELSE \A v \in stored : v.valid
       IN  (IF stored = {} THEN Verdict(h, valid) ELSE <<>>)
             \o IF valid THEN Everything(w, m, n, target) ELSE RestoreRecord(h, n, target, FALSE)

-----------------------------------------------------------------------------
(* What a scenario promises.  It has the world, the references of a run's    *)
(* context, its task, the target and the cuts after which one tries again.   *)

H == <<0, "handoff">>

\* create_handoff saves the manifest.
Exported(s) ==
  Put(s.world, "manifests", Manifest(s.world, H, s.conv, s.refs, s.srefs, s.task))

Here(w, table, conv) == OfConv(w[table], conv)

\* Nothing of another conversation has gone, and what is new in a world keeps
\* to the target conversation.
Whole(old, new, conv) ==
  LET added(table) == new[table] \ old[table]
      here(table) == Here(new, table, conv)
      proven(e) == /\ e.source \in here("sources") \cup {None}
                   /\ e.span \in here("spans") \cup {None}
                   /\ e.span # None => e.source = The(new.spans, e.span).source
  IN  /\ \A table \in DOMAIN old \ {"plans", "memory"} : old[table] \subseteq new[table]
      /\ {r \in old.memory : r.conv # conv} \subseteq new.memory
      /\ \A p \in old.plans : The(new.plans, p.id).conv = p.conv
      /\ \A e \in added("evidence") : e.item \in here("locals") /\ proven(e)
      /\ \A e \in added("gevidence") : e.item \in here("globals") /\ proven(e)
      /\ \A e \in added("edges") :
           /\ e.from \in here(IF e.kind = "citem" THEN "points" ELSE "nodes")
           /\ e.toId \in here(CASE e.to = "source" -> "sources" [] e.to = "span" -> "spans"
                                [] OTHER -> "points")
      /\ \A r \in added("nodes") \cup added("resolutions") : r.origins \subseteq here("points")
      /\ \A o \in added("origins") \cup added("gorigins") :
           o.origin \in here(IF o.kind = "summary" THEN "nodes" ELSE "points")
      /\ \A r \in new.memory : r.plan \in Ids(new.plans) \cup {None}

(***************************************************************************)
(* A restore may stop anywhere, by a crash or a refused row, and be tried  *)
(* again: nothing of another conversation is lost or moved, whatever is    *)
(* new names rows of the target only, each span belongs to the source it   *)
(* is evidence of, and a record says the restore was made only when all of *)
(* it was (restore_handoff).                                               *)
(***************************************************************************)
RestoreIsClosed(s) ==
  LET w == Exported(s)
      writes == RestoreWrites(w, H, 1, s.target)
      stopped(k) == Perform(w, SubSeq(writes, 1, k)).world
      again(k) == Perform(stopped(k), RestoreWrites(stopped(k), H, 2, s.target)).world
  IN  \A k \in 0 .. Len(writes) :
        /\ Whole(w, stopped(k), s.target)
        /\ k \in s.again => Whole(w, again(k), s.target)
        /\ (\E r \in stopped(k).restores : r.valid) => k = Len(writes)

\* Each promoted item of a capsule comes after the item it was promoted from.
OriginsFirst(m) ==
  \A i \in DOMAIN m.items :
    m.items[i].promo \in IdsOf(m.items) => \E j \in 1 .. i - 1 : m.items[j].id = m.items[i].promo

(***************************************************************************)
(* A restore that nothing disturbs goes through exactly when the capsule   *)
(* is valid and has origins before what was promoted from them, or is      *)
(* refused for a conversation that exists.  Then every item has a point,   *)
(* every item of the exported conversation the evidence it had there, an   *)
(* item known by its point only its edges, every summary its origins, as   *)
(* far as they were exported, and no source comes from a third one         *)
(* (create_handoff, validate_handoff, restore_handoff).                    *)
(***************************************************************************)
HandoffIsFaithful(s) ==
  LET w == Exported(s)
      m == The(w.manifests, H)
      done == Perform(w, RestoreWrites(w, H, 1, s.target))
      new == done.world
      mine(e) == e.source \in Here(w, "sources", s.conv)
      moved(e) == <<Fresh(1, e.source), IF e.span = None THEN None ELSE Fresh(1, e.span)>>
      origins(world, id) == {o.origin : o \in {x \in world.origins \cup world.gorigins : x.summary = id}}
      covered(id) == UNION {r.origins : r \in {x \in w.nodes \cup w.resolutions : x.id = id}}
      exported(ids) == {Fresh(1, i) : i \in ids \cap IdsOf(m.items)}
      known == Here(w, "locals", s.conv) \cup Ids(w.globals)
      copied == Ids(m.sources) \cup Ids(RestoredSpans(m)) \cup IdsOf(m.items)
  IN  /\ done.up <=> IF IsValid(m) THEN OriginsFirst(m) ELSE s.target \in Ids(w.conversations)
      /\ done.up /\ ~IsValid(m) => \A t \in DOMAIN w \ {"validations", "restores"} : new[t] = w[t]
      /\ done.up /\ IsValid(m) =>
           /\ \A id \in Range(m.refs) :
                \E p \in new.points : p.id = Fresh(1, id) /\ p.conv = s.target
                                        /\ p.text = The(Range(m.items), id).text
           /\ \A id \in Range(m.refs) \cap Here(w, "locals", s.conv) :
                {<<e.source, e.span>> : e \in {x \in new.evidence : x.item = Fresh(1, id)}}
                  = {moved(e) : e \in {x \in w.evidence : x.item = id /\ mine(x)}}
           /\ \A id \in Range(m.refs) \ known :
                {<<e.to, e.toId>> : e \in {x \in new.edges : x.from = Fresh(1, id)}}
                  = {<<e.to, Fresh(1, e.toId)>> : e \in {x \in w.edges : x.from = id /\ x.conv = s.conv
                                                                      /\ x.toId \in copied}}
           /\ \A r \in new.sources : r.conv = s.target => \E o \in w.sources :
                o.text = r.text /\ o.conv \in {s.conv, s.target}
           /\ \A id \in Range(m.srefs) :
                origins(new, Fresh(1, id)) = exported(origins(w, id) \cup covered(id))
=============================================================================
