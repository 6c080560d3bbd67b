------------------------------ MODULE Retrieval ------------------------------
(* What a turn's context is made of: recall from three pools, rank fusion,   *)
(* reranking, expansion along dependencies, scoring, slots under a token     *)
(* budget, one retry, hop by hop for a decomposed question, and the view     *)
(* (retrieval/orchestrator.py, domain/operations.py, context_builder.py).    *)
(*                                                                           *)
(* All of it is a function of a scenario s, a record of                      *)
(*   lib     the items, numbered from 1: type, scope, active, flagged, here  *)
(*           (of this conversation), tokens, words, deps                     *)
(*   hops    for the question and each part a model cut it into: words,      *)
(*           order (the store's ranking), dense (its scores), rerank (the    *)
(*           cross-encoder's scores), up (the cross-encoder answers)         *)
(*   depth, query, plan, budget, procedure, exclude, failed, late, near,     *)
(*   tops, history, objective                                                *)
(* Texts are sets of words and scores are integers: 1.0 is One.              *)
EXTENDS Integers, Sequences, FiniteSets
LOCAL INSTANCE SequencesExt
LOCAL INSTANCE FiniteSetsExt
LOCAL INSTANCE Functions
LOCAL INSTANCE TLC

CONSTANT MinKept      \* min_n and min_k: 5 in the code, at least 1

One == 1000
None == -1            \* sorts as float("-inf"); scores are not negative
Protected == {"DECISION", "CONSTRAINT", "PROCEDURE"}

\* x before y where the tuples compare as x > y; every key ends with an id.
Above(x, y) == \E i \in DOMAIN x : x[i] > y[i] /\ \A j \in 1 .. i - 1 : x[j] = y[j]
SortedBy(seq, Key(_)) == SortSeq(seq, LAMBDA a, b : Above(Key(a), Key(b)))
Top(seq, n) == SubSeq(seq, 1, IF n < Len(seq) THEN n ELSE Len(seq))
Ids(hits) == {hits[i].id : i \in DOMAIN hits}
TokensOf(s, ids) == MapThenSumSet(LAMBDA i : s.lib[i].tokens, ids)
FirstOfEach(hits) ==
  FoldLeft(LAMBDA acc, h : IF h.id \in Ids(acc) THEN acc ELSE Append(acc, h), <<>>, hits)

-----------------------------------------------------------------------------
(* Recall *)

Hit(id, score, dense, source) ==
  [id |-> id, score |-> score, dense |-> dense, rerank |-> 0, rrf |-> None,
   bridge |-> None, verified |-> FALSE, source |-> source]

EpisodicActive(s) ==
  {it \in Range(s.lib) : it.here /\ it.scope = "episodic" /\ it.active /\ ~it.flagged}
GlobalActive(s) == {it \in Range(s.lib) : it.scope = "global" /\ it.active /\ ~it.flagged}
EpisodicFlagged(s) ==
  {it \in Range(s.lib) : it.here /\ it.scope = "episodic" /\ it.active /\ it.flagged}

\* The k best of the items a filter lets through, in the store's order.
Search(s, hop, passing, k, source) ==
  LET found == SelectSeq(hop.order, LAMBDA i : s.lib[i] \in passing)
  IN  Top([n \in DOMAIN found |->
             Hit(found[n], One \div (n + 1), hop.dense[found[n]], source)], k)

\* Three queries side by side; one that raises yields nothing, and global
\* items below the minimum score are dropped.
MultiSourceRecall(s, hop, k) ==
  LET pool(n, hits) == IF n \in s.failed THEN <<>> ELSE hits
  IN  <<pool(1, Search(s, hop, EpisodicActive(s), (k * 8) \div 10, "episodic")),
        SelectSeq(pool(2, Search(s, hop, GlobalActive(s), (k * 4) \div 10, "global")),
                  LAMBDA h : h.score >= (3 * One) \div 10),
        pool(3, Search(s, hop, EpisodicFlagged(s), 10, "episodic"))>>

RankWeight(rank) == 1000000 \div (60 + rank)

\* reciprocal_rank_fusion_scored
Fuse(pools) ==
  LET all == FlattenSeq(pools)
      weight(id) == FoldLeft(LAMBDA acc, p : acc +
                       FoldLeft(LAMBDA sum, n : sum + IF p[n].id = id THEN RankWeight(n) ELSE 0,
                                0, [n \in DOMAIN p |-> n]), 0, pools)
      fused == [n \in DOMAIN FirstOfEach(all) |->
                  [FirstOfEach(all)[n] EXCEPT !.rrf = weight(FirstOfEach(all)[n].id)]]
  IN  SortedBy(fused, LAMBDA h : <<h.rrf, h.dense, h.id>>)

-----------------------------------------------------------------------------
(* Reranking *)

AtLeast(m, k) == IF k < m THEN m ELSE k
AtMost(m, k) == IF k > m THEN m ELSE k

\* adaptive_pre_rerank_k: items below three tenths of the best are not sent.
PreRerankK(hits, base) ==
  IF Len(hits) <= MinKept THEN Len(hits)
  ELSE LET above == SelectSeq(hits, LAMBDA h : 10 * h.rrf >= 3 * hits[1].rrf)
       IN  AtMost(Len(hits), AtMost(base, AtLeast(MinKept, Len(above))))

\* adaptive_rerank_k: cut at the first gap of four tenths of the whole span.
RerankK(hits, base) ==
  LET n == Len(hits)
      span == hits[1].rerank - hits[n].rerank
      cliffs == {i \in 1 .. n - 1 : 10 * (hits[i].rerank - hits[i + 1].rerank) >= 4 * span}
  IN  IF n < 2 THEN AtLeast(MinKept, AtMost(base, n))
      ELSE IF span = 0 \/ cliffs = {} THEN base
      ELSE AtLeast(MinKept, AtMost(base, Min(cliffs)))

\* _rerank: a new hit for each answer of the cross-encoder.
CrossEncode(hop, hits, n) ==
  LET scored == [i \in DOMAIN hits |->
                   [hits[i] EXCEPT !.score = hop.rerank[hits[i].id], !.rerank = hop.rerank[hits[i].id],
                                   !.rrf = None, !.verified = TRUE]]
  IN  Top(SortedBy(scored, LAMBDA h : <<h.rerank, 0 - (CHOOSE i \in DOMAIN hits : hits[i].id = h.id)>>), n)

\* Without it a missing score is made up from the others.  None is missing
\* where the store has set none: ScoredCItem begins with 0.0.
WithoutReranker(hits, n) ==
  LET filled(h) == IF h.rerank # None THEN h
                   ELSE [h EXCEPT !.rerank = IF h.rrf # None THEN h.rrf ELSE h.dense]
  IN  [i \in DOMAIN Top(hits, n) |-> filled(hits[i])]

Shortlist(hop, hits, n) ==
  LET sent == Top(hits, PreRerankK(hits, n))
      ranked == CrossEncode(hop, sent, n)
  IN  IF ~hop.up THEN WithoutReranker(sent, n)
      ELSE IF ranked = <<>> THEN ranked ELSE Top(ranked, RerankK(ranked, n))

\* _late_interaction_rerank, here by closeness; it marks every hit verified.
LateInteraction(hits) ==
  LET marked == [i \in DOMAIN hits |-> [hits[i] EXCEPT !.score = hits[i].dense, !.rrf = None,
                                                       !.verified = TRUE]]
  IN  SortedBy(marked, LAMBDA h : <<h.dense, h.id>>)

-----------------------------------------------------------------------------
(* Expansion and the relevance of flagged items *)

\* fetch_neighbors: forward by id, whatever the item is and wherever it is
\* from; backward within the conversation's active items.
Neighbors(s, seeds, excluded) ==
  {i \in DOMAIN s.lib \ (seeds \cup excluded) :
     \/ \E j \in seeds : i \in s.lib[j].deps
     \/ s.lib[i].here /\ s.lib[i].active /\ s.lib[i].deps \cap seeds # {}}

\* DependencyIdsGeometricExpander.expand; s.near are those close to a seed.
Expand(s, seeds, excluded) ==
  LET found == Neighbors(s, seeds, excluded) \cap s.near
  IN  [n \in 1 .. Cardinality(found) |->
         [Hit(SetToSortSeq(found, <)[n], One \div 10, None, "geometric") EXCEPT !.rerank = None]]

Facets(s, id, words) == words \cap s.lib[id].words
Similar(s, a, b, percent) ==
  LET x == s.lib[a].words  y == s.lib[b].words
  IN  x # {} /\ y # {} /\ 100 * Cardinality(x \cap y) >= percent * Cardinality(x \cup y)

\* filter_q3_by_local_relevance
RelevantFlagged(s, hits, words, anchors) ==
  SelectSeq(hits, LAMBDA h : \/ Facets(s, h.id, words) # {}
                             \/ \E a \in Ids(Top(anchors, 3)) : Similar(s, h.id, a, 15))

-----------------------------------------------------------------------------
(* Scores *)

Normal(v, lo, hi) == IF hi <= lo THEN One ELSE ((v - lo) * One) \div (hi - lo)

\* The relevance of a hit is the first of its scores that is set.
Relevance(h) ==
  IF h.rerank # None THEN h.rerank ELSE IF h.rrf # None THEN h.rrf
  ELSE IF h.dense # None THEN h.dense ELSE h.score

\* apply_cvs_density_scoring: no item has a recency or a novelty, so the value
\* is the relevance within the pool; its weight changes no order.
Value(hits, h) ==
  LET all == {Relevance(hits[i]) : i \in DOMAIN hits} IN Normal(Relevance(h), Min(all), Max(all))
Density(s, hits, h) == (60 * Value(hits, h)) \div s.lib[h.id].tokens
FallbackKey(s, hits, h) == <<Density(s, hits, h), Value(hits, h), h.rerank, h.id>>
Valued(s, hits) == SortedBy(hits, LAMBDA h : <<Density(s, hits, h), Value(hits, h), h.id>>)

\* The smallest integer at or above the percentile, between two neighbours.
Percentile(values, q) ==
  LET vals == SortSeq(values, <)
      pos == ((Len(vals) - 1) * q) \div 100
      frac == ((Len(vals) - 1) * q) % 100
  IN  IF frac = 0 THEN vals[pos + 1]
      ELSE -((-(vals[pos + 1] * (100 - frac) + vals[pos + 2] * frac)) \div 100)

BridgeEligible(hits) ==
  SelectSeq(hits, LAMBDA h : h.source # "geometric" /\ h.dense # None /\ h.rerank # None /\ h.verified)

\* annotate_bridge_scores: the vectors are never fetched (the attribute it
\* names does not exist), so closeness and reranking count half each.
Bridged(hits) ==
  LET able == BridgeEligible(hits)
      dense == {able[i].dense : i \in DOMAIN able}
      rerank == {able[i].rerank : i \in DOMAIN able}
      score(h) == (Normal(h.dense, Min(dense), Max(dense)) + Normal(h.rerank, Min(rerank), Max(rerank))) \div 2
  IN  [i \in DOMAIN hits |-> IF hits[i].id \in Ids(able)
                               THEN [hits[i] EXCEPT !.bridge = score(hits[i])] ELSE hits[i]]

\* BridgePolicy.disabled
NoBridges == [enabled |-> FALSE, anchor |-> None, bridge |-> None]

\* derive_bridge_policy over the eligible hits; a retry relaxes the floors.
BridgePolicy(hits, relax) ==
  LET able == BridgeEligible(hits)
      q == IF relax THEN 10 ELSE 25
  IN  IF able = <<>> THEN NoBridges
      ELSE [enabled |-> TRUE,
            anchor |-> Percentile([i \in DOMAIN able |-> able[i].rerank], q),
            bridge |-> Percentile([i \in DOMAIN able |-> able[i].bridge], q)]

-----------------------------------------------------------------------------
(* Slots *)

SlotCaps(type) ==
  CASE type \in {"LOCAL_PRECISE", "PROCEDURAL"} ->
         [direct |-> 40, bridge |-> 10, global |-> 15, conflict |-> 10]
    [] type = "DIAGNOSTIC" -> [direct |-> 45, bridge |-> 12, global |-> 20, conflict |-> 10]
    [] type = "MULTI_HOP" -> [direct |-> 45, bridge |-> 15, global |-> 20, conflict |-> 10]
    [] type = "GLOBAL_SYNTHETIC" -> [direct |-> 50, bridge |-> 15, global |-> 25, conflict |-> 10]

NoGain(s, words, h, direct) ==
  words # {} /\ Facets(s, h.id, words) \subseteq UNION {Facets(s, i, words) : i \in Ids(direct)}
Redundant(s, h, hits, percent) == \E i \in Ids(hits) : Similar(s, h.id, i, percent)

\* What the first two slots take: a hit that fits, and that is neither an
\* echo of the direct evidence nor, as a bridge, of another bridge.
TakesDirect(s, words, cap, st, h) ==
  /\ h.id \notin Ids(st.direct) \cup Ids(st.bridge)
  /\ TokensOf(s, Ids(st.direct)) + s.lib[h.id].tokens <= cap
  /\ st.direct # <<>> => ~(NoGain(s, words, h, st.direct) /\ Redundant(s, h, st.direct, 92))
TakesBridge(s, cap, st, h) ==
  /\ h.id \notin Ids(st.direct) \cup Ids(st.bridge)
  /\ TokensOf(s, Ids(st.bridge)) + s.lib[h.id].tokens <= cap
  /\ ~Redundant(s, h, st.bridge, 92)

\* The fallback by value density, also the last part of the interleaving.
FillDirect(s, words, cap, st, hits) ==
  FoldLeft(LAMBDA acc, h : IF TakesDirect(s, words, cap, acc, h)
                             THEN [acc EXCEPT !.direct = Append(@, h)] ELSE acc,
           st, SortedBy(hits, LAMBDA h : FallbackKey(s, hits, h)))

\* One pick from a lane: its first hit that is taken; what is before it will
\* not be looked at again.
FirstTaken(lane, Takes(_)) ==
  LET good == {i \in DOMAIN lane : Takes(lane[i])} IN IF good = {} THEN 0 ELSE Min(good)

\* Anchors and bridges in turn until neither lane has anything to give.
RECURSIVE TakeTurns(_, _, _, _, _, _, _)
TakeTurns(s, words, caps, st, anchors, bridges, turn) ==
  LET a == FirstTaken(anchors, LAMBDA h : TakesDirect(s, words, caps.direct, st, h))
      b == FirstTaken(bridges, LAMBDA h : TakesBridge(s, caps.bridge, st, h))
      rest(lane, i) == SubSeq(lane, i + 1, Len(lane))
      anchored == [st EXCEPT !.direct = Append(@, anchors[a])]
      linked == [st EXCEPT !.bridge = Append(@, bridges[b])]
  IN  CASE turn = "anchor" /\ a # 0 ->
             TakeTurns(s, words, caps, anchored, rest(anchors, a), bridges, "bridge")
        [] turn = "anchor" /\ a = 0 /\ b # 0 ->
             TakeTurns(s, words, caps, linked, <<>>, rest(bridges, b), "anchor")
        [] turn = "bridge" /\ b # 0 ->
             TakeTurns(s, words, caps, linked, anchors, rest(bridges, b), "anchor")
        [] turn = "bridge" /\ b = 0 /\ a # 0 ->
             TakeTurns(s, words, caps, anchored, rest(anchors, a), <<>>, "bridge")
        [] OTHER -> st

\* _abs_select
AbsSelect(s, words, caps, hits, policy) ==
  LET none == [direct |-> <<>>, bridge |-> <<>>]
      anchors == SortedBy(SelectSeq(hits, LAMBDA h : h.rerank # None /\ h.rerank >= policy.anchor),
                          LAMBDA h : <<h.rerank, h.dense, h.id>>)
      bridges == SortedBy(SelectSeq(hits, LAMBDA h : h.bridge # None /\ h.bridge >= policy.bridge),
                          LAMBDA h : <<h.bridge, h.rerank, h.id>>)
  IN  IF hits = <<>> \/ caps.direct <= 0 THEN none
      ELSE IF ~policy.enabled THEN FillDirect(s, words, caps.direct, none, hits)
      ELSE FillDirect(s, words, caps.direct,
                      TakeTurns(s, words, caps, none, anchors, bridges, "anchor"), hits)

IsProtected(s, h) == h.id = s.procedure \/ s.lib[h.id].type \in Protected
IsGlobalObservation(s, h) == s.lib[h.id].scope = "global" /\ s.lib[h.id].type = "OBSERVATION"
RelevantGlobal(s, h) == s.query = {} \/ Facets(s, h.id, s.query) # {}

\* Hits taken in their order as long as they fit a cap.
Fitting(s, cap, hits) ==
  FoldLeft(LAMBDA acc, h : IF TokensOf(s, Ids(acc)) + s.lib[h.id].tokens <= cap
                             THEN Append(acc, h) ELSE acc, <<>>, hits)

\* greedy_select: protected items are never cut; the other slots share what
\* they leave of the budget.
Caps(s, hits) ==
  LET kept == TokensOf(s, Ids(SelectSeq(hits, LAMBDA h : IsProtected(s, h))))
      rest == AtLeast(0, s.budget - kept)
  IN  [slot \in {"direct", "bridge", "global", "conflict"} |-> (rest * SlotCaps(s.plan.type)[slot]) \div 100]

GreedySelect(s, hits, policy) ==
  LET open == SelectSeq(hits, LAMBDA h : ~IsProtected(s, h))
      flagged == SelectSeq(open, LAMBDA h : s.lib[h.id].flagged)
      plain == SelectSeq(open, LAMBDA h : ~s.lib[h.id].flagged)
      globals == SelectSeq(plain, LAMBDA h : IsGlobalObservation(s, h) /\ RelevantGlobal(s, h))
      pool == SelectSeq(plain, LAMBDA h : ~IsGlobalObservation(s, h))
      caps == Caps(s, hits)
      chosen == AbsSelect(s, s.query, caps, pool, policy)
  IN  [protected |-> SelectSeq(hits, LAMBDA h : IsProtected(s, h)),
       direct |-> chosen.direct, bridge |-> chosen.bridge,
       global |-> Fitting(s, caps.global, globals),
       conflict |-> Fitting(s, caps.conflict, flagged)]

Slots == {"protected", "direct", "bridge", "global", "conflict"}
\* ContextPack.all_items
Packed(pack) == UNION {Ids(pack[slot]) : slot \in Slots}

-----------------------------------------------------------------------------
(* The pipeline *)

\* Mutant: the expansion was told of the excluded items, so it is not asked.
GatherTrusting(s, hop, merged, flagged, expanded, hits) ==
  LET ordered == SortedBy(RelevantFlagged(s, flagged, hop.words, merged), LAMBDA h : <<h.score, h.id>>)
  IN  FirstOfEach(hits \o SelectSeq(merged \o ordered, LAMBDA h : h.id \notin s.exclude) \o expanded)

\* What one hop adds to the candidates, without what is there or excluded.
Gather(s, hop, merged, flagged, expanded, hits) ==
  LET ordered == SortedBy(RelevantFlagged(s, flagged, hop.words, merged), LAMBDA h : <<h.score, h.id>>)
  IN  FirstOfEach(hits \o SelectSeq(merged \o ordered \o expanded, LAMBDA h : h.id \notin s.exclude))

\* One hop: [hits, anchors, up].  Seeds of the hop before are expanded again.
HopStep(s, k, n, late, acc, hop) ==
  LET pools == MultiSourceRecall(s, hop, k)
      short == Shortlist(hop, Fuse(<<pools[1], pools[2]>>), n)
      merged == IF late = "up" /\ short # <<>> THEN LateInteraction(short) ELSE short
      seeds == Ids(Top(merged, s.plan.seeds)) \cup Ids(acc.anchors)
      expanded == IF s.plan.expand THEN Expand(s, seeds, Ids(merged) \cup Ids(acc.hits)) ELSE <<>>
  IN  [hits |-> Gather(s, hop, merged, pools[3], expanded, acc.hits),
       anchors |-> Top(merged, 5), up |-> acc.up /\ hop.up]

\* evaluate_coverage and adaptive_retry_k, in hundredths
Covered(s, pack) == IF s.query = {} THEN 100
  ELSE (100 * Cardinality(s.query \cap UNION {s.lib[i].words : i \in Packed(pack)})) \div Cardinality(s.query)
RetryK(k, covered, threshold) ==
  LET factor == AtMost(300, 100 + 5 * AtLeast(0, threshold - covered)) IN (2 * k * factor + 100) \div 200

\* MultiHopAnalyzer and the call it decides: the question itself, or the
\* sub-questions a model gave for it, of which too many are cut.
Asked(s) ==
  LET depth == AtLeast(1, AtMost(8, s.depth))
      given == Tail(s.hops)
      kept == IF Len(given) > 2 * ((depth + 1) \div 2) THEN Top(given, (depth + 1) \div 2) ELSE given
  IN  IF depth > 2 /\ Len(kept) > 1 THEN kept ELSE <<Head(s.hops)>>

\* retrieve_multihop's candidates: each part of the question keeps its share
\* of the shortlist, and hands its anchors to the next.
AcrossHops(s, k) ==
  LET asked == Asked(s)
      several == Len(asked) > 1
      n == IF several THEN AtLeast(1, AtMost(s.plan.top, AtLeast(10, s.plan.top \div Len(asked)))) ELSE s.plan.top
  IN  FoldLeft(LAMBDA acc, hop : HopStep(s, k, n, IF several THEN "none" ELSE s.late, acc, hop),
               [hits |-> <<>>, anchors |-> <<>>, up |-> TRUE], asked)

\* What both paths do with their candidates.
Assemble(s, hits, lanes, relax) ==
  LET valued == Valued(s, IF lanes THEN Bridged(hits) ELSE hits)
      policy == IF lanes THEN BridgePolicy(valued, relax) ELSE NoBridges
  IN  [hits |-> valued, lanes |-> policy.enabled, pack |-> GreedySelect(s, valued, policy)]

\* retrieve: the hops are one, and without the reranker no bridge is built.
\* retrieve_multihop: bridges come from whatever hop was reranked.
Attempt(s, k, relax) ==
  LET end == AcrossHops(s, k)
  IN  Assemble(s, end.hits, Len(Asked(s)) > 1 \/ end.up, relax)

\* One retry with a wider recall where too little of the question is covered;
\* its pack is returned whatever it covers.
Retrieve(s) ==
  LET first == Attempt(s, s.plan.k, FALSE)
      covered == Covered(s, first.pack)
  IN  IF covered >= s.plan.threshold THEN first
      ELSE Attempt(s, RetryK(s.plan.k, covered, s.plan.threshold), TRUE)

\* ContextBuilder.build: relevant summary tops up to a quarter of the budget,
\* counted from the global items there are; then what the history says
\* already, and summaries of neither objective, are taken out.
AddTops(s, pack) ==
  LET relevant == SelectSeq(s.tops, LAMBDA t : s.query = {} \/ t.words \cap s.query # {})
      cost(n) == TokensOf(s, Ids(pack.global)) + FoldLeft(LAMBDA sum, t : sum + t.tokens, 0, Top(relevant, n))
      room == {n \in 0 .. Len(relevant) : \A m \in 1 .. n : cost(m) <= s.budget \div 4}
  IN  Top(relevant, Max(room))

View(s) ==
  LET pack == Retrieve(s).pack
      serves(words) == s.objective = {} \/ words \cap s.objective # {}
      new(hits) == SelectSeq(hits, LAMBDA h : h.id \notin s.history)
  IN  [protected |-> pack.protected, direct |-> new(pack.direct), bridge |-> new(pack.bridge),
       global |-> SelectSeq(pack.global, LAMBDA h : serves(s.lib[h.id].words)),
       tops |-> SelectSeq(AddTops(s, pack), LAMBDA t : serves(t.words)),
       conflict |-> pack.conflict]

-----------------------------------------------------------------------------
(* What is promised of them *)

\* Each candidate is packed at most once and in a slot that may hold it: a
\* flagged item only where conflicts are told, a bridge only if a reranker
\* has seen it and no other bridge says the same; nothing excluded comes back
\* by another way, and no protected item is lost.
PackIsSound(s) ==
  LET r == Retrieve(s)  pack == r.pack IN
  /\ \A slot \in Slots : Cardinality(Ids(pack[slot])) = Len(pack[slot])
  /\ \A a, b \in Slots : a # b => Ids(pack[a]) \cap Ids(pack[b]) = {}
  /\ Packed(pack) \cap s.exclude = {}
  /\ \A slot \in {"direct", "bridge", "global"}, i \in Packed(pack) :
       i \in Ids(pack[slot]) => ~s.lib[i].flagged
  /\ \A h \in {pack.bridge[n] : n \in DOMAIN pack.bridge} :
       /\ \E n \in DOMAIN Asked(s) : Asked(s)[n].up /\ h.rerank = Asked(s)[n].rerank[h.id]
       /\ \A i \in Ids(pack.bridge) \ {h.id} : ~Similar(s, i, h.id, 92)
  /\ \A h \in {r.hits[n] : n \in DOMAIN r.hits} : IsProtected(s, h) => h.id \in Ids(pack.protected)

\* "Budget is a ceiling" (greedy_select): a slot never exceeds its share, nor
\* summaries a quarter; yet no evidence is left out that would fit and add
\* something, and the best answer the reranker found is kept if it fits.
BudgetIsFilled(s) ==
  LET r == Retrieve(s)  pack == r.pack  caps == Caps(s, r.hits)  view == View(s)
      hits == {r.hits[n] : n \in DOMAIN r.hits}
      pool == {h \in hits : ~IsProtected(s, h) /\ ~s.lib[h.id].flagged /\ ~IsGlobalObservation(s, h)}
      left == {h \in pool : h.id \notin Packed(pack)}
      fits(h) == s.lib[h.id].tokens <= caps.direct
      best == {h \in pool : h.verified /\ fits(h) /\
                 \A o \in pool : o.verified /\ fits(o) => o.rerank <= h.rerank}
  IN
  /\ \A slot \in Slots \ {"protected"} : TokensOf(s, Ids(pack[slot])) <= caps[slot]
  /\ TokensOf(s, Packed(pack)) <= AtLeast(s.budget, TokensOf(s, Ids(pack.protected)))
  /\ TokensOf(s, Ids(view.global)) + FoldLeft(LAMBDA sum, t : sum + t.tokens, 0, view.tops) <= s.budget \div 4
  /\ \A h \in left :
       \/ TokensOf(s, Ids(pack.direct) \cup {h.id}) > caps.direct
       \/ NoGain(s, s.query, h, pack.direct) /\ Redundant(s, h, pack.direct, 92)
  /\ r.lanes /\ best # {} => \E h \in best : h.id \in Packed(pack)
=============================================================================
