------------------------------ MODULE Breeding ------------------------------
(***************************************************************************)
(* How genomes come about (seed.rs, genome_ops.rs, risk_search.rs) and how *)
(* a generation is assembled from them (population.rs).  A random draw is  *)
(* the set of what it can return; a genome is its sequence of predicates;  *)
(* a quantile is a percentage, a multiple of a risk is in quarters.        *)
(***************************************************************************)
EXTENDS Integers, Sequences, FiniteSets, SequencesExt, FiniteSetsExt

MaxPredicates == 4        \* MAX_PREDICATES of genome_ops.rs
ActionableLayers == {"trigger", "location"}
Contextual == {"regime", "tradeability", "event"}
Layers == ActionableLayers \cup Contextual

ClampTo(x, low, high) == IF x < low THEN low ELSE IF x > high THEN high ELSE x

-----------------------------------------------------------------------------
(* FeatureStat::quantile, nearest rank.                                    *)
Quantile(values, q) ==
  values[1 + (2 * ClampTo(q, 0, 100) * (Len(values) - 1) + 100) \div 200]

(* FeatureCatalog::from_windows: the features seen often enough that vary. *)
Catalog(observed, minObservations) ==
  {[key |-> f.key, layer |-> f.layer, values |-> SortSeq(f.values, <)] :
     f \in {o \in observed : Len(o.values) >= minObservations
              /\ \E i, j \in DOMAIN o.values : o.values[i] # o.values[j]}}

StatsIn(catalog, layers) == {s \in catalog : s.layer \in layers}

(* draw_predicate, draw_predicate_in_layers.                               *)
Draws(catalog, layers) ==
  {[layer |-> s.layer, key |-> s.key, op |-> op, threshold |-> Quantile(s.values, q)] :
     s \in StatsIn(catalog, layers), op \in {"gt", "lt"}, q \in {20, 35, 50, 65, 80}}

Keys(predicates) == {predicates[i].key : i \in DOMAIN predicates}

HasActionable(predicates) == \E i \in DOMAIN predicates : predicates[i].layer \in ActionableLayers

(* Mutant: a feature that is already read is drawn again.                  *)
FirstOfAll(predicates, atMost) == SubSeq(predicates, 1, Min({atMost, Len(predicates)}))

(* The predicates in order, the first of each feature, up to a number.     *)
FirstByKey(predicates, atMost) ==
  FoldLeft(LAMBDA kept, p : IF Len(kept) >= atMost \/ p.key \in Keys(kept) THEN kept
                            ELSE Append(kept, p), <<>>, predicates)

(* random_genome: duplicates drawn in the bounded attempts may leave it    *)
(* short of the number it set out for.                                     *)
RandomGenomes(catalog, most) ==
  {FirstByKey(draws, most) :
     draws \in UNION {[1..n -> Draws(catalog, Layers)] : n \in 1..Max({most, 1})}}

(* random_genome_promotable: an actionable predicate, a contextual one if  *)
(* there is any, and more of any layer up to the number.                   *)
PromotableSeeds(catalog, most) ==
  LET context == Draws(catalog, Contextual)
      heads == IF context = {} THEN {<<p>> : p \in Draws(catalog, ActionableLayers)}
               ELSE {<<p, c>> : p \in Draws(catalog, ActionableLayers), c \in context}
      pads == UNION {[1..n -> Draws(catalog, Layers)] : n \in 0..(Max({most, 2}) - 1)}
  IN  {FirstByKey(head \o pad, Max({most, 2})) : head \in heads, pad \in pads}

(* ARCHETYPES, by side, a predicate being <<layer, key, op, quantile>>.    *)
Archetypes ==
  LET adx(op, q) == <<"regime", "adx", op, q>>
      d50(op, q) == <<"location", "dist_50dma", op, q>>
      d200(q) == <<"location", "dist_200dma", "gt", q>>
      rsi(op, q) == <<"trigger", "rsi14", op, q>>
      roc(op, q) == <<"trigger", "momentum_roc", op, q>>
      rs(op, q) == <<"trigger", "rs_vs_spy", op, q>>
      range(op, q) == <<"location", "pct_range_position", op, q>>
  IN  [trend_follow_long |-> <<adx("gt", 65), d50("gt", 60), roc("gt", 60)>>,
       rs_breakout_long |-> <<adx("gt", 55), rs("gt", 70), range("gt", 70)>>,
       mean_revert_long |-> <<rsi("lt", 25), d200(45), adx("lt", 50)>>,
       vwap_reclaim_long |-> <<<<"location", "anchored_vwap_dist", "lt", 30>>,
          rsi("lt", 35), <<"regime", "rv_percentile", "lt", 60>>>>,
       trend_follow_short |-> <<adx("gt", 65), d50("lt", 40), roc("lt", 40)>>,
       rs_breakdown_short |-> <<adx("gt", 55), rs("lt", 30), range("lt", 30)>>,
       mean_revert_short |-> <<rsi("gt", 75), d200(70), adx("lt", 50)>>]

(* archetype_seeds: only what the catalog can express in full.             *)
ArchetypeSeeds(catalog) ==
  LET keys == {s.key : s \in catalog}
      stat(key) == CHOOSE s \in catalog : s.key = key
      bound(t) == [layer |-> t[1], key |-> t[2], op |-> t[3],
                   threshold |-> Quantile(stat(t[2]).values, t[4])]
      expressible == {a \in DOMAIN Archetypes :
                        \A i \in DOMAIN Archetypes[a] : Archetypes[a][i][2] \in keys}
  IN  {g \in {[i \in DOMAIN Archetypes[a] |-> bound(Archetypes[a][i])] : a \in expressible} :
         HasActionable(g)}

-----------------------------------------------------------------------------
(* perturb_threshold_span: to a quantile within span/2 of the present rank.*)
Near(stat, threshold, span) ==
  LET below == Cardinality({n \in DOMAIN stat.values : stat.values[n] < threshold})
      rank == (100 * below) \div (Len(stat.values) - 1)
  IN  {Quantile(stat.values, rank + d) : d \in {-(span \div 2), 0, span \div 2}}

Perturbed(g, catalog, span) ==
  UNION {{[g EXCEPT ![i].threshold = t] :
            t \in UNION {Near(s, g[i].threshold, span) :
                          s \in {c \in catalog : c.key = g[i].key /\ Len(c.values) >= 2}}}
         : i \in DOMAIN g}

Opposite(op) == CASE op = "gt" -> "lt" [] op = "lt" -> "gt"

Flipped(g) == {[g EXCEPT ![i].op = Opposite(@)] : i \in DOMAIN g}

(* Mutant: a swap may bring in a feature the genome already reads.         *)
FreeOfAnyFeature(g, i, p) == TRUE

(* Putting p in place i duplicates no feature of another predicate.        *)
Free(g, i, p) == \A j \in DOMAIN g \ {i} : g[j].key # p.key

SwappedAt(g, i, draws) == {[g EXCEPT ![i] = p] : p \in {d \in draws : Free(g, i, d)}}

Added(g, draws) ==
  IF Len(g) >= MaxPredicates THEN {}
  ELSE {Append(g, p) : p \in {d \in draws : d.key \notin Keys(g)}}

Removed(g) == IF Len(g) <= 1 THEN {} ELSE {RemoveAt(g, i) : i \in DOMAIN g}

(* underrepresented_layer: a layer g lacks and the catalog can supply.     *)
Missing(g, catalog) ==
  {l \in Layers : StatsIn(catalog, {l}) # {} /\ \A i \in DOMAIN g : g[i].layer # l}

(* mutate: one operator at random; one that does not apply changes nothing.*)
Mutations(g, catalog) ==
  IF catalog = {} THEN {g}
  ELSE {g}
    \cup Perturbed(g, catalog, 30) \cup Flipped(g)
    \cup (UNION {SwappedAt(g, i, Draws(catalog, Layers)) : i \in DOMAIN g})
    \cup Added(g, Draws(catalog, Layers)) \cup Removed(g)
    \cup (UNION {Added(g, Draws(catalog, {l})) : l \in Missing(g, catalog)})
    \cup (UNION {SwappedAt(g, i, Draws(catalog, Layers \ {g[i].layer})) : i \in DOMAIN g})
    \cup Perturbed(g, catalog, 80)

(* crossover: a prefix of a, then whatever of b is new, up to the cap.     *)
Crossovers(a, b) ==
  {FirstByKey(SubSeq(a, 1, cut) \o b, MaxPredicates) : cut \in 1..Len(a)}

-----------------------------------------------------------------------------
(* RiskSpace: a stop is [kind, by], a target is an R-multiple.             *)
StopMults == {2, 3, 4, 6, 8}
TargetMults == {6, 8, 10, 12}

(* Mutant: a jitter may shrink the magnitude to nothing.                   *)
JitterToZero(v) == {0, v, 2 * v}

Jitter(v) == {Max({1, (v * f) \div 100}) : f \in {75, 100, 125}}

AtrStops == {[kind |-> "atr", by |-> m] : m \in StopMults}

(* mutate_stop, and the stop of `sample` for the operator's kind.          *)
Restopped(stop) ==
  IF stop.kind = "atr" THEN AtrStops
  ELSE {[kind |-> stop.kind, by |-> v] : v \in Jitter(stop.by)}

Targets(r1) == [target1 |-> r1, target2 |-> Min({r1 + 4, 20})]

(* RiskSpace::sample.                                                      *)
SampledRisk(operator) ==
  {[stop |-> s, targets |-> Targets(r)] : s \in Restopped(operator.stop), r \in TargetMults}

(* swap_stop_kind.                                                         *)
SwappedKind(stop) ==
  AtrStops \cup IF stop.kind = "atr"
                THEN {[kind |-> "pct", by |-> v] : v \in 4..12}
                       \cup {[kind |-> "fixed", by |-> v] : v \in 8..32}
                ELSE Restopped(stop)

(* RiskSpace::mutate.                                                      *)
MutatedRisk(risk) ==
  {[risk EXCEPT !.stop = s] : s \in Restopped(risk.stop) \cup SwappedKind(risk.stop)}
    \cup {[risk EXCEPT !.targets = Targets(r)] : r \in TargetMults}

(* RiskSpace::crossover: each part from either parent.                     *)
CrossedRisk(a, b) ==
  {[stop |-> s, targets |-> [target1 |-> t1, target2 |-> t2]] : s \in {a.stop, b.stop},
     t1 \in {a.targets.target1, b.targets.target1}, t2 \in {a.targets.target2, b.targets.target2}}

(* Mutant: a child keeps the geometry crossover built it with.             *)
ChildOfProfile(operator, lock, a, b, profile) ==
  IF lock THEN {profile} ELSE CrossedRisk(a, b)

ChildRisk(operator, lock, a, b, profile) == IF lock THEN {operator} ELSE CrossedRisk(a, b)

(* seed_risk, and what a mutation in next_generation makes of it.          *)
SeedRisk(operator, lock) == IF lock THEN {operator} ELSE SampledRisk(operator)

MutantRisk(parent, lock) == IF lock THEN {parent} ELSE MutatedRisk(parent)

-----------------------------------------------------------------------------
(* next_generation over candidate signatures in the order they are drawn:  *)
(* admit_unique keeps the first of each that was never seen, up to target. *)
Admit(pool, candidates, seen, target) ==
  FoldLeft(LAMBDA out, c : IF Len(out) >= target \/ c \in seen \/ Contains(out, c) THEN out
                           ELSE Append(out, c), pool, candidates)

(* Mutant: the survivors go through the admission of new candidates.       *)
SurvivorsAdmitted(survivors, seen) == Admit(<<>>, survivors, seen, Len(survivors))

Elite(survivors, seen) == survivors

(* The pool, in the order it is filled; perGen of it are kept.             *)
Pool(survivors, drawn, seen, perGen, poolTarget) ==
  LET elite == Elite(survivors, seen)
      mutated == Admit(elite, drawn.first, seen, perGen)
      crossed == Admit(mutated, drawn.crossed, seen, perGen)
      target == perGen + (poolTarget - perGen) \div 2
      explored == IF survivors = <<>> THEN crossed ELSE Admit(crossed, drawn.extra, seen, target)
  IN  Admit(explored, drawn.fresh, seen, poolTarget)

Generation(survivors, drawn, seen, perGen, poolTarget) ==
  LET pool == Pool(survivors, drawn, seen, perGen, poolTarget)
  IN  SubSeq(pool, 1, Min({perGen, Len(pool)}))
-----------------------------------------------------------------------------
Valid(g, catalog) ==
  /\ g # <<>> /\ Len(g) <= MaxPredicates
  /\ \A i, j \in DOMAIN g : g[i].key = g[j].key => i = j
  /\ \A i \in DOMAIN g : \E s \in catalog :
       s.key = g[i].key /\ s.layer = g[i].layer /\ Contains(s.values, g[i].threshold)

(* A genome never leaves what was observed: however seeds are mutated and  *)
(* crossed, the result reads distinct features of the catalog, at          *)
(* thresholds these features have had, and never none of them; and seeds   *)
(* meant to be promotable stay so until a mutation takes the trigger away. *)
BreedingStaysObserved(a, b, catalog) ==
  Valid(a, catalog) /\ Valid(b, catalog) =>
    /\ \A g \in Mutations(a, catalog) \cup Crossovers(a, b) : Valid(g, catalog)
    /\ HasActionable(a) /\ HasActionable(b) /\ Len(a) + Len(b) <= MaxPredicates =>
         \A g \in Crossovers(a, b) : HasActionable(g)

SeedsAreObserved(catalog, most) ==
  /\ \A g \in RandomGenomes(catalog, most) : Valid(g, catalog)
  /\ \A g \in PromotableSeeds(catalog, most) \cup ArchetypeSeeds(catalog) :
       Valid(g, catalog) /\ HasActionable(g)

ChildRisks(operator, lock, parents, profile) ==
  UNION {ChildRisk(operator, lock, a, b, profile) : a, b \in parents}

(* An operator who locks the geometry trades no other: not a seed's, not a *)
(* child's.  Left free, the search never gives up the stop, and never sets *)
(* a second target short of the first, except by mixing two parents.       *)
GeometryStaysTradeable(operator, profile) ==
  LET bred(lock) == UNION {{r} \cup MutantRisk(r, lock) : r \in SeedRisk(operator, lock)}
      children(lock) == ChildRisks(operator, lock, bred(lock), profile)
  IN  /\ bred(TRUE) \cup children(TRUE) = {operator}
      /\ \A r \in bred(FALSE) : r.targets.target2 > r.targets.target1
      /\ \A r \in bred(FALSE) \cup children(FALSE) : r.stop.by > 0 /\ r.targets.target1 > 0

(* Elitism and novelty: all survivors are carried, in their order and      *)
(* first, whatever else is kept was never created before, and no slot      *)
(* stays empty for want of a pool wider than the generation.               *)
GenerationIsEliteThenNew(survivors, drawn, seen, perGen, poolTarget) ==
  LET kept == Generation(survivors, drawn, seen, perGen, poolTarget)
      new == SubSeq(kept, Len(survivors) + 1, Len(kept))
      offered == ToSet(drawn.fresh) \ (seen \cup ToSet(survivors))
  IN  /\ IsPrefix(survivors, kept)
      /\ ToSet(new) \cap (seen \cup ToSet(survivors)) = {}
      /\ Cardinality(ToSet(new)) = Len(new)
      /\ Len(kept) = perGen \/ offered \subseteq ToSet(kept)

(* population.rs:516 reserves the rest of the pool for fresh seeds, so     *)
(* that they "stay represented" beside the mutations: a generation with    *)
(* room for two beyond its survivors keeps one of the new seeds offered.   *)
FreshSeedsStayRepresented(survivors, drawn, seen, perGen, poolTarget) ==
  LET kept == ToSet(Generation(survivors, drawn, seen, perGen, poolTarget))
      offered == ToSet(drawn.fresh) \ (seen \cup ToSet(drawn.extra))
  IN  survivors # <<>> /\ Len(survivors) + 2 <= perGen /\ perGen < poolTarget /\ offered # {} =>
        kept \cap offered # {}
=============================================================================
