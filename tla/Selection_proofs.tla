-------------------------- MODULE Selection_proofs --------------------------
(***************************************************************************)
(* Proofs about how genomes are bred, compared and promoted, and about the *)
(* features they read: the gate, the precision floor, the conviction of a  *)
(* cohort, its folds, the signature, the risk geometry, seeds, offspring   *)
(* and generations, the tradeability of a fund, the swing levels, the rank *)
(* of a volatility and the readings of a regime with series missing, and   *)
(* the drawdowns and verdicts of the detectors: for validations, counts,   *)
(* thresholds, catalogs, records, bars and amounts of any size.  The last  *)
(* part states what the runs check for all such inputs, and that those the *)
(* run enumerates are such.                                                *)
(***************************************************************************)
EXTENDS Backtest_proofs, MCAlgorithms

Validation == [dsr : Int, pbo : Int, expectancy : Int, regimes : Int]

(* gate.rs: a better validation never loses what a worse one was granted,  *)
(* and a failed one is granted nothing and says why.                       *)
THEOREM TheGateIsMonotone ==
  ASSUME NEW v \in Validation \cup {NoResult}, NEW w \in Validation \cup {NoResult}
  PROVE  GateIsMonotone(v, w)
<1>1. GateOpt(v).passed <=> GateOpt(v).reasons = {}
  BY DEF GateOpt, Gate
<1>2. v = NoResult => ~GateOpt(v).passed
  BY DEF GateOpt
<1>3. ASSUME v # NoResult, w # NoResult, v.dsr <= w.dsr, v.pbo >= w.pbo,
             v.expectancy <= w.expectancy, v.regimes <= w.regimes
      PROVE  GateOpt(w).reasons \subseteq GateOpt(v).reasons
  <2>1. GateOpt(v) = Gate(v) /\ GateOpt(w) = Gate(w)
    BY <1>3 DEF GateOpt
  <2>2. /\ v.dsr \in Int /\ v.pbo \in Int /\ v.expectancy \in Int /\ v.regimes \in Int
        /\ w.dsr \in Int /\ w.pbo \in Int /\ w.expectancy \in Int /\ w.regimes \in Int
    BY <1>3 DEF Validation
  <2> SUFFICES ASSUME NEW reason \in Gate(w).reasons
               PROVE  reason \in Gate(v).reasons
    BY <2>1
  <2> QED
    BY <1>3, <2>2 DEF Gate
<1> QED
  BY <1>1, <1>2, <1>3 DEF GateIsMonotone

-----------------------------------------------------------------------------
LEMMA MinOfTwo ==
  ASSUME NEW a \in Int, NEW b \in Int
  PROVE  Min({a, b}) = IF a <= b THEN a ELSE b
<1> DEFINE m == IF a <= b THEN a ELSE b
<1>1. m \in {a, b} /\ \A y \in {a, b} : m <= y
  OBVIOUS
<1>2. \A x \in {a, b} : (\A y \in {a, b} : x <= y) => x = m
  OBVIOUS
<1> HIDE DEF m
<1>3. Min({a, b}) = m
  BY <1>1, <1>2 DEF Min
<1> QED
  BY <1>3 DEF m

LEMMA MaxOfTwo ==
  ASSUME NEW a \in Int, NEW b \in Int
  PROVE  Max({a, b}) = IF a >= b THEN a ELSE b
<1> DEFINE m == IF a >= b THEN a ELSE b
<1>1. m \in {a, b} /\ \A y \in {a, b} : m >= y
  OBVIOUS
<1>2. \A x \in {a, b} : (\A y \in {a, b} : x >= y) => x = m
  OBVIOUS
<1> HIDE DEF m
<1>3. Max({a, b}) = m
  BY <1>1, <1>2 DEF Max
<1> QED
  BY <1>3 DEF m

(* conviction.rs: the conviction shown without a measured precision is the *)
(* hit rate that earns the expectancy, for every expectancy and reward.    *)
THEOREM EveryConvictionEarnsItsExpectancy ==
  ASSUME NEW e \in Int, NEW b \in Int
  PROVE  ConvictionEarnsTheExpectancy(e, b)
<1> DEFINE reward == IF b > 0 THEN b ELSE 10
<1> DEFINE whole == reward + 10
<1> DEFINE top == IF e + 10 <= whole THEN e + 10 ELSE whole
<1> DEFINE won == IF 0 >= top THEN 0 ELSE top
<1>1. whole \in Int /\ whole > 0 /\ e + 10 \in Int /\ top \in Int
  OBVIOUS
<1>2. Min({e + 10, whole}) = top
  <2> HIDE DEF whole
  <2> QED
    BY <1>1, MinOfTwo
<1>3. Max({0, top}) = won
  <2> HIDE DEF top
  <2> QED
    BY <1>1, MaxOfTwo
<1>4. CohortConviction(e, b) = <<won, whole>>
  <2>1. CohortConviction(e, b) = <<Max({0, Min({e + 10, whole})}), whole>>
    BY DEF CohortConviction, OfRewardAndRisk
  <2> HIDE DEF won, top, whole
  <2> QED
    BY <1>2, <1>3, <2>1
<1>5. 0 <= won /\ won <= whole
  OBVIOUS
<1>6. ASSUME b > 0, 0 < won, won < whole
      PROVE  won * b - (whole - won) * 10 = e * whole
  <2>1. won = e + 10 /\ whole = b + 10
    BY <1>6
  <2>2. (e + 10) * b - ((b + 10) - (e + 10)) * 10 = e * (b + 10)
    OBVIOUS
  <2> HIDE DEF won, whole
  <2> QED
    BY <2>1, <2>2
<1> HIDE DEF won, whole
<1> QED
  BY <1>4, <1>5, <1>6 DEF ConvictionEarnsTheExpectancy
-----------------------------------------------------------------------------
(* The score test behind the Wilson bound: one polynomial, factored.       *)
Gap(wins, n) == 20 * wins - 9 * n
Test(wins, n) == 10 * Gap(wins, n) * Gap(wins, n) - 3762 * n

LEMMA WilsonFactors ==
  ASSUME NEW wins \in Int, NEW n \in Int
  PROVE  /\ Centre(wins, n) = 20 * Gap(wins, n) + 76
         /\ n * Centre(wins, n) * Centre(wins, n) - Margin2(wins, n)
              = (40 * n + 152) * Test(wins, n)
<1>1. Centre(wins, n) = 20 * Gap(wins, n) + 76
  BY DEF Centre, Gap
<1>2. n * (400 * wins - 180 * n + 76) * (400 * wins - 180 * n + 76)
        - 400 * 38 * (40 * wins * (n - wins) + 38 * n)
      = (40 * n + 152) * (10 * (20 * wins - 9 * n) * (20 * wins - 9 * n) - 3762 * n)
  OBVIOUS
<1>3. Centre(wins, n) = 400 * wins - 180 * n + 76
  BY DEF Centre
<1> QED
  BY <1>1, <1>2, <1>3 DEF Margin2, Test, Gap

LEMMA SignOfProduct ==
  ASSUME NEW a \in Int, NEW b \in Int, a > 0
  PROVE  a * b >= 0 <=> b >= 0
OBVIOUS

(* The bound clears the floor exactly when the score test at the floor     *)
(* does.                                                                   *)
LEMMA WilsonIsTheScoreTest ==
  ASSUME NEW wins \in Nat, NEW n \in Nat
  PROVE  WilsonClears(wins, n) <=> (n > 0 /\ Gap(wins, n) >= 0 /\ Test(wins, n) >= 0)
<1> DEFINE g == Gap(wins, n)
<1> DEFINE t == Test(wins, n)
<1> DEFINE f == 40 * n + 152
<1> DEFINE c == Centre(wins, n)
<1> DEFINE lhs == n * c * c
<1> DEFINE m == Margin2(wins, n)
<1>1. /\ g \in Int /\ t \in Int /\ f \in Int /\ f > 0 /\ c \in Int /\ lhs \in Int /\ m \in Int
      /\ t = 10 * g * g - 3762 * n
  BY DEF Gap, Test, Centre, Margin2
<1>2. c = 20 * g + 76 /\ lhs - m = f * t
  BY WilsonFactors
<1>3. WilsonClears(wins, n) <=> (n > 0 /\ c >= 0 /\ lhs >= m)
  BY DEF WilsonClears
<1> HIDE DEF g, t, f, c, lhs, m
<1>4. lhs >= m <=> t >= 0
  <2>1. f * t >= 0 <=> t >= 0
    BY <1>1, SignOfProduct
  <2>2. lhs >= m <=> f * t >= 0
    <3> DEFINE x == f * t
    <3>1. x \in Int /\ lhs - m = x
      BY <1>1, <1>2
    <3> HIDE DEF x
    <3>2. lhs >= m <=> x >= 0
      BY <1>1, <3>1
    <3> QED
      BY <3>2 DEF x
  <2> QED
    BY <2>1, <2>2
<1>5. ASSUME n > 0, c >= 0, t >= 0
      PROVE  g >= 0
  <2> SUFFICES ASSUME g < 0 PROVE FALSE
    BY <1>1
  <2>1. g = -1 \/ g = -2 \/ g = -3
    BY <1>1, <1>2, <1>5
  <2>2. g * g <= 9 /\ g * g \in Int
    BY <2>1
  <2>3. t <= 90 - 3762 * n
    BY <1>1, <2>1, <2>2
  <2> QED
    BY <1>1, <1>5, <2>3
<1>6. g >= 0 => c >= 0
  BY <1>1, <1>2
<1> QED
  BY <1>3, <1>4, <1>5, <1>6 DEF g, t

LEMMA SquareOfElevenMore ==
  ASSUME NEW x \in Int
  PROVE  10 * (x + 11) * (x + 11) = 10 * (x * x) + 220 * x + 1210
OBVIOUS

LEMMA FloorOfCounts ==
  ASSUME NEW wins \in Nat, NEW n \in Nat
  PROVE  FloorNeedsEvidence(wins, n)
<1> DEFINE g == Gap(wins, n)
<1>1. g \in Int /\ g = 20 * wins - 9 * n /\ Test(wins, n) = 10 * g * g - 3762 * n
  BY DEF Gap, Test
<1>2. WilsonClears(wins, n) <=> (n > 0 /\ g >= 0 /\ 10 * g * g - 3762 * n >= 0)
  BY <1>1, WilsonIsTheScoreTest
<1>3. WilsonClears(wins, n) <=> (n > 0 /\ g >= 0 /\ 10 * g * g >= 38 * 99 * n)
  <2> DEFINE q == 10 * g * g
  <2>1. q \in Int
    BY <1>1
  <2> HIDE DEF g, q
  <2>2. q - 3762 * n >= 0 <=> q >= 38 * 99 * n
    BY <2>1
  <2> QED
    BY <1>2, <2>2 DEF q
<1>4. /\ Gap(2 * wins, 2 * n) = 2 * g
      /\ Test(2 * wins, 2 * n) = 40 * g * g - 7524 * n
      /\ Gap(wins + 1, n + 1) = g + 11
      /\ Test(wins + 1, n + 1) = 10 * (g + 11) * (g + 11) - 3762 * (n + 1)
  BY DEF Gap, Test
<1>5. ASSUME WilsonClears(wins, n)
      PROVE  /\ WilsonClears(2 * wins, 2 * n)
             /\ WilsonClears(wins + 1, n + 1)
             /\ n = 8 => 2 * wins > n
  <2> DEFINE q == g * g
  <2>1. q \in Int /\ g \in Nat /\ n > 0 /\ 10 * q >= 3762 * n
    BY <1>1, <1>2, <1>5
  <2>2. g >= 19
    <3> SUFFICES ASSUME g <= 18 PROVE FALSE
      BY <1>1
    <3>1. q <= 18 * 18
      BY <2>1
    <3> HIDE DEF q
    <3> QED
      BY <2>1, <3>1
  <2>3. WilsonClears(2 * wins, 2 * n)
    <3>1. 40 * g * g - 7524 * n >= 0
      <4>1. 40 * g * g = 40 * q
        BY <1>1
      <4> HIDE DEF q, g
      <4>2. 40 * q - 7524 * n >= 0
        BY <2>1
      <4> QED
        BY <4>1, <4>2
    <3> HIDE DEF g, q
    <3>2. 2 * g >= 0 /\ 2 * n > 0 /\ 2 * wins \in Nat /\ 2 * n \in Nat
      BY <2>1
    <3> QED
      BY <1>4, <3>1, <3>2, WilsonIsTheScoreTest
  <2>4. WilsonClears(wins + 1, n + 1)
    <3>1. 10 * (g + 11) * (g + 11) - 3762 * (n + 1) >= 0
      <4> DEFINE square == 10 * (g + 11) * (g + 11)
      <4>1. g \in Int
        BY <1>1
      <4> HIDE DEF g
      <4>2. square = 10 * (g * g) + 220 * g + 1210
        BY <4>1, SquareOfElevenMore
      <4> HIDE DEF square
      <4>3. square = 10 * q + 220 * g + 1210
        BY <4>2
      <4> HIDE DEF q
      <4> SUFFICES square - 3762 * (n + 1) >= 0
        BY DEF square
      <4> QED
        BY <2>1, <2>2, <4>3
    <3> HIDE DEF g, q
    <3>2. g + 11 >= 0 /\ n + 1 > 0 /\ wins + 1 \in Nat /\ n + 1 \in Nat
      BY <2>1
    <3> QED
      BY <1>4, <3>1, <3>2, WilsonIsTheScoreTest
  <2>5. ASSUME n = 8 PROVE 2 * wins > n
    <3>1. g >= 50
      <4> SUFFICES ASSUME g <= 49 PROVE FALSE
        BY <1>1
      <4>1. q <= 49 * 49
        BY <2>1
      <4> HIDE DEF q
      <4> QED
        BY <2>1, <2>5, <4>1
    <3> QED
      BY <1>1, <2>5, <3>1
  <2> QED
    BY <2>3, <2>4, <2>5
<1> QED
  BY <1>3, <1>5 DEF FloorNeedsEvidence, Gap

(* score.rs: whatever the counts, the precision floor is one of evidence.  *)
THEOREM TheFloorNeedsEvidence ==
  ASSUME NEW wins \in Nat, NEW n \in Int
  PROVE  FloorNeedsEvidence(wins, n)
<1>1. CASE n > 0
  <2>1. n \in Nat
    BY <1>1
  <2> QED
    BY <2>1, FloorOfCounts
<1>2. CASE ~(n > 0)
  <2>1. ~WilsonClears(wins, n)
    BY <1>2 DEF WilsonClears
  <2> QED
    BY <1>2, <2>1 DEF FloorNeedsEvidence
<1> QED
  BY <1>1, <1>2
-----------------------------------------------------------------------------
(* Risk geometry.  What a stop and a pair of targets may be, before and    *)
(* after two parents are mixed.                                            *)
Stops == [kind : {"atr", "fixed", "pct"}, by : Nat \ {0}]
TargetPairs == [target1 : Nat \ {0}, target2 : Nat \ {0}]
Risks == [stop : Stops, targets : TargetPairs]

LEMMA JitterIsPositive ==
  ASSUME NEW v \in Nat
  PROVE  Jitter(v) \in SUBSET (Nat \ {0})
<1> SUFFICES ASSUME NEW f \in {75, 100, 125}
             PROVE  Max({1, (v * f) \div 100}) \in Nat \ {0}
  BY DEF Jitter
<1> DEFINE q == (v * f) \div 100
<1>1. q \in Int
  OBVIOUS
<1> HIDE DEF q
<1>2. Max({1, q}) \in Nat \ {0}
  <2>1. Max({1, q}) = IF 1 >= q THEN 1 ELSE q
    BY <1>1, MaxOfTwo
  <2> QED
    BY <1>1, <2>1
<1> QED
  BY <1>2 DEF q

LEMMA RestoppedIsStop ==
  ASSUME NEW stop \in Stops
  PROVE  Restopped(stop) \in SUBSET Stops /\ SwappedKind(stop) \in SUBSET Stops
<1>1. AtrStops \in SUBSET Stops
  BY DEF AtrStops, StopMults, Stops
<1>2. \A v \in Jitter(stop.by) : [kind |-> stop.kind, by |-> v] \in Stops
  BY JitterIsPositive DEF Stops
<1>3. Restopped(stop) \in SUBSET Stops
  BY <1>1, <1>2 DEF Restopped
<1>4. /\ {[kind |-> "pct", by |-> v] : v \in 4..12} \in SUBSET Stops
      /\ {[kind |-> "fixed", by |-> v] : v \in 8..32} \in SUBSET Stops
  BY DEF Stops
<1> QED
  BY <1>1, <1>3, <1>4 DEF SwappedKind

LEMMA TargetsAreApart ==
  ASSUME NEW r1 \in TargetMults
  PROVE  Targets(r1) \in TargetPairs /\ Targets(r1).target2 > Targets(r1).target1
<1>1. r1 \in Nat \ {0} /\ r1 + 4 \in Int /\ r1 < 20
  BY DEF TargetMults
<1>2. Min({r1 + 4, 20}) = IF r1 + 4 <= 20 THEN r1 + 4 ELSE 20
  BY <1>1, MinOfTwo
<1> QED
  BY <1>1, <1>2 DEF Targets, TargetPairs

(* Sampled and mutated geometry: a stop, and a second target past the      *)
(* first.                                                                  *)
Spaced == {risk \in Risks : risk.targets.target2 > risk.targets.target1}

LEMMA SampledIsSpaced ==
  ASSUME NEW operator \in Risks
  PROVE  SampledRisk(operator) \in SUBSET Spaced
<1> SUFFICES ASSUME NEW s \in Restopped(operator.stop), NEW r \in TargetMults
             PROVE  [stop |-> s, targets |-> Targets(r)] \in Spaced
  BY DEF SampledRisk
<1>1. s \in Stops
  BY RestoppedIsStop DEF Risks
<1> QED
  BY <1>1, TargetsAreApart DEF Spaced, Risks

LEMMA MutatedIsSpaced ==
  ASSUME NEW risk \in Spaced
  PROVE  MutatedRisk(risk) \in SUBSET Spaced
<1>1. risk \in Risks /\ risk.targets.target2 > risk.targets.target1
  BY DEF Spaced
<1>2. ASSUME NEW s \in Restopped(risk.stop) \cup SwappedKind(risk.stop)
      PROVE  [risk EXCEPT !.stop = s] \in Spaced
  <2>1. s \in Stops
    BY <1>1, RestoppedIsStop DEF Risks
  <2> QED
    BY <1>1, <2>1 DEF Spaced, Risks
<1>3. ASSUME NEW r \in TargetMults
      PROVE  [risk EXCEPT !.targets = Targets(r)] \in Spaced
  BY <1>1, TargetsAreApart DEF Spaced, Risks
<1> QED
  BY <1>2, <1>3 DEF MutatedRisk

(* risk_search.rs: an operator who locks the geometry trades no other;     *)
(* left free, no stop and no target is ever given up, and only crossover   *)
(* can set a second target short of the first.                             *)
THEOREM EveryGeometryStaysTradeable ==
  ASSUME NEW operator \in Risks, NEW profile
  PROVE  GeometryStaysTradeable(operator, profile)
<1> DEFINE locked == UNION {{r} \cup MutantRisk(r, TRUE) : r \in SeedRisk(operator, TRUE)}
<1> DEFINE free == UNION {{r} \cup MutantRisk(r, FALSE) : r \in SeedRisk(operator, FALSE)}
<1> DEFINE copies == ChildRisks(operator, TRUE, locked, profile)
<1> DEFINE children == ChildRisks(operator, FALSE, free, profile)
<1>1. locked = {operator}
  BY DEF SeedRisk, MutantRisk
<1>2. free \in SUBSET Spaced
  <2> SUFFICES ASSUME NEW r \in SampledRisk(operator)
               PROVE  {r} \cup MutatedRisk(r) \in SUBSET Spaced
    BY DEF SeedRisk, MutantRisk
  <2>1. r \in Spaced
    BY SampledIsSpaced
  <2> QED
    BY <2>1, MutatedIsSpaced
<1>3. copies = {operator}
  <2> HIDE DEF locked
  <2>1. copies = UNION {{operator} : a, b \in locked}
    BY DEF ChildRisks, ChildRisk
  <2> HIDE DEF copies
  <2> QED
    BY <1>1, <2>1
<1>4. children \in SUBSET Risks
  <2> HIDE DEF free
  <2>1. children = UNION {CrossedRisk(a, b) : a, b \in free}
    BY DEF ChildRisks, ChildRisk
  <2> HIDE DEF children
  <2>2. \A a, b \in free : CrossedRisk(a, b) \in SUBSET Risks
    <3> SUFFICES ASSUME NEW a \in free, NEW b \in free
                 PROVE  CrossedRisk(a, b) \in SUBSET Risks
      OBVIOUS
    <3>1. a \in Risks /\ b \in Risks
      BY <1>2 DEF Spaced
    <3> QED
      BY <3>1 DEF CrossedRisk, Risks, TargetPairs
  <2> QED
    BY <2>1, <2>2
<1>5. \A r \in Risks : r.stop.by > 0 /\ r.targets.target1 > 0
  BY DEF Risks, Stops, TargetPairs
<1> SUFFICES /\ locked \cup copies = {operator}
             /\ \A r \in free : r.targets.target2 > r.targets.target1
             /\ \A r \in free \cup children : r.stop.by > 0 /\ r.targets.target1 > 0
  BY DEF GeometryStaysTradeable
<1> HIDE DEF locked, free, copies, children
<1> QED
  BY <1>1, <1>2, <1>3, <1>4, <1>5 DEF Spaced
-----------------------------------------------------------------------------
(* Signatures.  Genomes over any feature keys.                             *)
Predicate(K) == [key : K, op : {"gt", "lt", "gte", "lte"}, threshold : Int]
Figure == [kind : {"atr", "fixed", "pct", "r"}, by : Int]
RiskFigures == UNION {[B -> Figure] : B \in {{"stop", "target1"}, {"stop", "target1", "target2"}}}
Genome(K) ==
  [side : {"long", "short"}, horizon : DOMAIN Profiles, risk : RiskFigures, predicates : Seq(Predicate(K))]

Tokens(predicates) == {Token(predicates[i]) : i \in DOMAIN predicates}
Places(predicates, t) == {i \in DOMAIN predicates : Token(predicates[i]) = t}

LEMMA SignatureUnfolds ==
  ASSUME NEW g
  PROVE  Signature(g) =
           [side |-> g.side, horizon |-> g.horizon, risk |-> Described(g.risk),
            predicates |-> [t \in Tokens(g.predicates) |-> Cardinality(Places(g.predicates, t))]]
BY DEF Signature, Tokens, Places

(* Reversal keeps the bag of tokens.                                       *)
LEMMA ReversedTokens ==
  ASSUME NEW S, NEW ps \in Seq(S)
  PROVE  /\ Tokens(Reverse(ps)) = Tokens(ps)
         /\ \A t : Cardinality(Places(Reverse(ps), t)) = Cardinality(Places(ps, t))
<1> DEFINE n == Len(ps)
<1> DEFINE rev == Reverse(ps)
<1>1. n \in Nat /\ DOMAIN ps = 1..n
  BY LenProperties
<1>2. DOMAIN rev = 1..n /\ \A i \in 1..n : rev[i] = ps[(n - i) + 1]
  BY DEF Reverse
<1> HIDE DEF n, rev
<1>3. \A i \in 1..n : (n - i) + 1 \in 1..n /\ (n - ((n - i) + 1)) + 1 = i
  BY <1>1
<1>4. Tokens(rev) = Tokens(ps)
  <2>1. ASSUME NEW t \in Tokens(rev) PROVE t \in Tokens(ps)
    BY <1>1, <1>2, <1>3 DEF Tokens
  <2>2. ASSUME NEW t \in Tokens(ps) PROVE t \in Tokens(rev)
    <3>1. PICK i \in 1..n : t = Token(ps[i])
      BY <1>1 DEF Tokens
    <3>2. rev[(n - i) + 1] = ps[i] /\ (n - i) + 1 \in 1..n
      BY <1>2, <1>3
    <3> QED
      BY <1>2, <3>1, <3>2 DEF Tokens
  <2> QED
    BY <2>1, <2>2
<1>5. ASSUME NEW t
      PROVE  Cardinality(Places(rev, t)) = Cardinality(Places(ps, t))
  <2> DEFINE S1 == Places(ps, t)
  <2> DEFINE S2 == Places(rev, t)
  <2> DEFINE f == [i \in S1 |-> (n - i) + 1]
  <2>1. S1 = {i \in 1..n : Token(ps[i]) = t} /\ S2 = {i \in 1..n : Token(rev[i]) = t}
    BY <1>1, <1>2 DEF Places
  <2>2. IsFiniteSet(S1)
    <3>1. S1 \in SUBSET (1..n)
      BY <2>1
    <3> QED
      BY <1>1, <3>1, FS_Interval, FS_Subset
  <2> HIDE DEF S1, S2
  <2>3. f \in [S1 -> S2]
    <3> SUFFICES ASSUME NEW i \in S1 PROVE (n - i) + 1 \in S2
      OBVIOUS
    <3>1. i \in 1..n /\ Token(ps[i]) = t
      BY <2>1
    <3>2. (n - i) + 1 \in 1..n /\ rev[(n - i) + 1] = ps[i]
      BY <1>2, <1>3, <3>1
    <3> QED
      BY <2>1, <3>1, <3>2
  <2>4. \A a, b \in S1 : f[a] = f[b] => a = b
    <3> SUFFICES ASSUME NEW a \in S1, NEW b \in S1, (n - a) + 1 = (n - b) + 1
                 PROVE  a = b
      OBVIOUS
    <3> QED
      BY <1>1, <2>1
  <2>5. \A j \in S2 : \E i \in S1 : f[i] = j
    <3> SUFFICES ASSUME NEW j \in S2 PROVE \E i \in S1 : (n - i) + 1 = j
      OBVIOUS
    <3>1. j \in 1..n /\ Token(rev[j]) = t
      BY <2>1
    <3>2. (n - j) + 1 \in S1 /\ (n - ((n - j) + 1)) + 1 = j
      BY <1>2, <1>3, <2>1, <3>1
    <3> QED
      BY <3>2
  <2> HIDE DEF f
  <2>6. f \in Bijection(S1, S2)
    BY <2>3, <2>4, <2>5, Fun_IsBij
  <2>7. ExistsBijection(S1, S2)
    BY <2>6, Fun_ExistsBij
  <2>8. Cardinality(S2) = Cardinality(S1)
    BY <2>2, <2>7, FS_Bijection
  <2> QED
    BY <2>8 DEF S1, S2
<1> QED
  BY <1>4, <1>5 DEF rev

(* Thresholds with one rounding are less than a step apart.                *)
LEMMA SameRounding ==
  ASSUME NEW s \in Int, NEW t \in Int, RoundThreshold(s) = RoundThreshold(t)
  PROVE  s - t \in -3..3
<1>1. ASSUME NEW x \in Int
      PROVE  \/ x >= 0 /\ RoundThreshold(x) = (x + 2) \div 4
             \/ x < 0 /\ RoundThreshold(x) = -((2 - x) \div 4)
  <2>1. (x + 2) \div 4 \in Int /\ (-x + 2) \div 4 \in Int /\ -x + 2 = 2 - x
    OBVIOUS
  <2>2. CASE x < 0
    <3>1. RoundThreshold(x) = (-1) * ((-x + 2) \div 4)
      BY <2>2 DEF RoundThreshold, Sign, AbsInt
    <3> QED
      BY <2>1, <2>2, <3>1
  <2>3. CASE x >= 0
    <3>1. RoundThreshold(x) = 1 * ((x + 2) \div 4)
      BY <2>3 DEF RoundThreshold, Sign, AbsInt
    <3> QED
      BY <2>1, <2>3, <3>1
  <2> QED
    BY <2>2, <2>3
<1> QED
  BY <1>1

(* Away from both thresholds, either predicate decides as the other does.  *)
LEMMA ClearlyAlike ==
  ASSUME NEW K, NEW p \in Predicate(K), NEW q \in Predicate(K), NEW x \in Int,
         Token(p) = Token(q), AbsInt(x - p.threshold) > 4, AbsInt(x - q.threshold) > 4
  PROVE  p.key = q.key /\ (Holds(p, x) <=> Holds(q, x))
<1>1. p.key = q.key /\ p.op = q.op /\ RoundThreshold(p.threshold) = RoundThreshold(q.threshold)
  BY DEF Token
<1> DEFINE s == p.threshold
<1> DEFINE t == q.threshold
<1>2. s \in Int /\ t \in Int /\ p.op \in {"gt", "lt", "gte", "lte"}
  BY DEF Predicate
<1>3. s - t \in -3..3
  BY <1>1, <1>2, SameRounding
<1>4. (x - s < -4 \/ x - s > 4) /\ (x - t < -4 \/ x - t > 4)
  BY <1>2 DEF AbsInt
<1> HIDE DEF s, t
<1>5. /\ x > s <=> x > t
      /\ x < s <=> x < t
      /\ x >= s <=> x >= t
      /\ x <= s <=> x <= t
  BY <1>2, <1>3, <1>4
<1>6. Holds(p, x) <=> Holds(q, x)
  BY <1>1, <1>2, <1>5 DEF Holds, s, t
<1> QED
  BY <1>1, <1>6

Clear(genome, features) ==
  \A i \in DOMAIN genome.predicates :
    genome.predicates[i].key \in DOMAIN features =>
      AbsInt(features[genome.predicates[i].key] - genome.predicates[i].threshold) > 4

LEMMA OneFiresTheOther ==
  ASSUME NEW K, NEW g \in Genome(K), NEW h \in Genome(K),
         NEW F, NEW features \in [F -> Int],
         Tokens(g.predicates) = Tokens(h.predicates),
         Clear(g, features), Clear(h, features), Fires(g, features)
  PROVE  Fires(h, features)
<1> DEFINE ps == g.predicates
<1> DEFINE qs == h.predicates
<1>1. ps \in Seq(Predicate(K)) /\ qs \in Seq(Predicate(K))
  BY DEF Genome
<1>2. /\ DOMAIN ps = 1..Len(ps) /\ DOMAIN qs = 1..Len(qs)
      /\ \A i \in DOMAIN ps : ps[i] \in Predicate(K)
      /\ \A i \in DOMAIN qs : qs[i] \in Predicate(K)
  BY <1>1, LenProperties, ElementOfSeq
<1>3. DOMAIN features = F /\ \A k \in F : features[k] \in Int
  OBVIOUS
<1>4. ps # <<>> /\ \A i \in DOMAIN ps : ps[i].key \in F /\ Holds(ps[i], features[ps[i].key])
  BY <1>3 DEF Fires
<1>5. qs # <<>>
  <2>1. DOMAIN ps # {}
    BY <1>1, <1>4, EmptySeq, LenProperties
  <2>2. Tokens(ps) # {}
    BY <2>1 DEF Tokens
  <2>3. DOMAIN qs # {}
    BY <2>2 DEF Tokens
  <2>4. Len(qs) # 0
    BY <1>2, <2>3
  <2> QED
    BY <2>4
<1>6. ASSUME NEW i \in DOMAIN qs
      PROVE  qs[i].key \in F /\ Holds(qs[i], features[qs[i].key])
  <2>1. Token(qs[i]) \in Tokens(ps)
    BY DEF Tokens
  <2>2. PICK j \in DOMAIN ps : Token(ps[j]) = Token(qs[i])
    BY <2>1 DEF Tokens
  <2> DEFINE p == ps[j]
  <2> DEFINE q == qs[i]
  <2>3. p \in Predicate(K) /\ q \in Predicate(K) /\ p.key \in F /\ Holds(p, features[p.key])
    BY <1>2, <1>4
  <2>4. p.key = q.key
    BY <2>2 DEF Token
  <2>5. AbsInt(features[p.key] - p.threshold) > 4 /\ AbsInt(features[p.key] - q.threshold) > 4
    BY <1>3, <2>3, <2>4 DEF Clear
  <2>6. features[p.key] \in Int
    BY <1>3, <2>3
  <2> HIDE DEF p, q
  <2>7. Token(p) = Token(q)
    BY <2>2 DEF p, q
  <2>8. Holds(q, features[p.key])
    BY <2>3, <2>5, <2>6, <2>7, ClearlyAlike
  <2> QED
    BY <2>3, <2>4, <2>8 DEF q
<1> QED
  BY <1>3, <1>5, <1>6 DEF Fires

LEMMA RoundedIsClose ==
  ASSUME NEW a \in Int, NEW b \in Int, RoundThreshold(a) = RoundThreshold(b)
  PROVE  AbsInt(a - b) <= 3
BY DEF RoundThreshold, AbsInt, Sign

LEMMA DescribedAlike ==
  ASSUME NEW r \in RiskFigures, NEW s \in RiskFigures, Described(r) = Described(s)
  PROVE  /\ DOMAIN r = DOMAIN s
         /\ \A b \in DOMAIN r : r[b].kind = s[b].kind /\ AbsInt(r[b].by - s[b].by) <= 3
<1>1. DOMAIN r = DOMAIN s
  <2>1. DOMAIN Described(r) = DOMAIN r /\ DOMAIN Described(s) = DOMAIN s
    BY DEF Described
  <2> QED
    BY <2>1
<1>2. ASSUME NEW b \in DOMAIN r
      PROVE  r[b].kind = s[b].kind /\ AbsInt(r[b].by - s[b].by) <= 3
  <2>1. /\ Described(r)[b] = <<r[b].kind, RoundThreshold(r[b].by)>>
        /\ Described(s)[b] = <<s[b].kind, RoundThreshold(s[b].by)>>
    BY <1>1, <1>2 DEF Described
  <2>2. r[b].kind = s[b].kind /\ RoundThreshold(r[b].by) = RoundThreshold(s[b].by)
    BY <2>1
  <2>3. r[b].by \in Int /\ s[b].by \in Int
    BY <1>1, <1>2 DEF RiskFigures, Figure
  <2> QED
    BY <2>2, <2>3, RoundedIsClose
<1> QED
  BY <1>1, <1>2

(* score.rs: the order of the predicates does not matter to a signature,   *)
(* and genomes that share one decide alike on every observation that is    *)
(* not within a rounding step of a threshold, missing features included,   *)
(* and have barriers of one kind within a rounding step of each other.     *)
THEOREM EverySignatureIsBehaviour ==
  ASSUME NEW K, NEW g \in Genome(K), NEW h \in Genome(K), NEW F, NEW features \in [F -> Int]
  PROVE  SignatureIsBehaviour(g, h, features)
<1> DEFINE turned == [g EXCEPT !.predicates = Reverse(@)]
<1>1. Signature(g) = Signature(turned)
  <2>1. /\ turned.side = g.side /\ turned.horizon = g.horizon /\ turned.risk = g.risk
        /\ turned.predicates = Reverse(g.predicates)
        /\ g.predicates \in Seq(Predicate(K))
    BY DEF Genome
  <2>2. /\ Tokens(turned.predicates) = Tokens(g.predicates)
        /\ \A t : Cardinality(Places(turned.predicates, t)) = Cardinality(Places(g.predicates, t))
    BY <2>1, ReversedTokens
  <2> HIDE DEF turned
  <2> QED
    BY <2>1, <2>2, SignatureUnfolds
<1>2. ASSUME Signature(g) = Signature(h), Clear(g, features), Clear(h, features)
      PROVE  g.side = h.side /\ (Fires(g, features) <=> Fires(h, features))
  <2>1. g.side = h.side
    BY <1>2 DEF Signature
  <2>2. DOMAIN Signature(g).predicates = DOMAIN Signature(h).predicates
    BY <1>2
  <2>3. Tokens(g.predicates) = Tokens(h.predicates)
    BY <2>2, SignatureUnfolds
  <2> QED
    BY <1>2, <2>1, <2>3, OneFiresTheOther
<1>3. ASSUME Signature(g) = Signature(h)
      PROVE  /\ g.horizon = h.horizon /\ DOMAIN g.risk = DOMAIN h.risk
             /\ \A b \in DOMAIN g.risk :
                  g.risk[b].kind = h.risk[b].kind /\ AbsInt(g.risk[b].by - h.risk[b].by) <= 3
  <2>1. g.horizon = h.horizon /\ Described(g.risk) = Described(h.risk)
    BY <1>3 DEF Signature
  <2>2. g.risk \in RiskFigures /\ h.risk \in RiskFigures
    BY DEF Genome
  <2> QED
    BY <2>1, <2>2, DescribedAlike
<1> HIDE DEF turned
<1> QED
  BY <1>1, <1>2, <1>3 DEF SignatureIsBehaviour, Clear, turned

-----------------------------------------------------------------------------
Amount == Int \cup {NoFeature}
Fund == [adv : Int, aum : Amount, gex : Amount, oi : Amount]

LEMMA ClampIs ==
  ASSUME NEW t \in Int
  PROVE  Clamp01(t) = IF t < 0 THEN 0 ELSE IF t <= 10 THEN t ELSE 10
<1>1. Min({t, 10}) = IF t <= 10 THEN t ELSE 10
  BY MinOfTwo
<1>2. Min({t, 10}) \in Int
  BY <1>1
<1>3. Max({0, Min({t, 10})}) = IF 0 >= Min({t, 10}) THEN 0 ELSE Min({t, 10})
  BY <1>2, MaxOfTwo
<1> QED
  BY <1>1, <1>3 DEF Clamp01

(* layer0_tradeability.rs: the gate fails a fund exactly when it says why,  *)
(* and a fund larger in every respect observed neither scores less nor     *)
(* fails where the smaller passes.                                         *)
THEOREM LargerFundsDoPass ==
  ASSUME NEW small \in Fund, NEW large \in Fund
  PROVE  TradeabilityIsMonotone(small, large)
<1> USE FeatureAssumption DEF Fund, Amount
<1>1. \A x \in Fund : Tradeability(x).passed <=> Tradeability(x).reasons \subseteq {"large hand unobserved"}
  <2> SUFFICES ASSUME NEW x \in Fund
               PROVE  ~HardFail(x) <=> Reasons(x) \subseteq {"large hand unobserved"}
    BY DEF Tradeability
  <2>1. /\ "adv" \in Reasons(x) <=> x.adv < 0
        /\ "aum unavailable" \in Reasons(x) <=> x.aum = NoFeature
        /\ "aum" \in Reasons(x) <=> x.aum # NoFeature /\ x.aum < 0
    BY DEF Reasons
  <2>2. Reasons(x) \subseteq {"adv", "aum", "aum unavailable", "large hand unobserved"}
    BY DEF Reasons
  <2> HIDE DEF Fund, Amount
  <2>3. Reasons(x) \subseteq {"large hand unobserved"}
          <=> Reasons(x) \cap {"adv", "aum", "aum unavailable"} = {}
    BY <2>2
  <2> QED
    BY <2>1, <2>3 DEF HardFail
<1>2. ASSUME /\ small.adv <= large.adv
             /\ small.aum = NoFeature \/
                  IF small.aum = NoFeature \/ large.aum = NoFeature THEN small.aum = large.aum
                  ELSE small.aum <= large.aum
             /\ IF small.gex = NoFeature \/ large.gex = NoFeature THEN small.gex = large.gex
                ELSE small.gex <= large.gex
             /\ IF small.oi = NoFeature \/ large.oi = NoFeature THEN small.oi = large.oi
                ELSE small.oi <= large.oi
      PROVE  /\ Tradeability(small).score <= Tradeability(large).score
             /\ Tradeability(small).passed => Tradeability(large).passed
  <2>1. \A x, y \in Int : x <= y => Clamp01(x) <= Clamp01(y) /\ Clamp01(x) \in 0..10
    BY ClampIs
  <2>2. \A x \in Int : Clamp01(x) \in 0..10
    BY ClampIs
  <2>3. Clamp01(small.adv) <= Clamp01(large.adv)
    BY <1>2, <2>1
  <2>4. (IF small.aum = NoFeature THEN 0 ELSE Clamp01(small.aum))
          <= (IF large.aum = NoFeature THEN 0 ELSE Clamp01(large.aum))
    BY <1>2, <2>1, <2>2
  <2>5. \A x \in Int : Min({Clamp01(x), 5}) = IF Clamp01(x) <= 5 THEN Clamp01(x) ELSE 5
    BY <2>2, MinOfTwo
  <2>6. LargeHand(small) <= LargeHand(large)
    <3>1. CASE small.gex # NoFeature
      BY <1>2, <2>1, <3>1 DEF LargeHand
    <3>2. CASE small.gex = NoFeature /\ small.oi # NoFeature
      BY <1>2, <2>1, <3>2 DEF LargeHand
    <3>3. CASE small.gex = NoFeature /\ small.oi = NoFeature
      BY <1>2, <2>2, <2>3, <2>5, <3>3 DEF LargeHand
    <3> QED
      BY <3>1, <3>2, <3>3
  <2>7. \A x \in Fund : LargeHand(x) \in Int
    <3> SUFFICES ASSUME NEW x \in Fund PROVE LargeHand(x) \in Int
      OBVIOUS
    <3>1. Min({Clamp01(x.adv), 5}) \in Int /\ Clamp01(x.adv) \in Int
      BY <2>2, <2>5
    <3>2. CASE x.gex # NoFeature
      BY <2>2, <3>2 DEF LargeHand
    <3>3. CASE x.gex = NoFeature /\ x.oi # NoFeature
      BY <2>2, <3>3 DEF LargeHand
    <3>4. CASE x.gex = NoFeature /\ x.oi = NoFeature
      BY <3>1, <3>4 DEF LargeHand
    <3> QED
      BY <3>2, <3>3, <3>4
  <2>8. Tradeability(small).score <= Tradeability(large).score
    <3> DEFINE flow(x) == IF x.aum = NoFeature THEN 0 ELSE Clamp01(x.aum)
    <3>1. /\ Clamp01(small.adv) \in Int /\ flow(small) \in Int /\ LargeHand(small) \in Int
          /\ Clamp01(large.adv) \in Int /\ flow(large) \in Int /\ LargeHand(large) \in Int
      BY <2>2, <2>7
    <3>2. /\ Tradeability(small).score
                = 40 * Clamp01(small.adv) + 35 * flow(small) + 25 * LargeHand(small)
          /\ Tradeability(large).score
                = 40 * Clamp01(large.adv) + 35 * flow(large) + 25 * LargeHand(large)
      BY DEF Tradeability
    <3>3. flow(small) <= flow(large)
      BY <2>4
    <3> HIDE DEF flow, Fund, Amount
    <3> QED
      BY <2>3, <2>6, <3>1, <3>2, <3>3
  <2>9. Tradeability(small).passed => Tradeability(large).passed
    <3>1. \A x \in Fund : Tradeability(x).passed
                            <=> x.adv >= 0 /\ x.aum # NoFeature /\ x.aum >= 0
      <4> SUFFICES ASSUME NEW x \in Fund
                   PROVE  ~HardFail(x) <=> x.adv >= 0 /\ x.aum # NoFeature /\ x.aum >= 0
        BY DEF Tradeability
      <4>1. x.adv \in Int /\ (x.aum # NoFeature => x.aum \in Int)
        OBVIOUS
      <4> HIDE DEF Fund, Amount
      <4> QED
        BY <4>1 DEF HardFail
    <3>2. small.aum # NoFeature => large.aum # NoFeature /\ small.aum <= large.aum
      BY <1>2
    <3> QED
      BY <1>2, <3>1, <3>2
  <2> QED
    BY <2>8, <2>9
<1> QED
  BY <1>1, <1>2 DEF TradeabilityIsMonotone

-----------------------------------------------------------------------------
LEMMA TrailingProperties ==
  ASSUME NEW S, NEW xs \in Seq(S), NEW n \in Nat
  PROVE  /\ Trailing(xs, n) \in Seq(S)
         /\ Len(Trailing(xs, n)) = IF n <= Len(xs) THEN n ELSE Len(xs)
         /\ \A i \in 1..Len(Trailing(xs, n)) :
              Trailing(xs, n)[i] = xs[Len(xs) - Len(Trailing(xs, n)) + i]
<1> DEFINE k == Len(xs)
           m == IF n <= k THEN n ELSE k
<1>1. k \in Nat /\ m \in 0..k /\ k - m + 1 \in Int /\ \A i \in (k - m + 1)..k : xs[i] \in S
  OBVIOUS
<1>2. Min({n, k}) = m
  BY <1>1, MinOfTwo
<1>3. Trailing(xs, n) = SubSeq(xs, k - m + 1, k)
  BY <1>2 DEF Trailing
<1> HIDE DEF k, m
<1>4. /\ Trailing(xs, n) \in Seq(S)
      /\ Len(Trailing(xs, n)) = IF k - m + 1 <= k THEN k - (k - m + 1) + 1 ELSE 0
      /\ \A i \in 1..(k - (k - m + 1) + 1) : Trailing(xs, n)[i] = xs[(k - m + 1) + i - 1]
  BY <1>1, <1>3, SubSeqProperties
<1>5. /\ (IF k - m + 1 <= k THEN k - (k - m + 1) + 1 ELSE 0) = m
      /\ k - (k - m + 1) + 1 = m /\ \A i \in 1..m : (k - m + 1) + i - 1 = k - m + i
  BY <1>1
<1>6. /\ Trailing(xs, n) \in Seq(S)
      /\ Len(Trailing(xs, n)) = m
      /\ \A i \in 1..m : Trailing(xs, n)[i] = xs[k - m + i]
  BY <1>4, <1>5
<1> QED
  BY <1>6 DEF k, m

(* One more value may make the one k back a pivot, and unmakes none.       *)
LEMMA PivotsAreFinal ==
  ASSUME NEW k \in Nat, NEW n \in Nat, NEW ys, NEW zs,
         Len(ys) = n, DOMAIN ys = 1..n, Len(zs) = n + 1, DOMAIN zs = 1..(n + 1),
         \A i \in 1..n : zs[i] = ys[i]
  PROVE  /\ Pivots(ys, k) \subseteq (k + 1)..(n - k)
         /\ \/ Pivots(zs, k) = Pivots(ys, k)
            \/ Pivots(zs, k) = Pivots(ys, k) \cup {n + 1 - k} /\ n + 1 - k \in 1..(n + 1)
<1> DEFINE above(s, c) == \A d \in (((c - k)..(c + k)) \cap DOMAIN s) \ {c} : s[c] > s[d]
<1>1. /\ Pivots(ys, k) = {c \in (k + 1)..(n - k) : above(ys, c)}
      /\ Pivots(zs, k) = {c \in (k + 1)..(n + 1 - k) : above(zs, c)}
  BY DEF Pivots, Centers
<1>2. ASSUME NEW c \in (k + 1)..(n - k)
      PROVE  above(zs, c) <=> above(ys, c)
  <2>1. /\ ((c - k)..(c + k)) \cap DOMAIN zs = (c - k)..(c + k)
        /\ ((c - k)..(c + k)) \cap DOMAIN ys = (c - k)..(c + k)
        /\ \A d \in (c - k)..(c + k) : d \in 1..n
        /\ c \in 1..n
    OBVIOUS
  <2> QED
    BY <2>1
<1>3. /\ \A c \in (k + 1)..(n + 1 - k) : c \in (k + 1)..(n - k) \/ c = n + 1 - k
      /\ \A c \in (k + 1)..(n - k) : c \in (k + 1)..(n + 1 - k)
      /\ n + 1 - k \in (k + 1)..(n + 1 - k) => n + 1 - k \in 1..(n + 1)
  OBVIOUS
<1> HIDE DEF above
<1>4. CASE n + 1 - k \in Pivots(zs, k)
  BY <1>1, <1>2, <1>3, <1>4
<1>5. CASE n + 1 - k \notin Pivots(zs, k)
  BY <1>1, <1>2, <1>3, <1>5
<1> QED
  BY <1>1, <1>4, <1>5

(* The last pivot of the longer series is that of the shorter or the new.  *)
LEMMA LastPivotIsFinal ==
  ASSUME NEW k \in Nat, NEW n \in Nat, NEW P, NEW Q,
         P \subseteq (k + 1)..(n - k),
         \/ Q = P
         \/ Q = P \cup {n + 1 - k} /\ n + 1 - k \in 1..(n + 1)
  PROVE  \/ Q = P /\ (P # {} => Max(P) \in 1..n)
         \/ Q # {} /\ Max(Q) = n + 1 - k /\ n + 1 - k \in 1..(n + 1)
<1>1. P \subseteq 1..n
  OBVIOUS
<1>2. CASE Q = P
  BY <1>1, <1>2, LargestExists
<1>3. CASE Q = P \cup {n + 1 - k} /\ n + 1 - k \in 1..(n + 1)
  <2>1. \A y \in Q : n + 1 - k >= y
    BY <1>3
  <2>2. \A x \in Q : (\A y \in Q : x >= y) => x = n + 1 - k
    BY <1>3, <2>1
  <2>3. Max(Q) = n + 1 - k
    BY <1>3, <2>1, <2>2 DEF Max
  <2> QED
    BY <1>3, <2>3
<1> QED
  BY <1>2, <1>3

(* Of a full window that moves on by one bar the pivots move back by one;  *)
(* the oldest may leave it, and the bar k back may have become one.        *)
LEMMA PivotsSlide ==
  ASSUME NEW k \in Nat, NEW l \in Nat, NEW ys, NEW zs,
         Len(ys) = l, DOMAIN ys = 1..l, Len(zs) = l, DOMAIN zs = 1..l,
         \A i \in 1..(l - 1) : zs[i] = ys[i + 1]
  PROVE  /\ Pivots(ys, k) \subseteq (k + 1)..(l - k)
         /\ Pivots(zs, k) \subseteq (k + 1)..(l - k)
         /\ \A c \in (k + 1)..(l - k - 1) : c \in Pivots(zs, k) <=> c + 1 \in Pivots(ys, k)
<1> DEFINE above(s, c) == \A d \in (((c - k)..(c + k)) \cap DOMAIN s) \ {c} : s[c] > s[d]
<1>1. /\ Pivots(ys, k) = {c \in (k + 1)..(l - k) : above(ys, c)}
      /\ Pivots(zs, k) = {c \in (k + 1)..(l - k) : above(zs, c)}
  BY DEF Pivots, Centers
<1>2. ASSUME NEW c \in (k + 1)..(l - k - 1)
      PROVE  above(zs, c) <=> above(ys, c + 1)
  <2>1. /\ ((c - k)..(c + k)) \cap DOMAIN zs = (c - k)..(c + k)
        /\ ((c + 1 - k)..(c + 1 + k)) \cap DOMAIN ys = (c + 1 - k)..(c + 1 + k)
        /\ \A d \in (c - k)..(c + k) : d \in 1..(l - 1) /\ d + 1 \in (c + 1 - k)..(c + 1 + k)
        /\ \A d \in (c + 1 - k)..(c + 1 + k) : d - 1 \in (c - k)..(c + k) /\ (d - 1) + 1 = d
        /\ c \in 1..(l - 1)
    OBVIOUS
  <2>2. ASSUME above(zs, c), NEW d \in (c + 1 - k)..(c + 1 + k), d # c + 1
        PROVE  ys[c + 1] > ys[d]
    <3>1. d - 1 \in (c - k)..(c + k) /\ d - 1 # c /\ (d - 1) + 1 = d /\ d - 1 \in 1..(l - 1)
      BY <2>1, <2>2
    <3>2. zs[c] > zs[d - 1]
      BY <2>1, <2>2, <3>1
    <3> QED
      BY <2>1, <3>1, <3>2
  <2>3. ASSUME above(ys, c + 1), NEW d \in (c - k)..(c + k), d # c
        PROVE  zs[c] > zs[d]
    <3>1. d + 1 \in (c + 1 - k)..(c + 1 + k) /\ d + 1 # c + 1 /\ d \in 1..(l - 1)
      BY <2>1, <2>3
    <3>2. ys[c + 1] > ys[d + 1]
      BY <2>1, <2>3, <3>1
    <3> QED
      BY <2>1, <3>1, <3>2
  <2> QED
    BY <2>1, <2>2, <2>3
<1>3. /\ \A c \in (k + 1)..(l - k - 1) : c \in (k + 1)..(l - k) /\ c + 1 \in (k + 1)..(l - k)
  OBVIOUS
<1> HIDE DEF above
<1> QED
  BY <1>1, <1>2, <1>3

(* The last pivot of a window that moved on is the new one, the one it was,*)
(* or none where that was the oldest a window can have.                    *)
LEMMA LastPivotSlides ==
  ASSUME NEW k \in Nat, NEW l \in Nat, NEW P, NEW Q,
         P \subseteq (k + 1)..(l - k), Q \subseteq (k + 1)..(l - k),
         \A c \in (k + 1)..(l - k - 1) : c \in Q <=> c + 1 \in P
  PROVE  \/ Q # {} /\ Max(Q) = l - k /\ l - k \in 1..l
         \/ P = {} /\ Q = {}
         \/ P # {} /\ Q = {} /\ Max(P) = k + 1 /\ k + 1 \in 1..l
         \/ P # {} /\ Q # {} /\ Max(Q) + 1 = Max(P) /\ Max(Q) \in 1..(l - 1)
<1>1. P \subseteq 1..l /\ Q \subseteq 1..l
  OBVIOUS
<1>2. CASE l - k \in Q
  <2>1. \A y \in Q : l - k >= y
    OBVIOUS
  <2>2. \A x \in Q : (\A y \in Q : x >= y) => x = l - k
    BY <1>2, <2>1
  <2>3. Max(Q) = l - k
    BY <1>2, <2>1, <2>2 DEF Max
  <2> QED
    BY <1>1, <1>2, <2>3
<1>3. CASE l - k \notin Q /\ P = {}
  <2>1. \A c \in Q : c \in (k + 1)..(l - k - 1)
    BY <1>3
  <2>2. Q = {}
    BY <1>3, <2>1
  <2> QED
    BY <1>3, <2>2
<1>4. CASE l - k \notin Q /\ P # {}
  <2> DEFINE m == Max(P)
  <2>1. m \in P /\ \A y \in P : m >= y
    BY <1>1, <1>4, LargestExists
  <2> HIDE DEF m
  <2>2. \A c \in Q : c \in (k + 1)..(l - k - 1) /\ c + 1 \in P
    BY <1>4
  <2>3. \A c \in Q : c + 1 <= m
    BY <2>1, <2>2
  <2>4. CASE m = k + 1
    <3>1. Q = {}
      BY <2>2, <2>3, <2>4
    <3> QED
      BY <1>1, <1>4, <2>1, <2>4, <3>1 DEF m
  <2>5. CASE m # k + 1
    <3>1. m - 1 \in (k + 1)..(l - k - 1) /\ (m - 1) + 1 = m /\ m - 1 \in 1..(l - 1)
      BY <2>1, <2>5
    <3>2. m - 1 \in Q
      BY <2>1, <3>1
    <3>3. \A y \in Q : m - 1 >= y
      BY <2>1, <2>3, <3>1
    <3>4. \A x \in Q : (\A y \in Q : x >= y) => x = m - 1
      BY <3>1, <3>2, <3>3
    <3>5. Max(Q) = m - 1
      BY <3>2, <3>3, <3>4 DEF Max
    <3> QED
      BY <1>4, <3>1, <3>2, <3>5 DEF m
  <2> QED
    BY <2>4, <2>5
<1> QED
  BY <1>2, <1>3, <1>4

Quoted == [high : Int, low : Int, close : Int, volume : Int]

(* layer2_location.rs: one more bar never changes a confirmed swing, it may *)
(* only confirm the bar k back as a new one, or push the last one out of a  *)
(* full look-back.                                                          *)
THEOREM SwingsStayAsConfirmed ==
  ASSUME NEW bars \in Seq(Quoted), NEW w, w.pivot \in Nat, w.lookback \in Nat \ {0}
  PROVE  SwingsAreNotRepainted(bars, w)
<1> DEFINE k == w.pivot
           l == w.lookback
<1> SUFFICES ASSUME NEW n \in 1..(Len(bars) - 1)
             PROVE  LET before == LocationBars(SubSeq(bars, 1, n), w)
                        after == LocationBars(SubSeq(bars, 1, n + 1), w)
                    IN  /\ LastSwingHigh(after, k) # LastSwingHigh(before, k) =>
                             \/ LastSwingHigh(after, k) = bars[n + 1 - k].high
                             \/ /\ LastSwingHigh(after, k) = NoFeature /\ n >= l
                                /\ LastSwingHigh(before, k) = before[k + 1].high
                        /\ LastSwingLow(after, k) # LastSwingLow(before, k) =>
                             \/ LastSwingLow(after, k) = bars[n + 1 - k].low
                             \/ /\ LastSwingLow(after, k) = NoFeature /\ n >= l
                                /\ LastSwingLow(before, k) = before[k + 1].low
  BY DEF SwingsAreNotRepainted
<1> DEFINE all(m) == SubSeq(bars, 1, m)
           before == LocationBars(all(n), w)
           after == LocationBars(all(n + 1), w)
           highs(s) == [i \in DOMAIN s |-> s[i].high]
           lows(s) == [i \in DOMAIN s |-> -s[i].low]
<1>1. n \in Nat /\ n + 1 \in Nat /\ n >= 1 /\ n + 1 <= Len(bars) /\ k \in Nat /\ l \in Nat \ {0}
  BY LenProperties
<1>2. ASSUME NEW m \in {n, n + 1}
      PROVE  LET at == IF m < l THEN m ELSE l
                 seen == LocationBars(all(m), w)
             IN  /\ Len(seen) = at /\ DOMAIN seen = 1..at
                 /\ \A i \in 1..at : seen[i] = bars[m - at + i] /\ seen[i] \in Quoted
  <2>1. \A i \in 1..m : bars[i] \in Quoted
    BY <1>1, ElementOfSeq
  <2> HIDE DEF Quoted
  <2>2. /\ all(m) \in Seq(Quoted) /\ Len(all(m)) = m /\ \A i \in 1..m : all(m)[i] = bars[i]
    BY <1>1, <2>1, SubSeqProperties
  <2> HIDE DEF all
  <2> DEFINE at == IF m < l THEN m ELSE l
             seen == LocationBars(all(m), w)
  <2>3. /\ seen \in Seq(Quoted) /\ Len(seen) = IF l <= m THEN l ELSE m
        /\ \A i \in 1..Len(seen) : seen[i] = all(m)[m - Len(seen) + i]
    <3>1. seen = Trailing(all(m), l)
      BY DEF LocationBars
    <3>2. l \in Nat
      BY <1>1
    <3> HIDE DEF seen, l
    <3>3. /\ Trailing(all(m), l) \in Seq(Quoted)
          /\ Len(Trailing(all(m), l)) = IF l <= Len(all(m)) THEN l ELSE Len(all(m))
          /\ \A i \in 1..Len(Trailing(all(m), l)) :
               Trailing(all(m), l)[i] = all(m)[Len(all(m)) - Len(Trailing(all(m), l)) + i]
      BY <2>2, <3>2, TrailingProperties
    <3> QED
      BY <2>2, <3>1, <3>3
  <2>4. (IF l <= m THEN l ELSE m) = at /\ at \in Nat /\ \A i \in 1..at : m - at + i \in 1..m
    <3>1. m \in Nat /\ m >= 1
      BY <1>1
    <3> HIDE DEF l
    <3> QED
      BY <1>1, <3>1
  <2> HIDE DEF at, seen
  <2>5. DOMAIN seen = 1..Len(seen) /\ \A i \in 1..Len(seen) : seen[i] \in Quoted
    BY <2>3, LenProperties, ElementOfSeq
  <2>6. /\ Len(seen) = at /\ DOMAIN seen = 1..at
        /\ \A i \in 1..at : seen[i] = bars[m - at + i] /\ seen[i] \in Quoted
    BY <2>2, <2>3, <2>4, <2>5
  <2> QED
    BY <2>6 DEF at, seen
<1> HIDE DEF all
<1>3. /\ \A s : LastSwingHigh(s, k) = IF Pivots(highs(s), k) = {} THEN NoFeature
                                       ELSE s[Max(Pivots(highs(s), k))].high
      /\ \A s : LastSwingLow(s, k) = IF Pivots(lows(s), k) = {} THEN NoFeature
                                      ELSE s[Max(Pivots(lows(s), k))].low
  BY DEF LastSwingHigh, LastSwingLow
<1>4. CASE n < l
  <2>1. /\ Len(before) = n /\ DOMAIN before = 1..n
        /\ \A i \in 1..n : before[i] = bars[i] /\ before[i] \in Quoted
    <3>1. (IF n < l THEN n ELSE l) = n /\ \A i \in 1..n : n - n + i = i
      BY <1>1, <1>4
    <3> QED
      BY <1>2, <3>1
  <2>2. /\ Len(after) = n + 1 /\ DOMAIN after = 1..(n + 1)
        /\ \A i \in 1..(n + 1) : after[i] = bars[i] /\ after[i] \in Quoted
    <3>1. /\ (IF n + 1 < l THEN n + 1 ELSE l) = n + 1
          /\ \A i \in 1..(n + 1) : (n + 1) - (n + 1) + i = i
      BY <1>1, <1>4
    <3> QED
      BY <1>2, <3>1
  <2> HIDE DEF before, after, k, l
  <2>3. ASSUME NEW P, NEW Q, P \subseteq (k + 1)..(n - k),
               \/ Q = P
               \/ Q = P \cup {n + 1 - k} /\ n + 1 - k \in 1..(n + 1)
        PROVE  \/ Q = P /\ (P # {} => after[Max(Q)] = before[Max(P)])
               \/ Q # {} /\ after[Max(Q)] = bars[n + 1 - k]
    <3>1. \/ Q = P /\ (P # {} => Max(P) \in 1..n)
          \/ Q # {} /\ Max(Q) = n + 1 - k /\ n + 1 - k \in 1..(n + 1)
      BY <1>1, <2>3, LastPivotIsFinal
    <3>2. \A i \in 1..n : after[i] = before[i]
      BY <1>1, <2>1, <2>2
    <3> QED
      BY <2>2, <3>1, <3>2
  <2>4. /\ Len(highs(before)) = n /\ DOMAIN highs(before) = 1..n
        /\ Len(highs(after)) = n + 1 /\ DOMAIN highs(after) = 1..(n + 1)
        /\ \A i \in 1..n : highs(after)[i] = highs(before)[i]
    BY <1>1, <2>1, <2>2
  <2>5. /\ Len(lows(before)) = n /\ DOMAIN lows(before) = 1..n
        /\ Len(lows(after)) = n + 1 /\ DOMAIN lows(after) = 1..(n + 1)
        /\ \A i \in 1..n : lows(after)[i] = lows(before)[i]
    BY <1>1, <2>1, <2>2
  <2> HIDE DEF highs, lows
  <2>6. LastSwingHigh(after, k) # LastSwingHigh(before, k)
          => LastSwingHigh(after, k) = bars[n + 1 - k].high
    <3> DEFINE P == Pivots(highs(before), k)
               Q == Pivots(highs(after), k)
    <3>1. /\ LastSwingHigh(before, k) = IF P = {} THEN NoFeature ELSE before[Max(P)].high
          /\ LastSwingHigh(after, k) = IF Q = {} THEN NoFeature ELSE after[Max(Q)].high
      BY <1>3
    <3>2. /\ P \subseteq (k + 1)..(n - k)
          /\ \/ Q = P
             \/ Q = P \cup {n + 1 - k} /\ n + 1 - k \in 1..(n + 1)
      BY <1>1, <2>4, PivotsAreFinal
    <3> HIDE DEF P, Q
    <3> QED
      BY <2>3, <3>1, <3>2
  <2>7. LastSwingLow(after, k) # LastSwingLow(before, k)
          => LastSwingLow(after, k) = bars[n + 1 - k].low
    <3> DEFINE P == Pivots(lows(before), k)
               Q == Pivots(lows(after), k)
    <3>1. /\ LastSwingLow(before, k) = IF P = {} THEN NoFeature ELSE before[Max(P)].low
          /\ LastSwingLow(after, k) = IF Q = {} THEN NoFeature ELSE after[Max(Q)].low
      BY <1>3
    <3>2. /\ P \subseteq (k + 1)..(n - k)
          /\ \/ Q = P
             \/ Q = P \cup {n + 1 - k} /\ n + 1 - k \in 1..(n + 1)
      BY <1>1, <2>5, PivotsAreFinal
    <3> HIDE DEF P, Q
    <3> QED
      BY <2>3, <3>1, <3>2
  <2> QED
    BY <2>6, <2>7 DEF before, after, k, l, all
<1>5. CASE n >= l
  <2>1. /\ Len(before) = l /\ DOMAIN before = 1..l
        /\ \A i \in 1..l : before[i] = bars[n - l + i] /\ before[i] \in Quoted
    <3>1. (IF n < l THEN n ELSE l) = l
      BY <1>1, <1>5
    <3> QED
      BY <1>2, <3>1
  <2>2. /\ Len(after) = l /\ DOMAIN after = 1..l
        /\ \A i \in 1..l : after[i] = bars[(n + 1) - l + i] /\ after[i] \in Quoted
    <3>1. (IF n + 1 < l THEN n + 1 ELSE l) = l
      BY <1>1, <1>5
    <3> QED
      BY <1>2, <3>1
  <2> HIDE DEF before, after, k, l
  <2>3. \A i \in 1..(l - 1) : i \in 1..l /\ i + 1 \in 1..l /\ after[i] = before[i + 1]
    <3> SUFFICES ASSUME NEW i \in 1..(l - 1)
                 PROVE  i \in 1..l /\ i + 1 \in 1..l /\ after[i] = before[i + 1]
      OBVIOUS
    <3>1. i \in 1..l /\ i + 1 \in 1..l /\ (n + 1) - l + i = n - l + (i + 1)
      BY <1>1
    <3> QED
      BY <2>1, <2>2, <3>1
  <2>4. l - k \in 1..l => after[l - k] = bars[n + 1 - k]
    <3>1. (n + 1) - l + (l - k) = n + 1 - k
      BY <1>1
    <3> QED
      BY <2>2, <3>1
  <2>5. ASSUME NEW P, NEW Q, P \subseteq (k + 1)..(l - k), Q \subseteq (k + 1)..(l - k),
               \A c \in (k + 1)..(l - k - 1) : c \in Q <=> c + 1 \in P
        PROVE  \/ Q # {} /\ after[Max(Q)] = bars[n + 1 - k]
               \/ P = {} /\ Q = {}
               \/ P # {} /\ Q = {} /\ before[Max(P)] = before[k + 1]
               \/ P # {} /\ Q # {} /\ after[Max(Q)] = before[Max(P)]
    <3>1. \/ Q # {} /\ Max(Q) = l - k /\ l - k \in 1..l
          \/ P = {} /\ Q = {}
          \/ P # {} /\ Q = {} /\ Max(P) = k + 1 /\ k + 1 \in 1..l
          \/ P # {} /\ Q # {} /\ Max(Q) + 1 = Max(P) /\ Max(Q) \in 1..(l - 1)
      BY <1>1, <2>5, LastPivotSlides
    <3> QED
      BY <2>3, <2>4, <3>1
  <2>6. /\ Len(highs(before)) = l /\ DOMAIN highs(before) = 1..l
        /\ Len(highs(after)) = l /\ DOMAIN highs(after) = 1..l
        /\ \A i \in 1..(l - 1) : highs(after)[i] = highs(before)[i + 1]
    BY <1>1, <2>1, <2>2, <2>3
  <2>7. /\ Len(lows(before)) = l /\ DOMAIN lows(before) = 1..l
        /\ Len(lows(after)) = l /\ DOMAIN lows(after) = 1..l
        /\ \A i \in 1..(l - 1) : lows(after)[i] = lows(before)[i + 1]
    BY <1>1, <2>1, <2>2, <2>3
  <2> HIDE DEF highs, lows
  <2>8. LastSwingHigh(after, k) # LastSwingHigh(before, k) =>
          \/ LastSwingHigh(after, k) = bars[n + 1 - k].high
          \/ /\ LastSwingHigh(after, k) = NoFeature
             /\ LastSwingHigh(before, k) = before[k + 1].high
    <3> DEFINE P == Pivots(highs(before), k)
               Q == Pivots(highs(after), k)
    <3>1. /\ LastSwingHigh(before, k) = IF P = {} THEN NoFeature ELSE before[Max(P)].high
          /\ LastSwingHigh(after, k) = IF Q = {} THEN NoFeature ELSE after[Max(Q)].high
      BY <1>3
    <3>2. /\ P \subseteq (k + 1)..(l - k) /\ Q \subseteq (k + 1)..(l - k)
          /\ \A c \in (k + 1)..(l - k - 1) : c \in Q <=> c + 1 \in P
      BY <1>1, <2>6, PivotsSlide
    <3> HIDE DEF P, Q
    <3> QED
      BY <2>5, <3>1, <3>2
  <2>9. LastSwingLow(after, k) # LastSwingLow(before, k) =>
          \/ LastSwingLow(after, k) = bars[n + 1 - k].low
          \/ /\ LastSwingLow(after, k) = NoFeature
             /\ LastSwingLow(before, k) = before[k + 1].low
    <3> DEFINE P == Pivots(lows(before), k)
               Q == Pivots(lows(after), k)
    <3>1. /\ LastSwingLow(before, k) = IF P = {} THEN NoFeature ELSE before[Max(P)].low
          /\ LastSwingLow(after, k) = IF Q = {} THEN NoFeature ELSE after[Max(Q)].low
      BY <1>3
    <3>2. /\ P \subseteq (k + 1)..(l - k) /\ Q \subseteq (k + 1)..(l - k)
          /\ \A c \in (k + 1)..(l - k - 1) : c \in Q <=> c + 1 \in P
      BY <1>1, <2>7, PivotsSlide
    <3> HIDE DEF P, Q
    <3> QED
      BY <2>5, <3>1, <3>2
  <2> QED
    BY <1>5, <2>8, <2>9 DEF before, after, k, l, all
<1>6. n < l \/ n >= l
  BY <1>1
<1> QED
  BY <1>4, <1>5, <1>6 DEF all

-----------------------------------------------------------------------------
Macro == [DOMAIN Reads -> Int \cup {NoFeature}]

Readings == {"vix9d_vix", "vix_vix3m", "vvix", "rv20", "rv_percentile", "adx", "vrp", "hy_oas",
             "ig_oas", "hy_ig_ratio", "net_liquidity", "dxy_trend", "oil_trend", "twos_tens",
             "copper_gold", "gex_net", "dix", "gex_sign"}

(* layer1_regime.rs: a series that is missing costs the features that read *)
(* it and leaves every other as it is.                                     *)
THEOREM MissingSeriesAreSkipped ==
  ASSUME NEW closes, NEW macro \in Macro, NEW hist, NEW w
  PROVE  MissingInputsAreSkipped(closes, macro, hist, w)
<1> DEFINE r(m) == RegimeReadings(closes, m, hist, NoFeature, w)
<1>1. ASSUME NEW s \in DOMAIN Reads, NEW k \in Readings
      PROVE  r([macro EXCEPT ![s] = NoFeature])[k]
               = IF k \in Reads[s] THEN NoFeature ELSE r(macro)[k]
  <2> DEFINE m == [macro EXCEPT ![s] = NoFeature]
             skips(key) == r(m)[key] = IF key \in Reads[s] THEN NoFeature ELSE r(macro)[key]
  <2>1. m[s] = NoFeature /\ \A t \in DOMAIN Reads \ {s} : m[t] = macro[t]
    BY DEF Macro
  <2>2. \A a : Ratio(NoFeature, a) = NoFeature /\ Ratio(a, NoFeature) = NoFeature
    BY DEF Ratio
  <2>3. DOMAIN Reads = {"vix", "vix9d", "vix3m", "vvix", "hy_oas", "ig_oas", "walcl", "tga",
                        "rrp", "ust2y", "ust10y", "gex", "dix"}
    BY DEF Reads
  <2> HIDE DEF m
  <2>4. skips("vix9d_vix")
    <3>1. \A x : r(x)["vix9d_vix"] = Ratio(x.vix9d, x.vix)
      BY DEF RegimeReadings
    <3>2. "vix9d_vix" \in Reads[s] <=> s \in {"vix", "vix9d"}
      BY <2>3 DEF Reads
    <3> HIDE DEF r
    <3> QED
      BY <2>1, <2>2, <2>3, <3>1, <3>2
  <2>5. skips("vix_vix3m")
    <3>1. \A x : r(x)["vix_vix3m"] = Ratio(x.vix, x.vix3m)
      BY DEF RegimeReadings
    <3>2. "vix_vix3m" \in Reads[s] <=> s \in {"vix", "vix3m"}
      BY <2>3 DEF Reads
    <3> HIDE DEF r
    <3> QED
      BY <2>1, <2>2, <2>3, <3>1, <3>2
  <2>6. skips("vvix")
    <3>1. \A x : r(x)["vvix"] = IF x.vvix = NoFeature THEN NoFeature ELSE <<x.vvix, 1>>
      BY DEF RegimeReadings
    <3>2. "vvix" \in Reads[s] <=> s = "vvix"
      BY <2>3 DEF Reads
    <3> HIDE DEF r
    <3> QED
      BY <2>1, <2>3, <3>1, <3>2
  <2>7. skips("vrp")
    <3>1. \A x : r(x)["vrp"] = IF x.vix = NoFeature \/ ~(Len(closes) > w.vol) THEN NoFeature
                            ELSE <<x.vix - 100 * RealizedVol(closes, w.vol), 1>>
      BY DEF RegimeReadings
    <3>2. "vrp" \in Reads[s] <=> s = "vix"
      BY <2>3 DEF Reads
    <3> HIDE DEF r
    <3> QED
      BY <2>1, <2>3, <3>1, <3>2
  <2>8. skips("hy_oas")
    <3>1. \A x : r(x)["hy_oas"] = IF x.hy_oas = NoFeature THEN NoFeature ELSE <<x.hy_oas, 1>>
      BY DEF RegimeReadings
    <3>2. "hy_oas" \in Reads[s] <=> s = "hy_oas"
      BY <2>3 DEF Reads
    <3> HIDE DEF r
    <3> QED
      BY <2>1, <2>3, <3>1, <3>2
  <2>9. skips("ig_oas")
    <3>1. \A x : r(x)["ig_oas"] = IF x.ig_oas = NoFeature THEN NoFeature ELSE <<x.ig_oas, 1>>
      BY DEF RegimeReadings
    <3>2. "ig_oas" \in Reads[s] <=> s = "ig_oas"
      BY <2>3 DEF Reads
    <3> HIDE DEF r
    <3> QED
      BY <2>1, <2>3, <3>1, <3>2
  <2>10. skips("hy_ig_ratio")
    <3>1. \A x : r(x)["hy_ig_ratio"] = Ratio(x.hy_oas, x.ig_oas)
      BY DEF RegimeReadings
    <3>2. "hy_ig_ratio" \in Reads[s] <=> s \in {"hy_oas", "ig_oas"}
      BY <2>3 DEF Reads
    <3> HIDE DEF r
    <3> QED
      BY <2>1, <2>2, <2>3, <3>1, <3>2
  <2>11. skips("net_liquidity")
    <3>1. \A x : r(x)["net_liquidity"] = IF NoFeature \in {x.walcl, x.tga, x.rrp} THEN NoFeature
                                      ELSE <<x.walcl - x.tga - x.rrp, 1>>
      BY DEF RegimeReadings
    <3>2. "net_liquidity" \in Reads[s] <=> s \in {"walcl", "tga", "rrp"}
      BY <2>3 DEF Reads
    <3> HIDE DEF r
    <3> QED
      BY <2>1, <2>3, <3>1, <3>2
  <2>12. skips("twos_tens")
    <3>1. \A x : r(x)["twos_tens"] = IF NoFeature \in {x.ust2y, x.ust10y} THEN NoFeature
                                  ELSE <<x.ust10y - x.ust2y, 1>>
      BY DEF RegimeReadings
    <3>2. "twos_tens" \in Reads[s] <=> s \in {"ust2y", "ust10y"}
      BY <2>3 DEF Reads
    <3> HIDE DEF r
    <3> QED
      BY <2>1, <2>3, <3>1, <3>2
  <2>13. skips("gex_net")
    <3>1. \A x : r(x)["gex_net"] = IF x.gex = NoFeature THEN NoFeature ELSE <<x.gex, 1>>
      BY DEF RegimeReadings
    <3>2. "gex_net" \in Reads[s] <=> s = "gex"
      BY <2>3 DEF Reads
    <3> HIDE DEF r
    <3> QED
      BY <2>1, <2>3, <3>1, <3>2
  <2>14. skips("dix")
    <3>1. \A x : r(x)["dix"] = IF x.dix = NoFeature THEN NoFeature ELSE <<x.dix, 1>>
      BY DEF RegimeReadings
    <3>2. "dix" \in Reads[s] <=> s = "dix"
      BY <2>3 DEF Reads
    <3> HIDE DEF r
    <3> QED
      BY <2>1, <2>3, <3>1, <3>2
  <2>15. skips("gex_sign")
    <3>1. \A x : r(x)["gex_sign"] = IF x.gex = NoFeature THEN NoFeature
                                 ELSE <<IF x.gex >= 0 THEN 1 ELSE -1, 1>>
      BY DEF RegimeReadings
    <3>2. "gex_sign" \in Reads[s] <=> s = "gex"
      BY <2>3 DEF Reads
    <3> HIDE DEF r
    <3> QED
      BY <2>1, <2>3, <3>1, <3>2
  <2>16. ASSUME NEW key \in {"rv20", "rv_percentile", "adx", "dxy_trend", "oil_trend", "copper_gold"}
         PROVE  skips(key)
    <3>1. \A x, y : r(x)[key] = r(y)[key]
      BY DEF RegimeReadings
    <3>2. key \notin Reads[s]
      BY <2>3 DEF Reads
    <3> HIDE DEF r
    <3> QED
      BY <3>1, <3>2
  <2> HIDE DEF r
  <2>17. skips(k)
    <3> HIDE DEF skips
    <3> QED
      BY <2>4, <2>5, <2>6, <2>7, <2>8, <2>9, <2>10, <2>11, <2>12, <2>13, <2>14, <2>15, <2>16 DEF Readings
  <2> QED
    BY <2>17 DEF m
<1>2. \A m : DOMAIN r(m) = Readings
  BY DEF RegimeReadings, Readings
<1>3. \A m : RegimeFeatures(closes, m, hist, NoFeature, w) = Observed(r(m))
  BY DEF RegimeFeatures
<1> HIDE DEF r
<1>4. ASSUME NEW s \in DOMAIN Reads
      PROVE  LET f == Observed(r(macro))
             IN  Observed(r([macro EXCEPT ![s] = NoFeature])) = [k \in DOMAIN f \ Reads[s] |-> f[k]]
  <2> DEFINE m == [macro EXCEPT ![s] = NoFeature]
             f == Observed(r(macro))
             g == Observed(r(m))
  <2>1. \A k \in Readings : r(m)[k] = IF k \in Reads[s] THEN NoFeature ELSE r(macro)[k]
    BY <1>1
  <2> HIDE DEF m
  <2>2. /\ f = [k \in DOMAIN f |-> r(macro)[k]] /\ g = [k \in DOMAIN g |-> r(m)[k]]
        /\ DOMAIN f = {k \in Readings : r(macro)[k] # NoFeature}
        /\ DOMAIN g = {k \in Readings : r(m)[k] # NoFeature}
    BY <1>2 DEF Observed
  <2> HIDE DEF f, g
  <2>3. DOMAIN g = DOMAIN f \ Reads[s]
    BY <2>1, <2>2
  <2>4. \A k \in DOMAIN g : g[k] = f[k]
    BY <2>1, <2>2, <2>3
  <2>5. g = [k \in DOMAIN f \ Reads[s] |-> f[k]]
    BY <2>2, <2>3, <2>4
  <2> QED
    BY <2>5 DEF f, g, m
<1> QED
  BY <1>3, <1>4 DEF MissingInputsAreSkipped

LEMMA SumOfIsInt ==
  ASSUME NEW xs \in Seq(Int)
  PROVE  SumOf(xs) \in Int
<1>1. SumOf(xs) = Summed(xs)
  BY Zenon DEF SumOf, Summed
<1> QED
  BY <1>1, SummedIsInt

LEMMA RealizedVolIsInt ==
  ASSUME NEW closes \in Seq(Int), NEW n \in Nat
  PROVE  RealizedVol(closes, n) \in Int
<1> DEFINE rets == Trailing(Changes(closes), n)
           squares == [i \in DOMAIN rets |-> rets[i] * rets[i]]
<1>1. Changes(closes) \in Seq(Int)
  <2>1. \A i \in 1..(Len(closes) - 1) : closes[i + 1] - closes[i] \in Int
    OBVIOUS
  <2>2. CASE Len(closes) = 0
    <3>1. Changes(closes) = <<>>
      BY <2>2 DEF Changes
    <3> QED
      BY <3>1
  <2>3. CASE Len(closes) # 0
    <3>1. Len(closes) - 1 \in Nat
      BY <2>3
    <3> QED
      BY <2>1, <3>1 DEF Changes
  <2> QED
    BY <2>2, <2>3
<1>2. rets \in Seq(Int)
  BY <1>1, TrailingProperties
<1> HIDE DEF rets
<1>3. squares \in Seq(Int)
  <2>1. \A i \in DOMAIN rets : rets[i] * rets[i] \in Int
    BY <1>2
  <2>2. DOMAIN rets = 1..Len(rets) /\ Len(rets) \in Nat
    BY <1>2
  <2> QED
    BY <2>1, <2>2
<1>4. SumOf(squares) \in Int /\ SumOf(rets) \in Int /\ Len(rets) \in Nat
  BY <1>2, <1>3, SumOfIsInt
<1>5. \A a, b, c \in Int : a * b - c * c \in Int
  OBVIOUS
<1>6. Len(rets) * SumOf(squares) - SumOf(rets) * SumOf(rets) \in Int
  <2> HIDE DEF squares
  <2> QED
    BY <1>4, <1>5
<1> QED
  BY <1>6 DEF RealizedVol, rets

(* layer1_regime.rs: the volatility of the decision bar is one of the      *)
(* history it is ranked in, whatever the closes and the look-back: its     *)
(* percentile is never zero, and one exactly at the highest of the year.   *)
THEOREM VolatilityIsRankedAmongItsOwn ==
  ASSUME NEW closes \in Seq(Int), NEW macro, NEW hist, NEW w, w.vol \in Nat
  PROVE  VolRankCountsItself(closes, macro, hist, w)
<1> DEFINE n == w.vol
           rv == RealizedVol(closes, n)
           vols == VolHistory(closes, n)
           below == {i \in DOMAIN vols : vols[i] <= rv}
           readings == RegimeReadings(closes, macro, hist, NoFeature, w)
           f == RegimeFeatures(closes, macro, hist, NoFeature, w)
<1> SUFFICES ASSUME "rv_percentile" \in DOMAIN f
             PROVE  /\ f["rv_percentile"][1] \in 1..f["rv_percentile"][2]
                    /\ f["rv_percentile"][1] = f["rv_percentile"][2]
                         <=> \A i \in DOMAIN vols : vols[i] <= f["rv20"][1]
  BY DEF VolRankCountsItself
<1>1. n \in Nat /\ Len(closes) \in Nat /\ rv \in Int
  BY RealizedVolIsInt
<1>2. /\ readings["rv20"] = IF Len(closes) > n THEN <<rv, 1>> ELSE NoFeature
      /\ readings["rv_percentile"] = IF Len(closes) > n THEN PercentileOf(vols, rv) ELSE NoFeature
      /\ "rv20" \in DOMAIN readings /\ "rv_percentile" \in DOMAIN readings
  BY DEF RegimeReadings
<1>3. \A k \in DOMAIN readings : readings[k] # NoFeature => k \in DOMAIN f /\ f[k] = readings[k]
  BY DEF RegimeFeatures, Observed
<1>4. \A k \in DOMAIN f : k \in DOMAIN readings /\ readings[k] # NoFeature
  BY DEF RegimeFeatures, Observed
<1> HIDE DEF readings, f
<1>5. Len(closes) > n /\ f["rv_percentile"] = PercentileOf(vols, rv)
  BY <1>2, <1>3, <1>4
<1>6. f["rv20"][1] = rv
  <2>1. <<rv, 1>> # NoFeature
    BY <1>1, FeatureAssumption
  <2>2. f["rv20"] = <<rv, 1>>
    BY <1>2, <1>3, <1>5, <2>1
  <2> QED
    BY <2>2
<1> DEFINE m == Len(closes) - n
<1>7. m \in Nat \ {0} /\ DOMAIN vols = 1..m /\ Len(vols) = m /\ \A i \in 1..m : vols[i] \in Int
  <2>1. m \in Nat \ {0}
    BY <1>1, <1>5
  <2>2. vols = [i \in 1..m |-> RealizedVol(SubSeq(closes, 1, n + i), n)]
    BY DEF VolHistory
  <2>3. ASSUME NEW i \in 1..m PROVE RealizedVol(SubSeq(closes, 1, n + i), n) \in Int
    <3>1. n + i \in 1..Len(closes)
      BY <1>1
    <3>2. SubSeq(closes, 1, n + i) \in Seq(Int)
      BY <3>1
    <3> QED
      BY <1>1, <3>2, RealizedVolIsInt
  <2> HIDE DEF m, vols
  <2>4. vols \in [1..m -> Int]
    BY <2>2, <2>3
  <2> QED
    BY <2>1, <2>4
<1>8. vols[m] = rv
  <2>1. n + m = Len(closes) /\ m \in 1..m
    BY <1>1, <1>7
  <2>2. SubSeq(closes, 1, n + m) = closes
    BY <2>1
  <2> QED
    BY <2>1, <2>2 DEF VolHistory
<1> HIDE DEF rv, vols, m
<1>9. f["rv_percentile"] = <<Cardinality(below), m>>
  <2>1. vols # <<>>
    BY <1>7
  <2> QED
    BY <1>5, <1>7, <2>1 DEF PercentileOf
<1>10. IsFiniteSet(1..m) /\ Cardinality(1..m) = m
  <2>1. m \in Int /\ 1 \in Int /\ ~(1 > m) /\ m - 1 + 1 = m
    BY <1>7
  <2> QED
    BY <2>1, FS_Interval
<1>11. below \in SUBSET (1..m) /\ m \in below
  BY <1>1, <1>7, <1>8
<1> HIDE DEF below
<1>12. IsFiniteSet(below) /\ Cardinality(below) <= m /\ (m = Cardinality(below) => 1..m = below)
  BY <1>10, <1>11, FS_Subset
<1>13. Cardinality(below) \in Nat /\ Cardinality(below) # 0
  BY <1>11, <1>12, FS_CardinalityType, FS_EmptySet
<1>14. f["rv_percentile"][1] = Cardinality(below) /\ f["rv_percentile"][2] = m
  BY <1>9
<1>15. Cardinality(below) = m <=> \A i \in 1..m : vols[i] <= rv
  <2>1. ASSUME Cardinality(below) = m PROVE \A i \in 1..m : i \in below
    BY <1>12, <2>1
  <2>2. ASSUME \A i \in 1..m : vols[i] <= rv PROVE below = 1..m
    BY <1>7, <1>11, <2>2 DEF below
  <2> QED
    BY <1>10, <2>1, <2>2 DEF below
<1>16. Cardinality(below) \in 1..m
  <2> DEFINE c == Cardinality(below)
  <2>1. c \in Nat /\ c # 0 /\ c <= m /\ m \in Nat
    BY <1>7, <1>12, <1>13
  <2> HIDE DEF c
  <2>2. c \in 1..m
    BY <2>1
  <2> QED
    BY <2>2 DEF c
<1>17. /\ f["rv_percentile"][1] \in 1..f["rv_percentile"][2]
       /\ f["rv_percentile"][1] = f["rv_percentile"][2]
            <=> \A i \in 1..m : vols[i] <= f["rv20"][1]
  BY <1>6, <1>14, <1>15, <1>16
<1> QED
  BY <1>7, <1>17

LEMMA ProfileOfEach ==
  ASSUME NEW horizon \in DOMAIN Profiles
  PROVE  <<Profiles[horizon].stop, Profiles[horizon].target>>
           \in {<<10, 20>>, <<8, 15>>, <<7, 12>>, <<6, 10>>, <<5, 8>>}
<1>1. /\ "swing" # "short_swing" /\ "swing" # "day" /\ "swing" # "zero_dte" /\ "swing" # "scalp"
      /\ "short_swing" # "day" /\ "short_swing" # "zero_dte" /\ "short_swing" # "scalp"
      /\ "day" # "zero_dte" /\ "day" # "scalp" /\ "zero_dte" # "scalp"
  OBVIOUS
<1>2. DOMAIN Profiles = {"swing", "short_swing", "day", "zero_dte", "scalp"}
  BY DEF Profiles
<1>3. /\ Profiles["swing"].stop = 10 /\ Profiles["swing"].target = 20
      /\ Profiles["short_swing"].stop = 8 /\ Profiles["short_swing"].target = 15
      /\ Profiles["day"].stop = 7 /\ Profiles["day"].target = 12
      /\ Profiles["zero_dte"].stop = 6 /\ Profiles["zero_dte"].target = 10
      /\ Profiles["scalp"].stop = 5 /\ Profiles["scalp"].target = 8
  BY DEF Profiles
<1> QED
  BY <1>2, <1>3

LEMMA ExactShares ==
  ASSUME NEW a \in Nat, NEW s, NEW t, <<s, t>> \in {<<10, 20>>, <<8, 15>>, <<7, 12>>, <<6, 10>>, <<5, 8>>}
  PROVE  /\ s \in Nat /\ t \in Nat
         /\ (s * (100 * a)) \div 10 = 10 * (s * a)
         /\ (t * (100 * a)) \div 10 = 10 * (t * a)
         /\ (t * 16 * (10 * (s * a))) \div (s * 10) = 16 * (t * a)
  OBVIOUS

(* horizon.rs, risk.rs: for a whole number of ATR cents, the default       *)
(* geometry of a horizon has the barriers of its profile, and a second     *)
(* target 1.6 times as far as the first.                                   *)
THEOREM DefaultsAreTheProfile ==
  ASSUME NEW horizon \in DOMAIN Profiles, NEW entry \in Int, NEW a \in Nat,
         NEW side \in {"long", "short"}
  PROVE  DefaultsKeepTheProfile(horizon, entry, 100 * a, side)
<1> DEFINE p == Profiles[horizon]
           s == p.stop
           t == p.target
           risk == FromProfile(p)
           reach(target) == AbsInt(TargetPrice(target, risk, entry, 100 * a, side) - entry)
<1>1. /\ s \in Nat /\ t \in Nat
      /\ (s * (100 * a)) \div 10 = 10 * (s * a)
      /\ (t * (100 * a)) \div 10 = 10 * (t * a)
      /\ (t * 16 * (10 * (s * a))) \div (s * 10) = 16 * (t * a)
  BY ProfileOfEach, ExactShares
<1>2. /\ risk.stop.kind = "atr" /\ risk.stop.by = <<s, 10>>
      /\ risk.target1.kind = "atr" /\ risk.target1.by = <<t, 10>>
      /\ risk.target2.kind = "r" /\ risk.target2.by = <<t * 16, s * 10>>
  BY DEF FromProfile, SecondTarget
<1> HIDE DEF p, s, t, risk
<1>3. s * a \in Nat /\ t * a \in Nat
  BY <1>1
<1>4. RiskDistance(risk, entry, 100 * a) = 10 * (s * a)
  <2>1. RiskDistance(risk, entry, 100 * a) = AbsInt((s * (100 * a)) \div 10)
    BY <1>2 DEF RiskDistance, Distance, Times
  <2> QED
    BY <1>1, <1>3, <2>1 DEF AbsInt
<1>5. reach(risk.target1) = 10 * (t * a)
  <2>1. Distance(risk.target1, entry, 100 * a, RiskDistance(risk, entry, 100 * a))
          = AbsInt((t * (100 * a)) \div 10)
    BY <1>2 DEF Distance, Times
  <2> QED
    BY <1>1, <1>3, <2>1 DEF AbsInt, TargetPrice, Sign
<1>6. reach(risk.target2) = 16 * (t * a)
  <2>1. Distance(risk.target2, entry, 100 * a, RiskDistance(risk, entry, 100 * a))
          = AbsInt((t * 16 * (10 * (s * a))) \div (s * 10))
    BY <1>2, <1>4 DEF Distance, Times
  <2> QED
    BY <1>1, <1>3, <2>1 DEF AbsInt, TargetPrice, Sign
<1>7. 10 * (10 * (s * a)) = s * (100 * a) /\ 10 * (10 * (t * a)) = t * (100 * a)
  BY <1>1
<1>8. 10 * (16 * (t * a)) = 16 * (10 * (t * a))
  BY <1>3
<1> HIDE DEF reach
<1> QED
  BY <1>4, <1>5, <1>6, <1>7, <1>8 DEF DefaultsKeepTheProfile, p, s, t, risk, reach

-----------------------------------------------------------------------------
(* One drawn predicate, and the genome it is kept in or not.               *)
Keeping(kept, p, atMost) ==
  IF Len(kept) >= atMost \/ p.key \in Keys(kept) THEN kept ELSE Append(kept, p)

LEMMA KeepingIsSeq ==
  ASSUME NEW P, NEW kept \in Seq(P), NEW p \in P, NEW atMost
  PROVE  Keeping(kept, p, atMost) \in Seq(P)
BY DEF Keeping

IsKeeping(run, xs, atMost) ==
  /\ run[0] = <<>> /\ FirstByKey(xs, atMost) = run[Len(xs)]
  /\ \A k \in 1..Len(xs) : run[k] = Keeping(run[k - 1], xs[k], atMost)

LEMMA FirstByKeyRuns ==
  ASSUME NEW P, NEW xs \in Seq(P), NEW atMost
  PROVE  \E run \in [0..Len(xs) -> Seq(P)] : IsKeeping(run, xs, atMost)
<1> DEFINE n == Len(xs)
           V == Seq(P)
           next(kept, p) == IF Len(kept) >= atMost \/ p.key \in Keys(kept) THEN kept
                            ELSE Append(kept, p)
           step == [p \in (1..n) \X V |-> next(p[2], xs[p[1]])]
           rule(f, s) == IF s = {} THEN <<>> ELSE next(f[s \ {Max(s)}], xs[Max(s)])
           iter == CHOOSE f : f = [s \in SUBSET (DOMAIN xs) |-> rule(f, s)]
<1>1. n \in Nat /\ DOMAIN xs = 1..n /\ \A i \in 1..n : xs[i] \in P
  OBVIOUS
<1>2. FirstByKey(xs, atMost) = iter[DOMAIN xs]
  BY Zenon DEF FirstByKey, FoldLeft, MapThenFoldSet
<1>3. step \in [(1..n) \X V -> V] /\ <<>> \in V
  <2>1. \A i \in 1..n : \A kept \in V : next(kept, xs[i]) \in V
    BY <1>1, KeepingIsSeq DEF Keeping
  <2> HIDE DEF n, V, next
  <2>2. step \in [(1..n) \X V -> V]
    BY <2>1
  <2>3. <<>> \in V
    BY DEF V
  <2> QED
    BY <2>2, <2>3
<1> HIDE DEF n, V, next
<1>4. \A k \in 1..n : \A v \in V : step[<<k, v>>] = next(v, xs[k])
  OBVIOUS
<1> HIDE DEF step
<1>5. PICK f \in [SUBSET (1..n) -> V] : Recurs(f, n, <<>>, step)
  BY <1>1, <1>3, RecursionHasSolution
<1>6. \A s \in SUBSET (1..n) : s # {} => Max(s) \in 1..n /\ s \ {Max(s)} \in SUBSET (1..n)
  BY <1>1, LargestExists
<1>7. f = [s \in SUBSET (DOMAIN xs) |-> rule(f, s)]
  <2>1. \A s \in SUBSET (1..n) : f[s] = rule(f, s)
    BY <1>4, <1>5, <1>6 DEF Recurs
  <2> QED
    BY <1>1, <2>1
<1>8. iter = [s \in SUBSET (DOMAIN xs) |-> rule(iter, s)]
  BY <1>7
<1> HIDE DEF iter
<1>9. RecursWithin(iter, n, V, <<>>, step)
  BY <1>1, <1>4, <1>6, <1>8 DEF RecursWithin
<1>10. EndsARun(iter, n, V, <<>>, step)
  <2> HIDE DEF rule
  <2> QED
    BY ONLY <1>1, <1>3, <1>9, SolutionRunsInOrder
<1>11. PICK run \in [0..n -> V] : Accumulates(run, n, <<>>, step) /\ iter[1..n] = run[n]
  BY <1>10 DEF EndsARun
<1>12. \A k \in 1..n : run[k] = Keeping(run[k - 1], xs[k], atMost)
  <2> SUFFICES ASSUME NEW k \in 1..n PROVE run[k] = Keeping(run[k - 1], xs[k], atMost)
    OBVIOUS
  <2>1. run[k - 1] \in V
    BY <1>1
  <2>2. run[k] = next(run[k - 1], xs[k])
    BY <1>4, <1>11, <2>1 DEF Accumulates
  <2> QED
    BY <2>2 DEF next, Keeping
<1>13. run \in [0..Len(xs) -> Seq(P)] /\ run[0] = <<>> /\ FirstByKey(xs, atMost) = run[Len(xs)]
  BY <1>1, <1>2, <1>11 DEF n, V, Accumulates
<1> QED
  BY <1>12, <1>13 DEF n, IsKeeping

(* What is kept of the first k predicates.                                 *)
Distinct(kept) == \A i, j \in 1..Len(kept) : kept[i].key = kept[j].key => i = j

KeptOf(xs, atMost, kept, k) ==
  /\ Len(kept) <= atMost /\ Len(kept) <= k
  /\ Distinct(kept)
  /\ \A i \in 1..Len(kept) : \E j \in 1..k : kept[i] = xs[j]
  /\ k >= 1 => Len(kept) >= 1 /\ kept[1] = xs[1]
  /\ k <= atMost => \A j \in 1..k : \E i \in 1..Len(kept) : kept[i].key = xs[j].key

LEMMA KeepingKeeps ==
  ASSUME NEW P, NEW xs \in Seq(P), NEW atMost \in Nat \ {0}, NEW kept \in Seq(P),
         NEW k \in 0..(Len(xs) - 1), KeptOf(xs, atMost, kept, k)
  PROVE  KeptOf(xs, atMost, Keeping(kept, xs[k + 1], atMost), k + 1)
<1> DEFINE p == xs[k + 1]
           m == Len(kept)
<1>1. /\ k \in Nat /\ k + 1 \in 1..Len(xs) /\ m \in Nat /\ p \in P /\ k + 1 \in 1..(k + 1)
      /\ \A j \in 1..k : j \in 1..(k + 1)
      /\ \A j \in 1..(k + 1) : j \in 1..k \/ j = k + 1
  OBVIOUS
<1>2. Keys(kept) = {kept[i].key : i \in 1..m}
  BY DEF Keys
<1>3. CASE m >= atMost
  <2>1. Keeping(kept, p, atMost) = kept
    BY <1>3 DEF Keeping
  <2>2. m <= k + 1 /\ ~(k + 1 <= atMost) /\ k >= 1 /\ m <= atMost
    BY <1>1, <1>3 DEF KeptOf
  <2>3. \A i \in 1..m : \E j \in 1..(k + 1) : kept[i] = xs[j]
    BY <1>1 DEF KeptOf
  <2> QED
    BY <2>1, <2>2, <2>3 DEF KeptOf
<1>4. CASE m < atMost /\ p.key \in Keys(kept)
  <2>1. Keeping(kept, p, atMost) = kept
    BY <1>4 DEF Keeping
  <2>2. PICK i \in 1..m : kept[i].key = p.key
    BY <1>2, <1>4
  <2>3. m <= k + 1 /\ k >= 1 /\ m <= atMost /\ (k + 1 <= atMost => k <= atMost)
    BY <1>1, <2>2 DEF KeptOf
  <2>4. \A l \in 1..m : \E j \in 1..(k + 1) : kept[l] = xs[j]
    BY <1>1 DEF KeptOf
  <2>5. k + 1 <= atMost => \A j \in 1..(k + 1) : \E l \in 1..m : kept[l].key = xs[j].key
    BY <1>1, <2>2, <2>3 DEF KeptOf
  <2> QED
    BY <2>1, <2>3, <2>4, <2>5 DEF KeptOf
<1>5. CASE m < atMost /\ p.key \notin Keys(kept)
  <2> DEFINE new == Append(kept, p)
  <2>1. Keeping(kept, p, atMost) = new
    BY <1>1, <1>5 DEF Keeping
  <2>2. /\ Len(new) = m + 1 /\ new[m + 1] = p /\ \A i \in 1..m : new[i] = kept[i]
        /\ \A i \in 1..(m + 1) : i \in 1..m \/ i = m + 1
        /\ \A i \in 1..m : i \in 1..(m + 1)
        /\ m + 1 \in 1..(m + 1)
    <3>1. /\ Len(new) = m + 1 /\ new[m + 1] = p /\ \A i \in 1..m : new[i] = kept[i]
      BY <1>1, AppendProperties
    <3>2. m \in Nat
      BY <1>1
    <3> HIDE DEF new, m
    <3> QED
      BY <3>1, <3>2
  <2>3. \A i \in 1..m : kept[i].key # p.key
    BY <1>2, <1>5
  <2> HIDE DEF new, p, m
  <2>4. Distinct(new)
    <3>1. \A i, j \in 1..m : kept[i].key = kept[j].key => i = j
      BY DEF Distinct, KeptOf, m
    <3> SUFFICES ASSUME NEW i \in 1..(m + 1), NEW j \in 1..(m + 1), new[i].key = new[j].key
                 PROVE  i = j
      BY <2>2 DEF Distinct
    <3>2. CASE i \in 1..m /\ j \in 1..m
      BY <2>2, <3>1, <3>2
    <3>3. CASE i = m + 1 /\ j \in 1..m
      BY <2>2, <2>3, <3>3
    <3>4. CASE i \in 1..m /\ j = m + 1
      BY <2>2, <2>3, <3>4
    <3> QED
      BY <2>2, <3>2, <3>3, <3>4
  <2>5. \A i \in 1..(m + 1) : \E j \in 1..(k + 1) : new[i] = xs[j]
    <3>1. \A i \in 1..m : \E j \in 1..k : kept[i] = xs[j]
      BY DEF KeptOf, m
    <3> QED
      BY <1>1, <2>2, <3>1 DEF p
  <2>6. m + 1 <= atMost /\ m + 1 <= k + 1 /\ m + 1 >= 1
    BY <1>1, <1>5 DEF KeptOf, m
  <2>7. new[1] = xs[1]
    <3>1. CASE k = 0
      <4>1. m = 0 /\ k + 1 = 1 /\ m + 1 = 1
        BY <1>1, <3>1 DEF KeptOf, m
      <4> QED
        BY <2>2, <4>1 DEF p
    <3>2. CASE k >= 1
      <4>1. m >= 1 /\ kept[1] = xs[1]
        BY <3>2 DEF KeptOf, m
      <4>2. 1 \in 1..m
        BY <1>1, <4>1
      <4> QED
        BY <2>2, <4>1, <4>2
    <3> QED
      BY <1>1, <3>1, <3>2
  <2>8. k + 1 <= atMost => \A j \in 1..(k + 1) : \E i \in 1..(m + 1) : new[i].key = xs[j].key
    <3> SUFFICES ASSUME k + 1 <= atMost, NEW j \in 1..(k + 1)
                 PROVE  \E i \in 1..(m + 1) : new[i].key = xs[j].key
      OBVIOUS
    <3>1. CASE j = k + 1
      BY <2>2, <3>1 DEF p
    <3>2. CASE j \in 1..k
      <4>1. k <= atMost
        BY <1>1
      <4>2. PICK i \in 1..m : kept[i].key = xs[j].key
        BY <3>2, <4>1 DEF KeptOf, m
      <4> QED
        BY <2>2, <4>2
    <3> QED
      BY <1>1, <3>1, <3>2
  <2>9. KeptOf(xs, atMost, new, k + 1)
    BY <2>2, <2>4, <2>5, <2>6, <2>7, <2>8 DEF KeptOf
  <2> QED
    BY <2>1, <2>9 DEF p
<1> QED
  BY <1>1, <1>3, <1>4, <1>5

LEMMA FirstByKeyKeeps ==
  ASSUME NEW P, NEW xs \in Seq(P), NEW atMost \in Nat \ {0}
  PROVE  /\ FirstByKey(xs, atMost) \in Seq(P)
         /\ KeptOf(xs, atMost, FirstByKey(xs, atMost), Len(xs))
<1> DEFINE n == Len(xs)
<1>1. PICK run \in [0..n -> Seq(P)] : IsKeeping(run, xs, atMost)
  BY FirstByKeyRuns
<1>2. /\ run[0] = <<>> /\ FirstByKey(xs, atMost) = run[n]
      /\ \A k \in 1..n : run[k] = Keeping(run[k - 1], xs[k], atMost)
  BY <1>1 DEF IsKeeping
<1>3. n \in Nat
  OBVIOUS
<1> DEFINE B == {k \in 0..n : KeptOf(xs, atMost, run[k], k)}
<1>4. 0 \in B
  <2>1. KeptOf(xs, atMost, <<>>, 0)
    BY DEF KeptOf, Distinct
  <2> QED
    BY <1>2, <1>3, <2>1
<1>5. ASSUME NEW k \in 0..(n - 1), k \in B
      PROVE  k + 1 \in B
  <2>1. k + 1 \in 1..n /\ (k + 1) - 1 = k /\ k + 1 \in 0..n /\ k \in 0..n
    BY <1>3
  <2>2. run[k + 1] = Keeping(run[k], xs[k + 1], atMost) /\ run[k] \in Seq(P)
    BY <1>2, <2>1
  <2>3. KeptOf(xs, atMost, Keeping(run[k], xs[k + 1], atMost), k + 1)
    BY <1>5, <2>2, KeepingKeeps
  <2> QED
    BY <2>1, <2>2, <2>3
<1>6. n \in B
  <2> HIDE DEF B, n
  <2>1. \A k \in 0..n : k \in B
    BY <1>3, <1>4, <1>5, InductionUpTo
  <2> QED
    BY <1>3, <2>1
<1>7. run[n] \in Seq(P)
  BY <1>3
<1> QED
  BY <1>2, <1>6, <1>7

-----------------------------------------------------------------------------
(* What a catalog holds: one statistic for each feature, in its layer.     *)
Stat(K) == [key : K, layer : Layers, values : Seq(Int) \ {<<>>}]
Drawn(K) == [layer : Layers, key : K, op : {"gt", "lt"}, threshold : Int]

IsCatalog(catalog, K) ==
  catalog \in SUBSET Stat(K) /\ \A s, t \in catalog : s.key = t.key => s = t

(* What Valid asks of each predicate.                                      *)
Legal(p, catalog) ==
  \E s \in catalog : s.key = p.key /\ s.layer = p.layer /\ Contains(s.values, p.threshold)

LEMMA ValidIsLegal ==
  ASSUME NEW P, NEW g \in Seq(P), NEW catalog
  PROVE  Valid(g, catalog) <=>
           /\ Len(g) >= 1 /\ Len(g) <= MaxPredicates /\ Distinct(g)
           /\ \A i \in 1..Len(g) : Legal(g[i], catalog)
<1>1. DOMAIN g = 1..Len(g) /\ Len(g) \in Nat /\ (g # <<>> <=> Len(g) >= 1)
  OBVIOUS
<1> QED
  BY <1>1 DEF Valid, Distinct, Legal

LEMMA NearestRank ==
  ASSUME NEW n \in Nat \ {0}, NEW c \in 0..100
  PROVE  1 + (2 * c * (n - 1) + 100) \div 200 \in 1..n
<1>1. n - 1 \in Nat /\ c * (n - 1) \in Int
  OBVIOUS
<1>2. 0 <= c * (n - 1)
  BY <1>1
<1>3. c * (n - 1) <= 100 * (n - 1)
  BY <1>1
<1>4. ASSUME NEW k \in Nat, NEW x \in Int, 0 <= x, x <= 100 * k
      PROVE  (2 * x + 100) \div 200 \in 0..k
  BY <1>4
<1>5. (2 * (c * (n - 1)) + 100) \div 200 \in 0..(n - 1)
  BY <1>1, <1>2, <1>3, <1>4
<1>6. 2 * c * (n - 1) = 2 * (c * (n - 1))
  BY <1>1
<1> QED
  BY <1>5, <1>6

LEMMA QuantileIsObserved ==
  ASSUME NEW values \in Seq(Int) \ {<<>>}, NEW q \in Int
  PROVE  Quantile(values, q) \in Int /\ Contains(values, Quantile(values, q))
<1> DEFINE n == Len(values)
           c == ClampTo(q, 0, 100)
           k == 1 + (2 * c * (n - 1) + 100) \div 200
<1>1. n \in Nat \ {0}
  OBVIOUS
<1>2. c \in 0..100
  BY DEF ClampTo
<1> HIDE DEF n, c
<1>3. k \in 1..n
  BY <1>1, <1>2, NearestRank
<1> HIDE DEF k
<1>4. values[k] \in Int
  BY <1>3 DEF n
<1> QED
  BY <1>3, <1>4 DEF Quantile, Contains, n, c, k

LEMMA DrawsAreLegal ==
  ASSUME NEW K, NEW catalog, IsCatalog(catalog, K), NEW layers, NEW p \in Draws(catalog, layers)
  PROVE  p \in Drawn(K) /\ Legal(p, catalog) /\ p.layer \in layers
<1>1. PICK s \in StatsIn(catalog, layers), op \in {"gt", "lt"}, q \in {20, 35, 50, 65, 80} :
        p = [layer |-> s.layer, key |-> s.key, op |-> op, threshold |-> Quantile(s.values, q)]
  BY DEF Draws
<1>2. s \in catalog /\ s \in Stat(K) /\ s.layer \in layers /\ s.values \in Seq(Int) \ {<<>>}
      /\ s.key \in K /\ s.layer \in Layers
  BY DEF StatsIn, IsCatalog, Stat
<1>3. q \in Int
  OBVIOUS
<1>4. Quantile(s.values, q) \in Int /\ Contains(s.values, Quantile(s.values, q))
  BY <1>2, <1>3, QuantileIsObserved
<1>5. p.layer = s.layer /\ p.key = s.key /\ p.threshold = Quantile(s.values, q) /\ p.op = op
  BY <1>1
<1>6. p \in Drawn(K)
  BY <1>1, <1>2, <1>4 DEF Drawn
<1> QED
  BY <1>2, <1>4, <1>5, <1>6 DEF Legal

(* Keeping the first predicate of each feature keeps what is legal.        *)
LEMMA KeptIsValid ==
  ASSUME NEW K, NEW catalog, NEW xs \in Seq(Drawn(K)), xs # <<>>, NEW atMost \in 1..MaxPredicates,
         \A i \in 1..Len(xs) : Legal(xs[i], catalog)
  PROVE  /\ FirstByKey(xs, atMost) \in Seq(Drawn(K)) /\ Valid(FirstByKey(xs, atMost), catalog)
         /\ Len(FirstByKey(xs, atMost)) >= 1 /\ FirstByKey(xs, atMost)[1] = xs[1]
<1> DEFINE kept == FirstByKey(xs, atMost)
<1>1. atMost \in Nat \ {0} /\ atMost <= MaxPredicates /\ Len(xs) >= 1
  BY DEF MaxPredicates
<1>2. kept \in Seq(Drawn(K)) /\ KeptOf(xs, atMost, kept, Len(xs))
  BY <1>1, FirstByKeyKeeps
<1> HIDE DEF kept
<1>3. /\ Len(kept) <= atMost /\ Distinct(kept) /\ Len(kept) >= 1 /\ kept[1] = xs[1]
      /\ \A i \in 1..Len(kept) : Legal(kept[i], catalog)
  BY <1>1, <1>2 DEF KeptOf
<1>4. Len(kept) <= MaxPredicates /\ Len(kept) \in Nat
  BY <1>1, <1>2, <1>3 DEF MaxPredicates
<1>5. Valid(kept, catalog)
  BY <1>2, <1>3, <1>4, ValidIsLegal
<1> QED
  BY <1>2, <1>3, <1>5 DEF kept

LEMMA RandomAreValid ==
  ASSUME NEW K, NEW catalog, IsCatalog(catalog, K), NEW most \in 1..MaxPredicates,
         NEW g \in RandomGenomes(catalog, most)
  PROVE  g \in Seq(Drawn(K)) /\ Valid(g, catalog)
<1>1. most \in Int /\ Max({most, 1}) = most
  <2>1. most \in Int /\ 1 \in Int /\ most >= 1
    BY DEF MaxPredicates
  <2> QED
    BY <2>1, MaxOfTwo
<1>2. PICK n \in 1..most : \E draws \in [1..n -> Draws(catalog, Layers)] : g = FirstByKey(draws, most)
  BY <1>1 DEF RandomGenomes
<1>3. PICK draws \in [1..n -> Draws(catalog, Layers)] : g = FirstByKey(draws, most)
  BY <1>2
<1>4. \A i \in 1..n : draws[i] \in Drawn(K) /\ Legal(draws[i], catalog)
  BY DrawsAreLegal
<1>5. n \in Nat /\ n >= 1
  BY <1>1
<1>6. draws \in Seq(Drawn(K)) /\ Len(draws) = n
  BY <1>4, <1>5
<1>7. draws # <<>>
  BY <1>5, <1>6
<1> QED
  BY <1>3, <1>4, <1>6, <1>7, KeptIsValid

LEMMA PromotableSeedsAreValid ==
  ASSUME NEW K, NEW catalog, IsCatalog(catalog, K), NEW most \in 1..MaxPredicates,
         NEW g \in PromotableSeeds(catalog, most)
  PROVE  Valid(g, catalog) /\ HasActionable(g)
<1> DEFINE Acts == Draws(catalog, ActionableLayers)
           Context == Draws(catalog, Contextual)
           Padding == Draws(catalog, Layers)
           heads == IF Context = {} THEN {<<p>> : p \in Acts}
                    ELSE {<<p, c>> : p \in Acts, c \in Context}
           cap == Max({most, 2})
           pads == UNION {[1..n -> Padding] : n \in 0..(cap - 1)}
<1>1. \A p \in Acts \cup Context \cup Padding : p \in Drawn(K) /\ Legal(p, catalog)
  BY DrawsAreLegal
<1>2. \A p \in Acts : p.layer \in ActionableLayers
  BY DrawsAreLegal
<1>3. Max({most, 2}) \in 1..MaxPredicates
  <2>1. most \in Int /\ 2 \in Int
    OBVIOUS
  <2> QED
    BY <2>1, MaxOfTwo DEF MaxPredicates
<1>4. PICK head \in heads, pad \in pads : g = FirstByKey(head \o pad, cap)
  <2>1. PromotableSeeds(catalog, most)
          = {FirstByKey(head \o pad, cap) : head \in heads, pad \in pads}
    BY DEF PromotableSeeds
  <2> HIDE DEF heads, pads, cap
  <2> QED
    BY <2>1
<1>12. PICK n \in 0..(cap - 1) : pad \in [1..n -> Padding]
  <2> HIDE DEF heads, Padding, cap
  <2> QED
    BY <1>4
<1> HIDE DEF Acts, Context, Padding, cap, pads
<1>5. /\ head \in Seq(Drawn(K)) /\ Len(head) \in {1, 2} /\ head[1] \in Acts
      /\ \A i \in 1..Len(head) : Legal(head[i], catalog)
  <2>1. CASE \E p \in Acts : head = <<p>>
    <3>1. PICK p \in Acts : head = <<p>>
      BY <2>1
    <3>2. p \in Drawn(K) /\ Legal(p, catalog)
      BY <1>1
    <3>3. Len(head) = 1 /\ head[1] = p /\ head \in Seq(Drawn(K))
      BY <3>1, <3>2
    <3> QED
      BY <3>2, <3>3
  <2>2. CASE \E p \in Acts, c \in Context : head = <<p, c>>
    <3>1. PICK p \in Acts, c \in Context : head = <<p, c>>
      BY <2>2
    <3>2. p \in Drawn(K) /\ Legal(p, catalog) /\ c \in Drawn(K) /\ Legal(c, catalog)
      BY <1>1
    <3>3. Len(head) = 2 /\ head[1] = p /\ head[2] = c /\ head \in Seq(Drawn(K))
      BY <3>1, <3>2
    <3>4. \A i \in 1..2 : i = 1 \/ i = 2
      OBVIOUS
    <3> QED
      BY <3>2, <3>3, <3>4
  <2>3. head \in {<<p>> : p \in Acts} \/ head \in {<<p, c>> : p \in Acts, c \in Context}
    BY <1>4
  <2> QED
    BY <2>1, <2>2, <2>3
<1> HIDE DEF heads
<1>6. pad \in Seq(Drawn(K)) /\ \A i \in 1..Len(pad) : Legal(pad[i], catalog)
  <2>1. n \in Nat
    BY <1>3, <1>12 DEF cap
  <2>2. \A i \in 1..n : pad[i] \in Drawn(K) /\ Legal(pad[i], catalog)
    BY <1>1, <1>12
  <2>3. pad \in Seq(Drawn(K)) /\ Len(pad) = n
    BY <1>12, <2>1, <2>2
  <2> QED
    BY <2>2, <2>3
<1> DEFINE xs == head \o pad
<1>7. /\ xs \in Seq(Drawn(K)) /\ Len(xs) = Len(head) + Len(pad) /\ Len(pad) \in Nat /\ Len(head) \in Nat
      /\ \A i \in 1..Len(xs) : xs[i] = IF i <= Len(head) THEN head[i] ELSE pad[i - Len(head)]
  BY <1>5, <1>6
<1>8. Len(xs) >= 1 /\ xs[1] = head[1] /\ xs # <<>>
  BY <1>5, <1>7
<1>9. \A i \in 1..Len(xs) : Legal(xs[i], catalog)
  <2> SUFFICES ASSUME NEW i \in 1..Len(xs) PROVE Legal(xs[i], catalog)
    OBVIOUS
  <2> HIDE DEF xs
  <2>1. CASE i <= Len(head)
    <3>1. i \in 1..Len(head) /\ xs[i] = head[i]
      BY <1>7, <2>1
    <3> QED
      BY <1>5, <3>1
  <2>2. CASE ~(i <= Len(head))
    <3>1. i - Len(head) \in 1..Len(pad) /\ xs[i] = pad[i - Len(head)]
      BY <1>7, <2>2
    <3> QED
      BY <1>6, <3>1
  <2> QED
    BY <2>1, <2>2
<1> HIDE DEF xs
<1>10. /\ g \in Seq(Drawn(K)) /\ Valid(g, catalog) /\ Len(g) >= 1 /\ g[1] = head[1]
  <2>1. cap \in 1..MaxPredicates
    BY <1>3 DEF cap
  <2>2. g = FirstByKey(xs, cap)
    BY <1>4 DEF xs
  <2>3. xs \in Seq(Drawn(K)) /\ xs # <<>> /\ xs[1] = head[1]
    BY <1>7, <1>8
  <2> HIDE DEF cap
  <2>4. \A ys \in Seq(Drawn(K)), m \in 1..MaxPredicates :
          ys # <<>> /\ (\A i \in 1..Len(ys) : Legal(ys[i], catalog)) =>
            /\ FirstByKey(ys, m) \in Seq(Drawn(K)) /\ Valid(FirstByKey(ys, m), catalog)
            /\ Len(FirstByKey(ys, m)) >= 1 /\ FirstByKey(ys, m)[1] = ys[1]
    BY KeptIsValid
  <2> QED
    BY <1>9, <2>1, <2>2, <2>3, <2>4
<1>11. HasActionable(g)
  <2>1. 1 \in DOMAIN g
    BY <1>10
  <2>2. g[1].layer \in ActionableLayers
    BY <1>2, <1>5, <1>10
  <2> QED
    BY <2>1, <2>2 DEF HasActionable
<1> QED
  BY <1>10, <1>11

(* The layer an archetype looks for a feature in is the feature's.         *)
KnowsArchetypes(catalog) ==
  \A a \in DOMAIN Archetypes : \A i \in DOMAIN Archetypes[a] : \A s \in catalog :
    s.key = Archetypes[a][i][2] => s.layer = Archetypes[a][i][1]

ArchetypeOf(rows) ==
  /\ DOMAIN rows = 1..3
  /\ \A i \in 1..3 : rows[i][3] \in {"gt", "lt"} /\ rows[i][4] \in Int
  /\ \A i, j \in 1..3 : rows[i][2] = rows[j][2] => i = j

IsRow(row, key) ==
  /\ row[2] = key /\ row[3] \in {"gt", "lt"} /\ row[4] \in Int

LEMMA RowIs ==
  ASSUME NEW l, NEW key, NEW op \in {"gt", "lt"}, NEW q \in Int
  PROVE  IsRow(<<l, key, op, q>>, key)
BY DEF IsRow

LEMMA ThreeRows ==
  ASSUME NEW a, NEW b, NEW c, NEW k, NEW l, NEW m, IsRow(a, k), IsRow(b, l), IsRow(c, m),
         k # l, k # m, l # m
  PROVE  ArchetypeOf(<<a, b, c>>)
BY DEF ArchetypeOf, IsRow

LEMMA ArchetypesAreShort ==
  ASSUME NEW a \in DOMAIN Archetypes
  PROVE  ArchetypeOf(Archetypes[a])
<1>1. \/ a = "trend_follow_long" \/ a = "rs_breakout_long" \/ a = "mean_revert_long"
      \/ a = "vwap_reclaim_long" \/ a = "trend_follow_short" \/ a = "rs_breakdown_short"
      \/ a = "mean_revert_short"
  BY DEF Archetypes
<1>2. ArchetypeOf(Archetypes.trend_follow_long)
  <2>1. Archetypes.trend_follow_long
          = <<<<"regime", "adx", "gt", 65>>,
             <<"location", "dist_50dma", "gt", 60>>,
             <<"trigger", "momentum_roc", "gt", 60>>>>
    BY DEF Archetypes
  <2>2. /\ IsRow(<<"regime", "adx", "gt", 65>>, "adx")
        /\ IsRow(<<"location", "dist_50dma", "gt", 60>>, "dist_50dma")
        /\ IsRow(<<"trigger", "momentum_roc", "gt", 60>>, "momentum_roc")
    BY RowIs
  <2>3. "adx" # "dist_50dma" /\ "adx" # "momentum_roc" /\ "dist_50dma" # "momentum_roc"
    OBVIOUS
  <2>4. ArchetypeOf(<<<<"regime", "adx", "gt", 65>>, <<"location", "dist_50dma", "gt", 60>>,
                    <<"trigger", "momentum_roc", "gt", 60>>>>)
    BY <2>2, <2>3, ThreeRows
  <2> QED
    BY <2>1, <2>4
<1>3. ArchetypeOf(Archetypes.rs_breakout_long)
  <2>1. Archetypes.rs_breakout_long
          = <<<<"regime", "adx", "gt", 55>>,
             <<"trigger", "rs_vs_spy", "gt", 70>>,
             <<"location", "pct_range_position", "gt", 70>>>>
    BY DEF Archetypes
  <2>2. /\ IsRow(<<"regime", "adx", "gt", 55>>, "adx")
        /\ IsRow(<<"trigger", "rs_vs_spy", "gt", 70>>, "rs_vs_spy")
        /\ IsRow(<<"location", "pct_range_position", "gt", 70>>, "pct_range_position")
    BY RowIs
  <2>3. "adx" # "rs_vs_spy" /\ "adx" # "pct_range_position" /\ "rs_vs_spy" # "pct_range_position"
    OBVIOUS
  <2>4. ArchetypeOf(<<<<"regime", "adx", "gt", 55>>, <<"trigger", "rs_vs_spy", "gt", 70>>,
                    <<"location", "pct_range_position", "gt", 70>>>>)
    BY <2>2, <2>3, ThreeRows
  <2> QED
    BY <2>1, <2>4
<1>4. ArchetypeOf(Archetypes.mean_revert_long)
  <2>1. Archetypes.mean_revert_long
          = <<<<"trigger", "rsi14", "lt", 25>>,
             <<"location", "dist_200dma", "gt", 45>>,
             <<"regime", "adx", "lt", 50>>>>
    BY DEF Archetypes
  <2>2. /\ IsRow(<<"trigger", "rsi14", "lt", 25>>, "rsi14")
        /\ IsRow(<<"location", "dist_200dma", "gt", 45>>, "dist_200dma")
        /\ IsRow(<<"regime", "adx", "lt", 50>>, "adx")
    BY RowIs
  <2>3. "rsi14" # "dist_200dma" /\ "rsi14" # "adx" /\ "dist_200dma" # "adx"
    OBVIOUS
  <2>4. ArchetypeOf(<<<<"trigger", "rsi14", "lt", 25>>, <<"location", "dist_200dma", "gt", 45>>,
                    <<"regime", "adx", "lt", 50>>>>)
    BY <2>2, <2>3, ThreeRows
  <2> QED
    BY <2>1, <2>4
<1>5. ArchetypeOf(Archetypes.vwap_reclaim_long)
  <2>1. Archetypes.vwap_reclaim_long
          = <<<<"location", "anchored_vwap_dist", "lt", 30>>,
             <<"trigger", "rsi14", "lt", 35>>,
             <<"regime", "rv_percentile", "lt", 60>>>>
    BY DEF Archetypes
  <2>2. /\ IsRow(<<"location", "anchored_vwap_dist", "lt", 30>>, "anchored_vwap_dist")
        /\ IsRow(<<"trigger", "rsi14", "lt", 35>>, "rsi14")
        /\ IsRow(<<"regime", "rv_percentile", "lt", 60>>, "rv_percentile")
    BY RowIs
  <2>3. "anchored_vwap_dist" # "rsi14" /\ "anchored_vwap_dist" # "rv_percentile" /\ "rsi14" # "rv_percentile"
    OBVIOUS
  <2>4. ArchetypeOf(<<<<"location", "anchored_vwap_dist", "lt", 30>>, <<"trigger", "rsi14", "lt", 35>>,
                    <<"regime", "rv_percentile", "lt", 60>>>>)
    BY <2>2, <2>3, ThreeRows
  <2> QED
    BY <2>1, <2>4
<1>6. ArchetypeOf(Archetypes.trend_follow_short)
  <2>1. Archetypes.trend_follow_short
          = <<<<"regime", "adx", "gt", 65>>,
             <<"location", "dist_50dma", "lt", 40>>,
             <<"trigger", "momentum_roc", "lt", 40>>>>
    BY DEF Archetypes
  <2>2. /\ IsRow(<<"regime", "adx", "gt", 65>>, "adx")
        /\ IsRow(<<"location", "dist_50dma", "lt", 40>>, "dist_50dma")
        /\ IsRow(<<"trigger", "momentum_roc", "lt", 40>>, "momentum_roc")
    BY RowIs
  <2>3. "adx" # "dist_50dma" /\ "adx" # "momentum_roc" /\ "dist_50dma" # "momentum_roc"
    OBVIOUS
  <2>4. ArchetypeOf(<<<<"regime", "adx", "gt", 65>>, <<"location", "dist_50dma", "lt", 40>>,
                    <<"trigger", "momentum_roc", "lt", 40>>>>)
    BY <2>2, <2>3, ThreeRows
  <2> QED
    BY <2>1, <2>4
<1>7. ArchetypeOf(Archetypes.rs_breakdown_short)
  <2>1. Archetypes.rs_breakdown_short
          = <<<<"regime", "adx", "gt", 55>>,
             <<"trigger", "rs_vs_spy", "lt", 30>>,
             <<"location", "pct_range_position", "lt", 30>>>>
    BY DEF Archetypes
  <2>2. /\ IsRow(<<"regime", "adx", "gt", 55>>, "adx")
        /\ IsRow(<<"trigger", "rs_vs_spy", "lt", 30>>, "rs_vs_spy")
        /\ IsRow(<<"location", "pct_range_position", "lt", 30>>, "pct_range_position")
    BY RowIs
  <2>3. "adx" # "rs_vs_spy" /\ "adx" # "pct_range_position" /\ "rs_vs_spy" # "pct_range_position"
    OBVIOUS
  <2>4. ArchetypeOf(<<<<"regime", "adx", "gt", 55>>, <<"trigger", "rs_vs_spy", "lt", 30>>,
                    <<"location", "pct_range_position", "lt", 30>>>>)
    BY <2>2, <2>3, ThreeRows
  <2> QED
    BY <2>1, <2>4
<1>8. ArchetypeOf(Archetypes.mean_revert_short)
  <2>1. Archetypes.mean_revert_short
          = <<<<"trigger", "rsi14", "gt", 75>>,
             <<"location", "dist_200dma", "gt", 70>>,
             <<"regime", "adx", "lt", 50>>>>
    BY DEF Archetypes
  <2>2. /\ IsRow(<<"trigger", "rsi14", "gt", 75>>, "rsi14")
        /\ IsRow(<<"location", "dist_200dma", "gt", 70>>, "dist_200dma")
        /\ IsRow(<<"regime", "adx", "lt", 50>>, "adx")
    BY RowIs
  <2>3. "rsi14" # "dist_200dma" /\ "rsi14" # "adx" /\ "dist_200dma" # "adx"
    OBVIOUS
  <2>4. ArchetypeOf(<<<<"trigger", "rsi14", "gt", 75>>, <<"location", "dist_200dma", "gt", 70>>,
                    <<"regime", "adx", "lt", 50>>>>)
    BY <2>2, <2>3, ThreeRows
  <2> QED
    BY <2>1, <2>4
<1> QED
  BY <1>1, <1>2, <1>3, <1>4, <1>5, <1>6, <1>7, <1>8

StatFor(catalog, key) == CHOOSE s \in catalog : s.key = key

Bound(catalog, row) ==
  [layer |-> row[1], key |-> row[2], op |-> row[3],
   threshold |-> Quantile(StatFor(catalog, row[2]).values, row[4])]

LEMMA ArchetypeSeedsAreValid ==
  ASSUME NEW K, NEW catalog, IsCatalog(catalog, K), KnowsArchetypes(catalog),
         NEW g \in ArchetypeSeeds(catalog)
  PROVE  Valid(g, catalog) /\ HasActionable(g)
<1>1. PICK a \in DOMAIN Archetypes :
        /\ \A i \in DOMAIN Archetypes[a] : Archetypes[a][i][2] \in {s.key : s \in catalog}
        /\ g = [i \in DOMAIN Archetypes[a] |-> Bound(catalog, Archetypes[a][i])]
        /\ HasActionable(g)
  BY DEF ArchetypeSeeds, Bound, StatFor
<1> DEFINE rows == Archetypes[a]
<1>2. /\ DOMAIN rows = 1..3
      /\ \A i \in 1..3 : rows[i][4] \in Int
      /\ \A i, j \in 1..3 : rows[i][2] = rows[j][2] => i = j
  BY ArchetypesAreShort DEF ArchetypeOf
<1>3. \A i \in 1..3 : \A s \in catalog : s.key = rows[i][2] => s.layer = rows[i][1]
  BY <1>2 DEF KnowsArchetypes
<1>4. \A i \in 1..3 : rows[i][2] \in {s.key : s \in catalog}
  BY <1>1, <1>2
<1>5. g = [i \in 1..3 |-> Bound(catalog, rows[i])]
  BY <1>1, <1>2
<1> HIDE DEF rows
<1>6. ASSUME NEW i \in 1..3
      PROVE  Legal(g[i], catalog) /\ g[i].key = rows[i][2]
  <2> DEFINE s == StatFor(catalog, rows[i][2])
  <2>1. s \in catalog /\ s.key = rows[i][2]
    BY <1>4 DEF StatFor
  <2>2. s.layer = rows[i][1] /\ s.values \in Seq(Int) \ {<<>>}
    BY <1>3, <2>1 DEF IsCatalog, Stat
  <2>3. Contains(s.values, Quantile(s.values, rows[i][4]))
    BY <1>2, <2>2, QuantileIsObserved
  <2>4. /\ g[i].key = rows[i][2] /\ g[i].layer = rows[i][1]
        /\ g[i].threshold = Quantile(s.values, rows[i][4])
    BY <1>5 DEF Bound
  <2> HIDE DEF s
  <2> QED
    BY <2>1, <2>2, <2>3, <2>4 DEF Legal
<1> DEFINE P == {g[i] : i \in 1..3}
<1>7. g \in Seq(P) /\ Len(g) = 3
  <2>1. g \in [1..3 -> P]
    BY <1>5
  <2> HIDE DEF P
  <2>2. \A n \in Nat : \A h \in [1..n -> P] : h \in Seq(P) /\ Len(h) = n
    OBVIOUS
  <2> QED
    BY <2>1, <2>2
<1>8. Distinct(g)
  BY <1>2, <1>6, <1>7 DEF Distinct
<1> HIDE DEF P
<1>9. Valid(g, catalog)
  <2>1. Len(g) >= 1 /\ Len(g) <= MaxPredicates
    BY <1>7 DEF MaxPredicates
  <2> QED
    BY <1>6, <1>7, <1>8, <2>1, ValidIsLegal
<1> QED
  BY <1>1, <1>9

(* seed.rs: seeds read distinct features of the catalog, at thresholds     *)
(* these have had, and the promotable ones have a trigger or a location,   *)
(* for every catalog that knows the layers of the archetypes.              *)
THEOREM EverySeedIsObserved ==
  ASSUME NEW K, NEW catalog, IsCatalog(catalog, K), KnowsArchetypes(catalog),
         NEW most \in 1..MaxPredicates
  PROVE  SeedsAreObserved(catalog, most)
BY RandomAreValid, PromotableSeedsAreValid, ArchetypeSeedsAreValid DEF SeedsAreObserved

-----------------------------------------------------------------------------
(* A genome that can be bred from.                                         *)
IsGenome(g, catalog, K) == g \in Seq(Drawn(K)) /\ Valid(g, catalog)

LEMMA GenomeIs ==
  ASSUME NEW K, NEW catalog, NEW g, IsGenome(g, catalog, K)
  PROVE  /\ g \in Seq(Drawn(K)) /\ Len(g) \in Nat /\ DOMAIN g = 1..Len(g)
         /\ Len(g) >= 1 /\ Len(g) <= MaxPredicates /\ Distinct(g)
         /\ \A i \in 1..Len(g) : Legal(g[i], catalog) /\ g[i] \in Drawn(K)
BY ValidIsLegal DEF IsGenome

LEMMA ValidIfLegal ==
  ASSUME NEW K, NEW catalog, NEW h \in Seq(Drawn(K)), Len(h) >= 1, Len(h) <= MaxPredicates,
         Distinct(h), \A i \in 1..Len(h) : Legal(h[i], catalog)
  PROVE  IsGenome(h, catalog, K)
BY ValidIsLegal DEF IsGenome

(* A predicate replaced by one of a feature the genome does not read       *)
(* elsewhere.                                                              *)
LEMMA ReplacedIsValid ==
  ASSUME NEW K, NEW catalog, NEW g, IsGenome(g, catalog, K), NEW i \in DOMAIN g,
         NEW p \in Drawn(K), Legal(p, catalog), Free(g, i, p)
  PROVE  Valid([g EXCEPT ![i] = p], catalog)
<1> DEFINE h == [g EXCEPT ![i] = p]
<1>1. /\ g \in Seq(Drawn(K)) /\ Len(g) \in Nat /\ DOMAIN g = 1..Len(g)
      /\ Len(g) >= 1 /\ Len(g) <= MaxPredicates /\ Distinct(g)
      /\ \A j \in 1..Len(g) : Legal(g[j], catalog) /\ g[j] \in Drawn(K)
  BY GenomeIs
<1>2. h \in Seq(Drawn(K)) /\ Len(h) = Len(g) /\ \A j \in 1..Len(g) : h[j] = IF j = i THEN p ELSE g[j]
  BY <1>1
<1> HIDE DEF h
<1>3. \A j \in 1..Len(g) : j # i => g[j].key # p.key
  BY <1>1 DEF Free
<1>4. Distinct(h)
  BY <1>1, <1>2, <1>3 DEF Distinct
<1>5. \A j \in 1..Len(h) : Legal(h[j], catalog)
  BY <1>1, <1>2
<1>6. IsGenome(h, catalog, K)
  BY <1>1, <1>2, <1>4, <1>5, ValidIfLegal
<1> QED
  BY <1>6 DEF IsGenome, h

LEMMA PerturbedIsValid ==
  ASSUME NEW K, NEW catalog, IsCatalog(catalog, K), NEW g, IsGenome(g, catalog, K), NEW span \in Int,
         NEW h \in Perturbed(g, catalog, span)
  PROVE  Valid(h, catalog)
<1>1. PICK i \in DOMAIN g : \E s \in {c \in catalog : c.key = g[i].key /\ Len(c.values) >= 2} :
        \E t \in Near(s, g[i].threshold, span) : h = [g EXCEPT ![i].threshold = t]
  BY DEF Perturbed
<1>2. PICK s \in catalog : /\ s.key = g[i].key /\ Len(s.values) >= 2
        /\ \E t \in Near(s, g[i].threshold, span) : h = [g EXCEPT ![i].threshold = t]
  BY <1>1
<1>3. PICK t \in Near(s, g[i].threshold, span) : h = [g EXCEPT ![i].threshold = t]
  BY <1>2
<1>4. /\ Distinct(g) /\ DOMAIN g = 1..Len(g) /\ g[i] \in Drawn(K) /\ Legal(g[i], catalog)
  BY GenomeIs
<1>5. s.layer = g[i].layer /\ s.values \in Seq(Int) \ {<<>>}
  BY <1>2, <1>4 DEF IsCatalog, Stat, Legal
<1>6. t \in Int /\ Contains(s.values, t)
  <2> DEFINE n == Len(s.values)
             below == Cardinality({j \in DOMAIN s.values : s.values[j] < g[i].threshold})
             rank == (100 * below) \div (n - 1)
  <2>1. PICK q \in {rank + d : d \in {-(span \div 2), 0, span \div 2}} : t = Quantile(s.values, q)
    BY <1>3 DEF Near
  <2>2. below \in Nat
    <3>1. DOMAIN s.values = 1..n /\ n \in Nat
      BY <1>5
    <3>2. IsFiniteSet(1..n)
      BY <3>1, FS_Interval
    <3> QED
      BY <3>1, <3>2, FS_Subset, FS_CardinalityType
  <2>3. n - 1 \in Nat \ {0}
    <3>1. n \in Nat /\ n >= 2
      BY <1>2, <1>5
    <3> HIDE DEF n
    <3> QED
      BY <3>1
  <2> HIDE DEF below, n
  <2>4. rank \in Int
    <3>1. \A x \in Int : \A y \in Nat \ {0} : x \div y \in Int
      OBVIOUS
    <3>2. 100 * below \in Int
      BY <2>2
    <3> QED
      BY <2>3, <3>1, <3>2
  <2> HIDE DEF rank
  <2>5. q \in Int
    BY <2>1, <2>4
  <2> QED
    BY <1>5, <2>1, <2>5, QuantileIsObserved
<1> DEFINE p == [g[i] EXCEPT !.threshold = t]
<1>7. p \in Drawn(K) /\ p.key = g[i].key /\ p.layer = g[i].layer /\ p.threshold = t
  BY <1>4, <1>6 DEF Drawn
<1>8. h = [g EXCEPT ![i] = p]
  BY <1>3
<1> HIDE DEF p
<1>9. Legal(p, catalog)
  BY <1>2, <1>5, <1>6, <1>7 DEF Legal
<1>10. Free(g, i, p)
  BY <1>4, <1>7 DEF Free, Distinct
<1> QED
  BY <1>7, <1>8, <1>9, <1>10, ReplacedIsValid

LEMMA FlippedIsValid ==
  ASSUME NEW K, NEW catalog, NEW g, IsGenome(g, catalog, K), NEW h \in Flipped(g)
  PROVE  Valid(h, catalog)
<1>1. PICK i \in DOMAIN g : h = [g EXCEPT ![i].op = Opposite(@)]
  BY DEF Flipped
<1>2. /\ Distinct(g) /\ DOMAIN g = 1..Len(g) /\ g[i] \in Drawn(K) /\ Legal(g[i], catalog)
  BY GenomeIs
<1> DEFINE p == [g[i] EXCEPT !.op = Opposite(@)]
<1>3. p \in Drawn(K) /\ p.key = g[i].key /\ p.layer = g[i].layer /\ p.threshold = g[i].threshold
  <2>1. g[i].op \in {"gt", "lt"}
    BY <1>2 DEF Drawn
  <2>2. Opposite(g[i].op) \in {"gt", "lt"}
    BY <2>1 DEF Opposite
  <2> QED
    BY <1>2, <2>2 DEF Drawn
<1>4. h = [g EXCEPT ![i] = p]
  BY <1>1
<1> HIDE DEF p
<1>5. Legal(p, catalog) /\ Free(g, i, p)
  BY <1>2, <1>3 DEF Legal, Free, Distinct
<1> QED
  BY <1>3, <1>4, <1>5, ReplacedIsValid

LEMMA SwappedIsValid ==
  ASSUME NEW K, NEW catalog, IsCatalog(catalog, K), NEW g, IsGenome(g, catalog, K), NEW layers,
         NEW i \in DOMAIN g, NEW h \in SwappedAt(g, i, Draws(catalog, layers))
  PROVE  Valid(h, catalog)
<1>1. PICK p \in Draws(catalog, layers) : Free(g, i, p) /\ h = [g EXCEPT ![i] = p]
  BY DEF SwappedAt
<1>2. p \in Drawn(K) /\ Legal(p, catalog)
  BY DrawsAreLegal
<1> QED
  BY <1>1, <1>2, ReplacedIsValid

LEMMA AddedIsValid ==
  ASSUME NEW K, NEW catalog, IsCatalog(catalog, K), NEW g, IsGenome(g, catalog, K), NEW layers,
         NEW h \in Added(g, Draws(catalog, layers))
  PROVE  Valid(h, catalog)
<1>1. PICK p \in Draws(catalog, layers) :
        ~(Len(g) >= MaxPredicates) /\ p.key \notin Keys(g) /\ h = Append(g, p)
  BY DEF Added
<1>2. p \in Drawn(K) /\ Legal(p, catalog)
  BY DrawsAreLegal
<1>3. /\ g \in Seq(Drawn(K)) /\ Len(g) \in Nat /\ DOMAIN g = 1..Len(g) /\ Distinct(g)
      /\ \A j \in 1..Len(g) : Legal(g[j], catalog)
  BY GenomeIs
<1>4. /\ h \in Seq(Drawn(K)) /\ Len(h) = Len(g) + 1 /\ h[Len(g) + 1] = p
      /\ \A j \in 1..Len(g) : h[j] = g[j]
      /\ \A j \in 1..Len(h) : j \in 1..Len(g) \/ j = Len(g) + 1
  BY <1>1, <1>2, <1>3
<1>5. \A j \in 1..Len(g) : g[j].key # p.key
  BY <1>1, <1>3 DEF Keys
<1>6. Distinct(h)
  BY <1>3, <1>4, <1>5 DEF Distinct
<1>7. \A j \in 1..Len(h) : Legal(h[j], catalog)
  BY <1>2, <1>3, <1>4
<1>8. Len(h) >= 1 /\ Len(h) <= MaxPredicates
  BY <1>1, <1>3, <1>4 DEF MaxPredicates
<1>9. IsGenome(h, catalog, K)
  BY <1>4, <1>6, <1>7, <1>8, ValidIfLegal
<1> QED
  BY <1>9 DEF IsGenome

LEMMA RemovedIsValid ==
  ASSUME NEW K, NEW catalog, NEW g, IsGenome(g, catalog, K), NEW h \in Removed(g)
  PROVE  Valid(h, catalog)
<1> DEFINE n == Len(g)
<1>1. PICK i \in DOMAIN g : n > 1 /\ h = RemoveAt(g, i)
  <2>1. n \in Nat
    BY GenomeIs
  <2> QED
    BY <2>1 DEF Removed
<1>2. /\ g \in Seq(Drawn(K)) /\ n \in Nat /\ DOMAIN g = 1..n /\ n <= MaxPredicates /\ Distinct(g)
      /\ \A j \in 1..n : Legal(g[j], catalog)
  BY GenomeIs
<1> DEFINE left == SubSeq(g, 1, i - 1)
           right == SubSeq(g, i + 1, n)
<1>3. /\ left \in Seq(Drawn(K)) /\ Len(left) = i - 1 /\ \A j \in 1..(i - 1) : left[j] = g[j]
      /\ right \in Seq(Drawn(K)) /\ Len(right) = n - i /\ \A j \in 1..(n - i) : right[j] = g[j + i]
  <2>1. i \in Int /\ 1 <= i /\ i <= n /\ i - 1 \in Int /\ i + 1 \in Int
    BY <1>2
  <2>2. \A j \in 1..n : g[j] \in Drawn(K)
    BY <1>2
  <2>3. /\ \A j \in 1..(i - 1) : g[j] \in Drawn(K)
        /\ \A j \in (i + 1)..n : g[j] \in Drawn(K)
    BY <1>2, <2>1, <2>2
  <2>4. /\ left \in Seq(Drawn(K)) /\ Len(left) = i - 1
        /\ \A j \in 1..(i - 1) : left[j] = g[j]
    <3>1. /\ left \in Seq(Drawn(K))
          /\ Len(left) = IF 1 <= i - 1 THEN (i - 1) - 1 + 1 ELSE 0
          /\ \A j \in 1..((i - 1) - 1 + 1) : left[j] = g[1 + j - 1]
      BY <2>1, <2>3, SubSeqProperties
    <3> HIDE DEF left
    <3> QED
      BY <2>1, <3>1
  <2>5. /\ right \in Seq(Drawn(K)) /\ Len(right) = n - i
        /\ \A j \in 1..(n - i) : right[j] = g[j + i]
    <3>1. /\ right \in Seq(Drawn(K))
          /\ Len(right) = IF i + 1 <= n THEN n - (i + 1) + 1 ELSE 0
          /\ \A j \in 1..(n - (i + 1) + 1) : right[j] = g[(i + 1) + j - 1]
      BY <1>2, <2>1, <2>3, SubSeqProperties
    <3> HIDE DEF right, n
    <3>2. n \in Int /\ n - (i + 1) + 1 = n - i /\ (i + 1 <= n \/ n - i = 0)
      BY <1>2, <2>1
    <3>3. \A j \in Int : (i + 1) + j - 1 = j + i
      BY <2>1
    <3>4. \A j \in 1..(n - i) : right[j] = g[j + i]
      <4> SUFFICES ASSUME NEW j \in 1..(n - i) PROVE right[j] = g[j + i]
        OBVIOUS
      <4>1. j \in 1..(n - (i + 1) + 1)
        BY <3>2
      <4>2. right[j] = g[(i + 1) + j - 1]
        BY ONLY <3>1, <4>1
      <4>3. (i + 1) + j - 1 = j + i
        BY <3>2, <3>3
      <4> QED
        BY ONLY <4>2, <4>3
    <3>5. Len(right) = n - i
      BY <2>1, <3>1, <3>2
    <3> QED
      BY <3>1, <3>4, <3>5
  <2> QED
    BY <2>4, <2>5
<1>4. h = left \o right
  BY <1>1 DEF RemoveAt
<1> HIDE DEF left, right, n
<1>5. i \in 1..n
  BY <1>2
<1>6. /\ h \in Seq(Drawn(K)) /\ Len(h) = n - 1
      /\ \A j \in 1..(n - 1) : h[j] = g[IF j < i THEN j ELSE j + 1]
  <2>1. h \in Seq(Drawn(K)) /\ Len(h) = (i - 1) + (n - i)
        /\ \A j \in 1..((i - 1) + (n - i)) : h[j] = IF j <= i - 1 THEN left[j] ELSE right[j - (i - 1)]
    BY <1>3, <1>4
  <2>2. (i - 1) + (n - i) = n - 1
    BY <1>2, <1>5
  <2>3. ASSUME NEW j \in 1..(n - 1)
        PROVE  h[j] = g[IF j < i THEN j ELSE j + 1]
    <3>1. CASE j < i
      <4>1. j \in 1..(i - 1) /\ j <= i - 1
        BY <1>2, <1>5, <3>1
      <4> QED
        BY <1>3, <2>1, <2>2, <3>1, <4>1
    <3>2. CASE ~(j < i)
      <4>1. ~(j <= i - 1) /\ j - (i - 1) \in 1..(n - i) /\ (j - (i - 1)) + i = j + 1
        BY <1>2, <1>5, <3>2
      <4> QED
        BY <1>3, <2>1, <2>2, <3>2, <4>1
    <3> QED
      BY <3>1, <3>2
  <2> QED
    BY <2>1, <2>2, <2>3
<1>7. \A j \in 1..(n - 1) : (IF j < i THEN j ELSE j + 1) \in 1..n
  BY <1>2, <1>5
<1>8. \A j, k \in 1..(n - 1) : (IF j < i THEN j ELSE j + 1) = (IF k < i THEN k ELSE k + 1) => j = k
  BY <1>2, <1>5
<1>9. Distinct(h)
  <2> SUFFICES ASSUME NEW j \in 1..(n - 1), NEW k \in 1..(n - 1), h[j].key = h[k].key
               PROVE  j = k
    BY <1>6 DEF Distinct
  <2> DEFINE at(l) == IF l < i THEN l ELSE l + 1
  <2>1. at(j) \in 1..n /\ at(k) \in 1..n /\ h[j] = g[at(j)] /\ h[k] = g[at(k)]
        /\ (at(j) = at(k) => j = k)
    BY <1>6, <1>7, <1>8
  <2> HIDE DEF at
  <2> QED
    BY <1>2, <2>1 DEF Distinct, n
<1>10. \A j \in 1..Len(h) : Legal(h[j], catalog)
  BY <1>2, <1>6, <1>7
<1>11. Len(h) >= 1 /\ Len(h) <= MaxPredicates
  <2>1. n > 1
    BY <1>1 DEF n
  <2> QED
    BY <1>2, <1>6, <2>1 DEF MaxPredicates
<1>12. IsGenome(h, catalog, K)
  BY <1>6, <1>9, <1>10, <1>11, ValidIfLegal
<1> QED
  BY <1>12 DEF IsGenome

LEMMA MutationsAreValid ==
  ASSUME NEW K, NEW catalog, IsCatalog(catalog, K), NEW g, IsGenome(g, catalog, K),
         NEW h \in Mutations(g, catalog)
  PROVE  Valid(h, catalog)
<1>1. CASE h = g
  BY <1>1 DEF IsGenome
<1>2. CASE h \in Perturbed(g, catalog, 30) \cup Perturbed(g, catalog, 80)
  <2>1. 30 \in Int /\ 80 \in Int
    OBVIOUS
  <2> QED
    BY <1>2, <2>1, PerturbedIsValid
<1>3. CASE h \in Flipped(g) \cup Removed(g)
  BY <1>3, FlippedIsValid, RemovedIsValid
<1>4. CASE \E layers : h \in Added(g, Draws(catalog, layers))
  BY <1>4, AddedIsValid
<1>5. CASE \E layers : \E i \in DOMAIN g : h \in SwappedAt(g, i, Draws(catalog, layers))
  BY <1>5, SwappedIsValid
<1> DEFINE swaps == UNION {SwappedAt(g, i, Draws(catalog, Layers)) : i \in DOMAIN g}
           rare == UNION {Added(g, Draws(catalog, {l})) : l \in Missing(g, catalog)}
           moves == UNION {SwappedAt(g, i, Draws(catalog, Layers \ {g[i].layer})) : i \in DOMAIN g}
<1>6. \/ h = g \/ h \in Perturbed(g, catalog, 30) \/ h \in Flipped(g) \/ h \in swaps
      \/ h \in Added(g, Draws(catalog, Layers)) \/ h \in Removed(g) \/ h \in rare
      \/ h \in moves \/ h \in Perturbed(g, catalog, 80)
  <2>1. Mutations(g, catalog)
          = IF catalog = {} THEN {g}
            ELSE {g} \cup Perturbed(g, catalog, 30) \cup Flipped(g) \cup swaps
              \cup Added(g, Draws(catalog, Layers)) \cup Removed(g) \cup rare \cup moves
              \cup Perturbed(g, catalog, 80)
    BY DEF Mutations
  <2> HIDE DEF swaps, rare, moves
  <2> QED
    BY <2>1
<1>7. h \in swaps => \E layers : \E i \in DOMAIN g : h \in SwappedAt(g, i, Draws(catalog, layers))
  OBVIOUS
<1>8. h \in rare => \E layers : h \in Added(g, Draws(catalog, layers))
  OBVIOUS
<1>9. h \in moves => \E layers : \E i \in DOMAIN g : h \in SwappedAt(g, i, Draws(catalog, layers))
  OBVIOUS
<1> HIDE DEF swaps, rare, moves
<1> QED
  BY <1>1, <1>2, <1>3, <1>4, <1>5, <1>6, <1>7, <1>8, <1>9

(* The child of two genomes keeps a prefix of one and what is new in the   *)
(* other, and a trigger or location of either if nothing was cut away.     *)
LEMMA CrossoversAreValid ==
  ASSUME NEW K, NEW catalog, IsCatalog(catalog, K), NEW a, IsGenome(a, catalog, K),
         NEW b, IsGenome(b, catalog, K), NEW h \in Crossovers(a, b)
  PROVE  /\ Valid(h, catalog)
         /\ HasActionable(b) /\ Len(a) + Len(b) <= MaxPredicates => HasActionable(h)
<1>1. PICK cut \in 1..Len(a) : h = FirstByKey(SubSeq(a, 1, cut) \o b, MaxPredicates)
  BY DEF Crossovers
<1>2. /\ a \in Seq(Drawn(K)) /\ Len(a) \in Nat /\ b \in Seq(Drawn(K)) /\ Len(b) \in Nat
      /\ Len(a) >= 1 /\ Len(b) >= 1 /\ DOMAIN b = 1..Len(b)
      /\ \A i \in 1..Len(a) : Legal(a[i], catalog)
      /\ \A i \in 1..Len(b) : Legal(b[i], catalog)
  BY GenomeIs
<1> DEFINE head == SubSeq(a, 1, cut)
           xs == head \o b
<1>3. head \in Seq(Drawn(K)) /\ Len(head) = cut /\ \A i \in 1..cut : head[i] = a[i]
  BY <1>2
<1> HIDE DEF head
<1>4. /\ xs \in Seq(Drawn(K)) /\ Len(xs) = cut + Len(b)
      /\ \A i \in 1..(cut + Len(b)) : xs[i] = IF i <= cut THEN head[i] ELSE b[i - cut]
  BY <1>2, <1>3, ConcatProperties
<1>5. xs # <<>>
  BY <1>2, <1>4
<1>6. \A i \in 1..Len(xs) : Legal(xs[i], catalog)
  <2> SUFFICES ASSUME NEW i \in 1..(cut + Len(b)) PROVE Legal(xs[i], catalog)
    BY <1>4
  <2>1. CASE i <= cut
    <3>1. i \in 1..cut /\ i \in 1..Len(a)
      BY <1>2, <2>1
    <3> QED
      BY <1>2, <1>3, <1>4, <2>1, <3>1
  <2>2. CASE ~(i <= cut)
    <3>1. i - cut \in 1..Len(b)
      BY <1>2, <2>2
    <3> QED
      BY <1>2, <1>4, <2>2, <3>1
  <2> QED
    BY <2>1, <2>2
<1>7. h = FirstByKey(xs, MaxPredicates)
  BY <1>1 DEF head
<1> HIDE DEF xs
<1>8. MaxPredicates \in 1..MaxPredicates /\ MaxPredicates \in Nat \ {0}
  BY DEF MaxPredicates
<1>9. Valid(h, catalog)
  BY <1>4, <1>5, <1>6, <1>7, <1>8, KeptIsValid
<1>10. ASSUME HasActionable(b), Len(a) + Len(b) <= MaxPredicates
       PROVE  HasActionable(h)
  <2>1. h \in Seq(Drawn(K)) /\ KeptOf(xs, MaxPredicates, h, Len(xs))
    BY <1>4, <1>7, <1>8, FirstByKeyKeeps
  <2>2. Len(xs) <= MaxPredicates
    BY <1>2, <1>4, <1>10 DEF MaxPredicates
  <2>3. PICK j \in 1..Len(b) : b[j].layer \in ActionableLayers
    BY <1>2, <1>10 DEF HasActionable
  <2>4. cut + j \in 1..Len(xs) /\ xs[cut + j] = b[j]
    <3>1. cut + j \in 1..(cut + Len(b)) /\ ~(cut + j <= cut) /\ (cut + j) - cut = j
      BY <1>2
    <3> QED
      BY <1>4, <3>1
  <2>5. PICK i \in 1..Len(h) : h[i].key = b[j].key
    BY <2>1, <2>2, <2>4 DEF KeptOf
  <2>6. PICK l \in 1..Len(xs) : h[i] = xs[l]
    BY <2>1, <2>5 DEF KeptOf
  <2>7. Legal(h[i], catalog) /\ Legal(b[j], catalog)
    BY <1>2, <1>6, <2>3, <2>6
  <2>8. h[i].layer = b[j].layer
    BY <2>5, <2>7 DEF Legal, IsCatalog
  <2>9. i \in DOMAIN h
    BY <2>1, <2>5
  <2> QED
    BY <2>3, <2>8, <2>9 DEF HasActionable
<1> QED
  BY <1>9, <1>10

(* genome_ops.rs: whatever mutation and crossover make of two genomes over *)
(* a catalog reads distinct features of it, at thresholds these have had,  *)
(* and never none; and nothing but the cap on predicates or a mutation     *)
(* takes the trigger away.                                                 *)
THEOREM EveryOffspringIsObserved ==
  ASSUME NEW K, NEW catalog, IsCatalog(catalog, K), NEW a \in Seq(Drawn(K)), NEW b \in Seq(Drawn(K))
  PROVE  BreedingStaysObserved(a, b, catalog)
<1>1. ASSUME Valid(a, catalog), Valid(b, catalog)
      PROVE  /\ \A g \in Mutations(a, catalog) \cup Crossovers(a, b) : Valid(g, catalog)
             /\ HasActionable(b) /\ Len(a) + Len(b) <= MaxPredicates =>
                  \A g \in Crossovers(a, b) : HasActionable(g)
  <2>1. IsGenome(a, catalog, K) /\ IsGenome(b, catalog, K)
    BY <1>1 DEF IsGenome
  <2> QED
    BY <2>1, MutationsAreValid, CrossoversAreValid
<1> QED
  BY <1>1 DEF BreedingStaysObserved

-----------------------------------------------------------------------------
(* One candidate offered to a pool.                                        *)
Admitted(out, c, seen, target) ==
  IF Len(out) >= target \/ c \in seen \/ Contains(out, c) THEN out ELSE Append(out, c)

LEMMA AdmittedIsSeq ==
  ASSUME NEW S, NEW out \in Seq(S), NEW c \in S, NEW seen, NEW target
  PROVE  Admitted(out, c, seen, target) \in Seq(S)
BY DEF Admitted

IsAdmitting(run, pool, xs, seen, target) ==
  /\ run[0] = pool /\ Admit(pool, xs, seen, target) = run[Len(xs)]
  /\ \A k \in 1..Len(xs) : run[k] = Admitted(run[k - 1], xs[k], seen, target)

LEMMA AdmitRuns ==
  ASSUME NEW S, NEW pool \in Seq(S), NEW xs \in Seq(S), NEW seen, NEW target
  PROVE  \E run \in [0..Len(xs) -> Seq(S)] : IsAdmitting(run, pool, xs, seen, target)
<1> DEFINE n == Len(xs)
           V == Seq(S)
           next(out, c) == IF Len(out) >= target \/ c \in seen \/ Contains(out, c) THEN out
                           ELSE Append(out, c)
           step == [p \in (1..n) \X V |-> next(p[2], xs[p[1]])]
           rule(f, s) == IF s = {} THEN pool ELSE next(f[s \ {Max(s)}], xs[Max(s)])
           iter == CHOOSE f : f = [s \in SUBSET (DOMAIN xs) |-> rule(f, s)]
<1>1. n \in Nat /\ DOMAIN xs = 1..n /\ \A i \in 1..n : xs[i] \in S
  OBVIOUS
<1>2. Admit(pool, xs, seen, target) = iter[DOMAIN xs]
  BY Zenon DEF Admit, FoldLeft, MapThenFoldSet
<1>3. step \in [(1..n) \X V -> V] /\ pool \in V
  <2>1. \A i \in 1..n : \A kept \in V : next(kept, xs[i]) \in V
    BY <1>1, AdmittedIsSeq DEF Admitted
  <2> HIDE DEF n, V, next
  <2>2. step \in [(1..n) \X V -> V]
    BY <2>1
  <2>3. pool \in V
    BY DEF V
  <2> QED
    BY <2>2, <2>3
<1> HIDE DEF n, V, next
<1>4. \A k \in 1..n : \A v \in V : step[<<k, v>>] = next(v, xs[k])
  OBVIOUS
<1> HIDE DEF step
<1>5. PICK f \in [SUBSET (1..n) -> V] : Recurs(f, n, pool, step)
  BY <1>1, <1>3, RecursionHasSolution
<1>6. \A s \in SUBSET (1..n) : s # {} => Max(s) \in 1..n /\ s \ {Max(s)} \in SUBSET (1..n)
  BY <1>1, LargestExists
<1>7. f = [s \in SUBSET (DOMAIN xs) |-> rule(f, s)]
  <2>1. \A s \in SUBSET (1..n) : f[s] = rule(f, s)
    BY <1>4, <1>5, <1>6 DEF Recurs
  <2> QED
    BY <1>1, <2>1
<1>8. iter = [s \in SUBSET (DOMAIN xs) |-> rule(iter, s)]
  BY <1>7
<1> HIDE DEF iter
<1>9. RecursWithin(iter, n, V, pool, step)
  BY <1>1, <1>4, <1>6, <1>8 DEF RecursWithin
<1>10. EndsARun(iter, n, V, pool, step)
  <2> HIDE DEF rule
  <2> QED
    BY ONLY <1>1, <1>3, <1>9, SolutionRunsInOrder
<1>11. PICK run \in [0..n -> V] : Accumulates(run, n, pool, step) /\ iter[1..n] = run[n]
  BY <1>10 DEF EndsARun
<1>12. \A k \in 1..n : run[k] = Admitted(run[k - 1], xs[k], seen, target)
  <2> SUFFICES ASSUME NEW k \in 1..n PROVE run[k] = Admitted(run[k - 1], xs[k], seen, target)
    OBVIOUS
  <2>1. run[k - 1] \in V
    BY <1>1
  <2>2. run[k] = next(run[k - 1], xs[k])
    BY <1>4, <1>11, <2>1 DEF Accumulates
  <2> QED
    BY <2>2 DEF next, Admitted
<1>13. run \in [0..Len(xs) -> Seq(S)] /\ run[0] = pool /\ Admit(pool, xs, seen, target) = run[Len(xs)]
  BY <1>1, <1>2, <1>11 DEF n, V, Accumulates
<1> QED
  BY <1>12, <1>13 DEF n, IsAdmitting

(* What a longer pool adds is new, and new once.                           *)
Extends(out, pool, seen) ==
  /\ Len(pool) <= Len(out) /\ \A i \in 1..Len(pool) : out[i] = pool[i]
  /\ \A i \in (Len(pool) + 1)..Len(out) : out[i] \notin seen
  /\ \A i \in (Len(pool) + 1)..Len(out) : \A j \in 1..(i - 1) : out[j] # out[i]

Took(out, xs, seen, target, k) ==
  Len(out) >= target \/ \A j \in 1..k : xs[j] \in seen \/ Contains(out, xs[j])

LEMMA ExtendsItself ==
  ASSUME NEW S, NEW pool \in Seq(S), NEW seen
  PROVE  Extends(pool, pool, seen)
BY DEF Extends

LEMMA ExtendsOn ==
  ASSUME NEW S, NEW a \in Seq(S), NEW b \in Seq(S), NEW c \in Seq(S), NEW seen,
         Extends(b, a, seen), Extends(c, b, seen)
  PROVE  Extends(c, a, seen)
<1> DEFINE k == Len(a)
           m == Len(b)
           n == Len(c)
<1>1. k \in Nat /\ m \in Nat /\ n \in Nat
  OBVIOUS
<1>2. /\ k <= m /\ (\A i \in 1..k : b[i] = a[i]) /\ (\A i \in (k + 1)..m : b[i] \notin seen)
      /\ \A i \in (k + 1)..m : \A j \in 1..(i - 1) : b[j] # b[i]
  BY DEF Extends
<1>3. /\ m <= n /\ (\A i \in 1..m : c[i] = b[i]) /\ (\A i \in (m + 1)..n : c[i] \notin seen)
      /\ \A i \in (m + 1)..n : \A j \in 1..(i - 1) : c[j] # c[i]
  BY DEF Extends
<1> HIDE DEF k, m, n
<1>4. ASSUME NEW i \in (k + 1)..n
      PROVE  c[i] \notin seen /\ \A j \in 1..(i - 1) : c[j] # c[i]
  <2>1. CASE i <= m
    <3>1. i \in (k + 1)..m /\ i \in 1..m /\ \A j \in 1..(i - 1) : j \in 1..m
      BY <1>1, <2>1
    <3> QED
      BY <1>2, <1>3, <3>1
  <2>2. CASE ~(i <= m)
    <3>1. i \in (m + 1)..n
      BY <1>1, <2>2
    <3> QED
      BY <1>3, <3>1
  <2> QED
    BY <2>1, <2>2
<1>5. k <= n /\ \A i \in 1..k : c[i] = a[i]
  <2>1. k <= n /\ \A i \in 1..k : i \in 1..m
    BY <1>1, <1>2, <1>3
  <2> QED
    BY <1>2, <1>3, <2>1
<1> QED
  BY <1>4, <1>5 DEF Extends, k, n

LEMMA AdmittedExtends ==
  ASSUME NEW S, NEW out \in Seq(S), NEW c \in S, NEW seen, NEW target
  PROVE  Extends(Admitted(out, c, seen, target), out, seen)
<1>1. CASE Admitted(out, c, seen, target) = out
  BY <1>1, ExtendsItself
<1>2. CASE Admitted(out, c, seen, target) # out
  <2> DEFINE new == Append(out, c)
             m == Len(out)
  <2>1. Admitted(out, c, seen, target) = new /\ c \notin seen /\ \A j \in 1..m : out[j] # c
    BY <1>2 DEF Admitted, Contains
  <2>2. m \in Nat /\ Len(new) = m + 1 /\ new[m + 1] = c /\ \A j \in 1..m : new[j] = out[j]
    OBVIOUS
  <2> HIDE DEF new, m
  <2>3. /\ m <= m + 1 /\ (m + 1) - 1 = m
        /\ \A i \in (m + 1)..(m + 1) : i = m + 1
    BY <2>2
  <2>4. \A i \in (m + 1)..(m + 1) : new[i] \notin seen /\ \A j \in 1..(i - 1) : new[j] # new[i]
    BY <2>1, <2>2, <2>3
  <2>5. Extends(new, out, seen)
    BY <2>2, <2>3, <2>4 DEF Extends, m
  <2> QED
    BY <2>1, <2>5
<1> QED
  BY <1>1, <1>2

LEMMA AdmittedTook ==
  ASSUME NEW S, NEW out \in Seq(S), NEW xs \in Seq(S), NEW seen, NEW target \in Int,
         NEW k \in 0..(Len(xs) - 1), Took(out, xs, seen, target, k)
  PROVE  Took(Admitted(out, xs[k + 1], seen, target), xs, seen, target, k + 1)
<1> DEFINE c == xs[k + 1]
           new == Append(out, c)
<1>1. c \in S /\ \A j \in 1..(k + 1) : j \in 1..k \/ j = k + 1
  OBVIOUS
<1>2. CASE Len(out) >= target
  <2>1. Admitted(out, c, seen, target) = out
    BY <1>2 DEF Admitted
  <2> QED
    BY <1>2, <2>1 DEF Took
<1>3. CASE ~(Len(out) >= target) /\ (c \in seen \/ Contains(out, c))
  <2>1. Admitted(out, c, seen, target) = out
    BY <1>3 DEF Admitted
  <2> QED
    BY <1>1, <1>3, <2>1 DEF Took
<1>4. CASE ~(Len(out) >= target) /\ c \notin seen /\ ~Contains(out, c)
  <2>1. Admitted(out, c, seen, target) = new
    BY <1>4 DEF Admitted
  <2>2. /\ Len(new) = Len(out) + 1 /\ Len(out) \in Nat /\ new[Len(out) + 1] = c
        /\ \A i \in 1..Len(out) : i \in 1..(Len(out) + 1) /\ new[i] = out[i]
        /\ Len(out) + 1 \in 1..(Len(out) + 1)
    BY <1>1
  <2> HIDE DEF new, c
  <2>3. \A x : Contains(out, x) \/ x = c => Contains(new, x)
    BY <2>2 DEF Contains
  <2>4. \A j \in 1..(k + 1) : xs[j] \in seen \/ Contains(new, xs[j])
    BY <1>1, <1>4, <2>3 DEF Took, c
  <2>5. Took(new, xs, seen, target, k + 1)
    BY <2>4 DEF Took
  <2> QED
    BY <2>1, <2>5 DEF c
<1> QED
  BY <1>2, <1>3, <1>4

LEMMA AdmitExtends ==
  ASSUME NEW S, NEW pool \in Seq(S), NEW xs \in Seq(S), NEW seen, NEW target \in Int
  PROVE  /\ Admit(pool, xs, seen, target) \in Seq(S)
         /\ Extends(Admit(pool, xs, seen, target), pool, seen)
         /\ Took(Admit(pool, xs, seen, target), xs, seen, target, Len(xs))
<1> DEFINE n == Len(xs)
<1>1. PICK run \in [0..n -> Seq(S)] : IsAdmitting(run, pool, xs, seen, target)
  BY AdmitRuns
<1>2. /\ run[0] = pool /\ Admit(pool, xs, seen, target) = run[n]
      /\ \A k \in 1..n : run[k] = Admitted(run[k - 1], xs[k], seen, target)
  BY <1>1 DEF IsAdmitting
<1>3. n \in Nat /\ \A k \in 1..n : xs[k] \in S
  OBVIOUS
<1> DEFINE B == {k \in 0..n : Extends(run[k], pool, seen) /\ Took(run[k], xs, seen, target, k)}
<1>4. 0 \in B
  <2>1. Extends(pool, pool, seen)
    BY ExtendsItself
  <2>2. Took(pool, xs, seen, target, 0)
    BY DEF Took
  <2> QED
    BY <1>2, <1>3, <2>1, <2>2
<1>5. ASSUME NEW k \in 0..(n - 1), k \in B
      PROVE  k + 1 \in B
  <2>1. k + 1 \in 1..n /\ (k + 1) - 1 = k /\ k + 1 \in 0..n /\ k \in 0..n
    BY <1>3
  <2>2. run[k + 1] = Admitted(run[k], xs[k + 1], seen, target) /\ run[k] \in Seq(S)
        /\ run[k + 1] \in Seq(S) /\ xs[k + 1] \in S
    BY <1>2, <1>3, <2>1
  <2>3. Extends(run[k + 1], run[k], seen)
    BY <2>2, AdmittedExtends
  <2>4. Extends(run[k + 1], pool, seen)
    BY <1>5, <2>2, <2>3, ExtendsOn
  <2>5. Took(run[k + 1], xs, seen, target, k + 1)
    BY <1>5, <2>2, AdmittedTook
  <2> QED
    BY <2>1, <2>4, <2>5
<1>6. n \in B
  <2> HIDE DEF B, n
  <2>1. \A k \in 0..n : k \in B
    BY <1>3, <1>4, <1>5, InductionUpTo
  <2> QED
    BY <1>3, <2>1
<1>7. run[n] \in Seq(S)
  BY <1>3
<1> QED
  BY <1>2, <1>6, <1>7

LEMMA DistinctCount ==
  ASSUME NEW S, NEW xs \in Seq(S), \A i, j \in 1..Len(xs) : xs[i] = xs[j] => i = j
  PROVE  Cardinality(ToSet(xs)) = Len(xs)
<1> DEFINE n == Len(xs)
           T == ToSet(xs)
<1>1. n \in Nat /\ DOMAIN xs = 1..n /\ xs \in [1..n -> S]
  OBVIOUS
<1>2. T = {xs[i] : i \in 1..n}
  BY <1>1 DEF ToSet
<1> HIDE DEF n, T
<1>3. xs \in [1..n -> T]
  BY <1>1, <1>2
<1>4. xs \in Bijection(1..n, T)
  <2>1. \A i, j \in 1..n : xs[i] = xs[j] => i = j
    BY DEF n
  <2>2. xs \in Injection(1..n, T)
    BY <1>3, <2>1 DEF Injection, IsInjective
  <2>3. xs \in Surjection(1..n, T)
    BY <1>2, <1>3 DEF Surjection
  <2> QED
    BY <2>2, <2>3 DEF Bijection
<1>5. ExistsBijection(1..n, T)
  BY <1>4 DEF ExistsBijection
<1>6. IsFiniteSet(1..n) /\ Cardinality(1..n) = n
  <2>1. 1 \in Int /\ n \in Int /\ (1 > n => n = 0) /\ (~(1 > n) => n - 1 + 1 = n)
    BY <1>1
  <2> QED
    BY <2>1, FS_Interval
<1>7. Cardinality(T) = Cardinality(1..n)
  BY <1>5, <1>6, FS_Bijection
<1> QED
  BY <1>6, <1>7 DEF n, T

LEMMA PoolExtends ==
  ASSUME NEW S, NEW survivors \in Seq(S), NEW drawn, drawn.first \in Seq(S), drawn.crossed \in Seq(S),
         drawn.extra \in Seq(S), drawn.fresh \in Seq(S), NEW seen, NEW perGen \in Nat,
         NEW poolTarget \in Nat
  PROVE  LET pool == Pool(survivors, drawn, seen, perGen, poolTarget)
         IN  /\ pool \in Seq(S) /\ Extends(pool, survivors, seen)
             /\ Took(pool, drawn.fresh, seen, poolTarget, Len(drawn.fresh))
<1> DEFINE mutated == Admit(survivors, drawn.first, seen, perGen)
           crossed == Admit(mutated, drawn.crossed, seen, perGen)
           target == perGen + (poolTarget - perGen) \div 2
           explored == IF survivors = <<>> THEN crossed ELSE Admit(crossed, drawn.extra, seen, target)
           pool == Admit(explored, drawn.fresh, seen, poolTarget)
<1>1. Pool(survivors, drawn, seen, perGen, poolTarget) = pool
  BY DEF Pool, Elite
<1>2. perGen \in Int /\ poolTarget \in Int /\ target \in Int
  OBVIOUS
<1> HIDE DEF target
<1>3. mutated \in Seq(S) /\ Extends(mutated, survivors, seen)
  BY <1>2, AdmitExtends
<1> HIDE DEF mutated
<1>4. crossed \in Seq(S) /\ Extends(crossed, mutated, seen)
  BY <1>2, <1>3, AdmitExtends
<1> HIDE DEF crossed
<1>5. explored \in Seq(S) /\ Extends(explored, crossed, seen)
  <2>1. Admit(crossed, drawn.extra, seen, target) \in Seq(S)
        /\ Extends(Admit(crossed, drawn.extra, seen, target), crossed, seen)
    BY <1>2, <1>4, AdmitExtends
  <2>2. Extends(crossed, crossed, seen)
    BY <1>4, ExtendsItself
  <2> QED
    BY <1>4, <2>1, <2>2
<1> HIDE DEF explored
<1>6. /\ pool \in Seq(S) /\ Extends(pool, explored, seen)
      /\ Took(pool, drawn.fresh, seen, poolTarget, Len(drawn.fresh))
  BY <1>2, <1>5, AdmitExtends
<1> HIDE DEF pool
<1>7. Extends(crossed, survivors, seen)
  BY <1>3, <1>4, ExtendsOn
<1>8. Extends(explored, survivors, seen)
  BY <1>4, <1>5, <1>7, ExtendsOn
<1>9. Extends(pool, survivors, seen)
  BY <1>5, <1>6, <1>8, ExtendsOn
<1> QED
  BY <1>1, <1>6, <1>9

(* population.rs, next_generation: a generation that has room for its      *)
(* survivors carries all of them, in their order and first; whatever else  *)
(* it keeps was never created before; and it is full unless every fresh    *)
(* candidate is in it or was.                                              *)
THEOREM EveryGenerationIsEliteThenNew ==
  ASSUME NEW S, NEW survivors \in Seq(S), NEW drawn, drawn.first \in Seq(S), drawn.crossed \in Seq(S),
         drawn.extra \in Seq(S), drawn.fresh \in Seq(S), NEW seen, ToSet(survivors) \subseteq seen,
         NEW perGen \in Nat, NEW poolTarget \in Nat, Len(survivors) <= perGen, perGen <= poolTarget
  PROVE  GenerationIsEliteThenNew(survivors, drawn, seen, perGen, poolTarget)
<1> DEFINE pool == Pool(survivors, drawn, seen, perGen, poolTarget)
           k == Len(survivors)
           n == Len(pool)
           m == IF perGen <= n THEN perGen ELSE n
           kept == SubSeq(pool, 1, m)
           new == SubSeq(kept, k + 1, Len(kept))
           offered == ToSet(drawn.fresh) \ (seen \cup ToSet(survivors))
<1>1. /\ pool \in Seq(S) /\ Extends(pool, survivors, seen)
      /\ Took(pool, drawn.fresh, seen, poolTarget, Len(drawn.fresh))
  BY PoolExtends
<1> HIDE DEF pool
<1>2. n \in Nat /\ k \in Nat /\ DOMAIN survivors = 1..k
  BY <1>1
<1>3. Generation(survivors, drawn, seen, perGen, poolTarget) = kept
  <2>1. Min({perGen, n}) = m
    BY <1>2, MinOfTwo
  <2> QED
    BY <2>1 DEF Generation, pool
<1>4. /\ k <= n /\ \A i \in 1..k : pool[i] = survivors[i]
      /\ \A i \in (k + 1)..n : pool[i] \notin seen
      /\ \A i \in (k + 1)..n : \A j \in 1..(i - 1) : pool[j] # pool[i]
  BY <1>1 DEF Extends
<1>5. m \in Nat /\ m <= n /\ k <= m /\ k <= perGen
  BY <1>2, <1>4
<1>6. kept \in Seq(S) /\ Len(kept) = m /\ \A i \in 1..m : kept[i] = pool[i]
  BY <1>1, <1>5
<1> HIDE DEF kept
<1>7. new \in Seq(S) /\ Len(new) = m - k /\ \A i \in 1..(m - k) : new[i] = kept[k + i]
  <2> HIDE DEF m, k, n
  <2>1. /\ new \in Seq(S)
        /\ Len(new) = IF k + 1 <= m THEN m - (k + 1) + 1 ELSE 0
        /\ \A i \in 1..(m - (k + 1) + 1) : new[i] = kept[(k + 1) + i - 1]
    <3>1. k + 1 \in Int /\ m \in Int /\ \A i \in (k + 1)..m : kept[i] \in S
      BY <1>2, <1>5, <1>6
    <3> QED
      BY <1>6, <3>1, SubSeqProperties
  <2>2. /\ (IF k + 1 <= m THEN m - (k + 1) + 1 ELSE 0) = m - k
        /\ m - (k + 1) + 1 = m - k /\ \A i \in 1..(m - k) : (k + 1) + i - 1 = k + i
    BY <1>2, <1>5
  <2> HIDE DEF new
  <2> QED
    BY <2>1, <2>2
<1> HIDE DEF new
<1>8. \A i \in 1..(m - k) : /\ new[i] = pool[k + i] /\ k + i \in (k + 1)..n /\ k + i \in 1..m
  <2> SUFFICES ASSUME NEW i \in 1..(m - k) PROVE new[i] = pool[k + i] /\ k + i \in (k + 1)..n /\ k + i \in 1..m
    OBVIOUS
  <2> HIDE DEF m, k, n
  <2>1. k + i \in (k + 1)..n /\ k + i \in 1..m
    BY <1>2, <1>5
  <2> QED
    BY <1>6, <1>7, <2>1
<1> HIDE DEF k, n, m
<1>9. IsPrefix(survivors, kept)
  <2>1. k <= Len(kept)
    BY <1>5, <1>6
  <2>2. \A i \in 1..k : i \in 1..m
    BY <1>2, <1>5
  <2>3. \A i \in 1..k : kept[i] = survivors[i]
    BY <1>4, <1>6, <2>2
  <2>4. SubSeq(kept, 1, k) = survivors
    <3>1. SubSeq(kept, 1, k) \in Seq(S) /\ Len(SubSeq(kept, 1, k)) = k
          /\ \A i \in 1..k : SubSeq(kept, 1, k)[i] = kept[i]
      BY <1>2, <1>6, <2>1
    <3>2. survivors \in Seq(S) /\ Len(survivors) = k
      BY DEF k
    <3> HIDE DEF kept
    <3> QED
      BY <2>3, <3>1, <3>2
  <2>5. SubSeq(survivors, 1, k) = survivors
    BY DEF k
  <2> QED
    BY <2>1, <2>4, <2>5 DEF IsPrefix, k
<1>10. ToSet(new) \cap (seen \cup ToSet(survivors)) = {}
  <2>1. \A x \in ToSet(new) : \E i \in 1..(m - k) : x = new[i]
    BY <1>7 DEF ToSet
  <2>2. \A x \in ToSet(new) : x \notin seen
    BY <1>4, <1>8, <2>1
  <2> QED
    BY <2>2
<1>11. Cardinality(ToSet(new)) = Len(new)
  <2>1. ASSUME NEW i \in 1..(m - k), NEW j \in 1..(m - k), i < j
        PROVE  new[i] # new[j]
    <3>1. k + i \in 1..((k + j) - 1)
      BY <1>2, <1>5, <2>1
    <3> QED
      BY <1>4, <1>8, <3>1
  <2>2. \A i, j \in 1..(m - k) : new[i] = new[j] => i = j
    <3>1. \A i, j \in 1..(m - k) : i < j \/ j < i \/ i = j
      BY <1>2, <1>5
    <3> QED
      BY <2>1, <3>1
  <2> QED
    BY <1>7, <2>2, DistinctCount
<1>12. Len(kept) = perGen \/ offered \subseteq ToSet(kept)
  <2>1. CASE perGen <= n
    BY <1>6, <2>1 DEF m
  <2>2. CASE ~(perGen <= n)
    <3>1. m = n /\ ~(n >= poolTarget)
      BY <1>2, <2>2 DEF m
    <3>2. \A j \in 1..Len(drawn.fresh) : drawn.fresh[j] \in seen \/ Contains(pool, drawn.fresh[j])
      BY <1>1, <3>1 DEF Took, n
    <3>3. DOMAIN drawn.fresh = 1..Len(drawn.fresh) /\ DOMAIN kept = 1..n
      BY <1>6, <3>1
    <3>4. \A x : Contains(pool, x) => x \in ToSet(kept)
      BY <1>6, <3>1, <3>3 DEF Contains, ToSet, n
    <3> QED
      BY <3>2, <3>3, <3>4 DEF ToSet
  <2> QED
    BY <2>1, <2>2
<1> QED
  BY <1>3, <1>9, <1>10, <1>11, <1>12 DEF GenerationIsEliteThenNew, k, new
-----------------------------------------------------------------------------
(* The sums behind the detectors.                                          *)
Squares(xs) == [i \in 1..Len(xs) |-> xs[i] * xs[i]]

LEMMA SquaresIs ==
  ASSUME NEW xs \in Seq(Int)
  PROVE  /\ Squares(xs) \in Seq(Int) /\ Len(Squares(xs)) = Len(xs)
         /\ \A i \in 1..Len(xs) : Squares(xs)[i] = xs[i] * xs[i]
<1>1. Len(xs) \in Nat /\ \A i \in 1..Len(xs) : xs[i] * xs[i] \in Int
  OBVIOUS
<1> QED
  BY <1>1 DEF Squares

LEMMA TotalIsSummed ==
  ASSUME NEW xs \in Seq(Int)
  PROVE  Total(xs) = Summed(xs) /\ Total(xs) \in Int
<1>1. Total(xs) = Summed(xs)
  BY Zenon DEF Total, Summed
<1> QED
  BY <1>1, SummedIsInt

LEMMA SquaresRun ==
  ASSUME NEW xs \in Seq(Int)
  PROVE  \E run \in [0..Len(xs) -> Int] : IsSumming(run, Squares(xs)) /\ SumOfSquares(xs) = run[Len(xs)]
<1> DEFINE n == Len(xs)
           step == [p \in (1..n) \X Int |-> p[2] + xs[p[1]] * xs[p[1]]]
           rule(f, s) == IF s = {} THEN 0 ELSE f[s \ {Max(s)}] + xs[Max(s)] * xs[Max(s)]
           iter == CHOOSE f : f = [s \in SUBSET (DOMAIN xs) |-> rule(f, s)]
<1>1. n \in Nat /\ DOMAIN xs = 1..n /\ \A i \in 1..n : xs[i] \in Int
  OBVIOUS
<1>2. SumOfSquares(xs) = iter[DOMAIN xs]
  BY Zenon DEF SumOfSquares, FoldLeft, MapThenFoldSet
<1>3. step \in [(1..n) \X Int -> Int] /\ 0 \in Int
  BY <1>1
<1> HIDE DEF n
<1>4. \A k \in 1..n : \A v \in Int : step[<<k, v>>] = v + xs[k] * xs[k]
  OBVIOUS
<1> HIDE DEF step
<1>5. PICK f \in [SUBSET (1..n) -> Int] : Recurs(f, n, 0, step)
  BY <1>1, <1>3, RecursionHasSolution
<1>6. \A s \in SUBSET (1..n) : s # {} => Max(s) \in 1..n /\ s \ {Max(s)} \in SUBSET (1..n)
  BY <1>1, LargestExists
<1>7. f = [s \in SUBSET (DOMAIN xs) |-> rule(f, s)]
  <2>1. \A s \in SUBSET (1..n) : f[s] = rule(f, s)
    BY <1>4, <1>5, <1>6 DEF Recurs
  <2> QED
    BY <1>1, <2>1
<1>8. iter = [s \in SUBSET (DOMAIN xs) |-> rule(iter, s)]
  BY <1>7
<1> HIDE DEF iter
<1>9. RecursWithin(iter, n, Int, 0, step)
  BY <1>1, <1>4, <1>6, <1>8 DEF RecursWithin
<1>10. EndsARun(iter, n, Int, 0, step)
  <2> HIDE DEF rule
  <2> QED
    BY ONLY <1>1, <1>3, <1>9, SolutionRunsInOrder
<1>11. PICK run \in [0..n -> Int] : Accumulates(run, n, 0, step) /\ iter[1..n] = run[n]
  BY <1>10 DEF EndsARun
<1>12. \A k \in 1..n : run[k] = run[k - 1] + xs[k] * xs[k]
  <2> SUFFICES ASSUME NEW k \in 1..n PROVE run[k] = run[k - 1] + xs[k] * xs[k]
    OBVIOUS
  <2>1. run[k - 1] \in Int
    BY <1>1
  <2> QED
    BY <1>4, <1>11, <2>1 DEF Accumulates
<1> QED
  <2>1. Len(Squares(xs)) = n /\ \A k \in 1..n : Squares(xs)[k] = xs[k] * xs[k]
    BY SquaresIs DEF n
  <2> QED
    BY <1>1, <1>2, <1>11, <1>12, <2>1 DEF n, Accumulates, IsSumming

LEMMA SquaresAreSummed ==
  ASSUME NEW xs \in Seq(Int)
  PROVE  SumOfSquares(xs) = Summed(Squares(xs)) /\ SumOfSquares(xs) \in Int
<1>1. Squares(xs) \in Seq(Int) /\ Len(Squares(xs)) = Len(xs)
  BY SquaresIs
<1>2. PICK run \in [0..Len(xs) -> Int] :
        IsSumming(run, Squares(xs)) /\ SumOfSquares(xs) = run[Len(xs)]
  BY SquaresRun
<1>3. \A k \in 0..Len(Squares(xs)) : run[k] \in Int
  BY <1>1
<1>4. Summed(Squares(xs)) = run[Len(Squares(xs))]
  BY <1>1, <1>2, <1>3, OneRunSums
<1> QED
  BY <1>1, <1>2, <1>4, SummedIsInt

LEMMA DoubledSeq ==
  ASSUME NEW ys \in Seq(Int)
  PROVE  /\ ys \o ys \in Seq(Int) /\ Len(ys \o ys) = Len(ys) + Len(ys)
         /\ \A i \in 1..(Len(ys) + Len(ys)) :
              (ys \o ys)[i] = IF i <= Len(ys) THEN ys[i] ELSE ys[i - Len(ys)]
OBVIOUS

LEMMA SquaresJoin ==
  ASSUME NEW xs \in Seq(Int)
  PROVE  Squares(xs \o xs) = Squares(xs) \o Squares(xs)
<1> DEFINE n == Len(xs)
           d == xs \o xs
           s == Squares(xs)
           a == Squares(d)
           b == s \o s
<1>1. d \in Seq(Int) /\ Len(d) = n + n
      /\ \A i \in 1..(n + n) : d[i] = IF i <= n THEN xs[i] ELSE xs[i - n]
  BY DoubledSeq
<1>2. s \in Seq(Int) /\ Len(s) = n /\ \A i \in 1..n : s[i] = xs[i] * xs[i]
  BY SquaresIs
<1>n. n \in Nat
  OBVIOUS
<1> HIDE DEF s, d, n
<1>3. a \in Seq(Int) /\ Len(a) = n + n /\ \A i \in 1..(n + n) : a[i] = d[i] * d[i]
  <2>1. a \in Seq(Int) /\ Len(a) = Len(d) /\ \A i \in 1..Len(d) : a[i] = d[i] * d[i]
    BY <1>1, SquaresIs
  <2> QED
    BY <1>1, <2>1
<1>4. b \in Seq(Int) /\ Len(b) = n + n
      /\ \A i \in 1..(n + n) : b[i] = IF i <= n THEN s[i] ELSE s[i - n]
  <2>1. b \in Seq(Int) /\ Len(b) = Len(s) + Len(s)
        /\ \A i \in 1..(Len(s) + Len(s)) : b[i] = IF i <= Len(s) THEN s[i] ELSE s[i - Len(s)]
    BY <1>2, DoubledSeq
  <2> QED
    BY <1>2, <2>1
<1> HIDE DEF a, b
<1>5. ASSUME NEW i \in 1..(n + n) PROVE a[i] = b[i]
  <2>1. CASE i <= n
    <3>1. i \in 1..n
      BY <1>n, <2>1
    <3> QED
      BY <1>1, <1>2, <1>3, <1>4, <2>1, <3>1
  <2>2. CASE ~(i <= n)
    <3>1. i - n \in 1..n
      BY <1>n, <2>2
    <3>2. d[i] = xs[i - n] /\ b[i] = s[i - n]
      BY <1>1, <1>4, <2>2
    <3> QED
      BY <1>2, <1>3, <3>1, <3>2
  <2> QED
    BY <2>1, <2>2
<1>6. a = b
  BY <1>3, <1>4, <1>5
<1> QED
  BY <1>6 DEF a, b, s, d

(* The record of trades over again has twice the sums and four times the   *)
(* spread.                                                                 *)
LEMMA TwiceOver ==
  ASSUME NEW xs \in Seq(Int)
  PROVE  /\ Len(xs \o xs) = 2 * Len(xs) /\ Total(xs \o xs) = 2 * Total(xs)
         /\ SumOfSquares(xs \o xs) = 2 * SumOfSquares(xs)
<1>1. xs \o xs \in Seq(Int) /\ Len(xs \o xs) = Len(xs) + Len(xs)
      /\ \A i \in 1..(Len(xs) + Len(xs)) :
           (xs \o xs)[i] = IF i <= Len(xs) THEN xs[i] ELSE xs[i - Len(xs)]
  OBVIOUS
<1>2. Total(xs \o xs) = Total(xs) + Total(xs) /\ Total(xs) \in Int
  BY <1>1, TotalIsSummed, SummedJoins
<1>3. Squares(xs \o xs) = Squares(xs) \o Squares(xs)
  BY SquaresJoin
<1>4. SumOfSquares(xs \o xs) = SumOfSquares(xs) + SumOfSquares(xs) /\ SumOfSquares(xs) \in Int
  <2>1. Squares(xs) \in Seq(Int)
    BY SquaresIs
  <2>2. Summed(Squares(xs) \o Squares(xs)) = Summed(Squares(xs)) + Summed(Squares(xs))
    BY <2>1, SummedJoins
  <2> QED
    BY <1>1, <1>3, <2>2, SquaresAreSummed
<1>5. Len(xs) \in Nat
  OBVIOUS
<1> QED
  BY <1>1, <1>2, <1>4, <1>5

LEMMA SquareIsNat == \A y \in Int : y * y >= 0 /\ y * y \in Int
OBVIOUS

LEMMA NatQuotient ==
  ASSUME NEW k \in Int, k >= 1, NEW y \in Int, k * y >= 0
  PROVE  y >= 0
<1>1. ASSUME y <= -1 PROVE FALSE
  <2>1. \A p \in Int : p >= 1 => p * y <= -p
    BY <1>1
  <2> QED
    BY <2>1
<1> QED
  BY <1>1

(* One more value widens the spread of k values that sum to t, their       *)
(* squares to q.                                                           *)
LEMMA OneMoreValue ==
  ASSUME NEW k \in Nat, NEW t \in Int, NEW q \in Int, NEW x \in Int, k * q - t * t >= 0,
         k = 0 => t = 0 /\ q = 0
  PROVE  (k + 1) * (q + x * x) - (t + x) * (t + x) >= 0
<1> DEFINE w == q + k * (x * x) - 2 * (t * x)
<1>1. /\ k * q \in Int /\ t * t \in Int /\ x * x \in Int /\ t * x \in Int /\ k * x \in Int
      /\ k * (x * x) \in Int
  OBVIOUS
<1>2. (k + 1) * (q + x * x) - (t + x) * (t + x) = (k * q - t * t) + w
  <2>1. (k + 1) * (q + x * x) = k * q + k * (x * x) + q + x * x
    OBVIOUS
  <2>2. (t + x) * (t + x) = t * t + 2 * (t * x) + x * x
    OBVIOUS
  <2> QED
    BY <1>1, <2>1, <2>2
<1>3. w \in Int /\ w >= 0
  <2>1. CASE k = 0
    <3>1. t * x = 0 /\ k * (x * x) = 0 /\ q = 0
      BY <2>1
    <3> QED
      BY <3>1
  <2>2. CASE k >= 1
    <3> DEFINE y == k * x
    <3>1. y \in Int /\ k * w = k * q + y * y - 2 * (t * y)
      OBVIOUS
    <3>2. (t - y) * (t - y) = t * t - 2 * (t * y) + y * y /\ (t - y) * (t - y) >= 0
      BY <3>1, SquareIsNat
    <3> HIDE DEF y
    <3>3. y * y \in Int /\ t * y \in Int
      BY <3>1
    <3>4. k * w >= 0
      BY <1>1, <3>1, <3>2, <3>3
    <3>5. w \in Int
      BY <1>1
    <3> HIDE DEF w
    <3> QED
      BY <2>2, <3>4, <3>5, NatQuotient
  <2> QED
    BY <2>1, <2>2
<1> HIDE DEF w
<1> QED
  BY <1>1, <1>2, <1>3

(* The variance of trades is never negative.                               *)
LEMMA SpreadIsNat ==
  ASSUME NEW xs \in Seq(Int)
  PROVE  Spread(xs) \in Int /\ Spread(xs) >= 0
<1> DEFINE n == Len(xs)
<1>1. n \in Nat /\ \A k \in 1..n : xs[k] \in Int
  OBVIOUS
<1>2. PICK sums \in [0..n -> Int] : IsSumming(sums, xs) /\ Summed(xs) = sums[n]
  BY SummedRuns
<1>3. PICK sqs \in [0..n -> Int] : IsSumming(sqs, Squares(xs)) /\ SumOfSquares(xs) = sqs[n]
  BY SquaresRun
<1>4. /\ sums[0] = 0 /\ \A k \in 1..n : sums[k] = sums[k - 1] + xs[k]
      /\ sqs[0] = 0 /\ \A k \in 1..n : sqs[k] = sqs[k - 1] + xs[k] * xs[k]
  BY <1>2, <1>3, SquaresIs DEF IsSumming
<1> HIDE DEF n
<1> DEFINE B == {k \in 0..n : k * sqs[k] - sums[k] * sums[k] >= 0}
<1>5. 0 \in B
  <2>1. 0 * 0 - 0 * 0 >= 0
    OBVIOUS
  <2> QED
    BY <1>1, <1>4, <2>1
<1>6. ASSUME NEW k \in 0..(n - 1), k \in B
      PROVE  k + 1 \in B
  <2>1. k + 1 \in 1..n /\ (k + 1) - 1 = k /\ k + 1 \in 0..n /\ k \in 0..n /\ k \in Nat
    BY <1>1
  <2>2. sums[k] \in Int /\ sqs[k] \in Int /\ xs[k + 1] \in Int
    BY <1>1, <2>1
  <2>3. sums[k + 1] = sums[k] + xs[k + 1] /\ sqs[k + 1] = sqs[k] + xs[k + 1] * xs[k + 1]
    BY <1>4, <2>1
  <2>4. k * sqs[k] - sums[k] * sums[k] >= 0
    BY <1>6
  <2>5. k = 0 => sums[k] = 0 /\ sqs[k] = 0
    BY <1>4
  <2>6. (k + 1) * (sqs[k] + xs[k + 1] * xs[k + 1]) - (sums[k] + xs[k + 1]) * (sums[k] + xs[k + 1]) >= 0
    BY <2>1, <2>2, <2>4, <2>5, OneMoreValue
  <2>7. (k + 1) * sqs[k + 1] - sums[k + 1] * sums[k + 1] >= 0
    BY <2>3, <2>6
  <2> QED
    BY <2>1, <2>7
<1>7. n \in B
  <2> HIDE DEF B
  <2>1. \A k \in 0..n : k \in B
    BY <1>1, <1>5, <1>6, InductionUpTo
  <2> QED
    BY <1>1, <2>1
<1>8. sums[n] \in Int /\ sqs[n] \in Int
  BY <1>1
<1>9. Spread(xs) = n * sqs[n] - sums[n] * sums[n]
  BY <1>2, <1>3, TotalIsSummed DEF Spread, n
<1> QED
  BY <1>1, <1>7, <1>8, <1>9

(* The arithmetic of the tests, on the size n of a record, its shortfall   *)
(* sh, its spread sp, and a threshold a / b.                               *)
LEMMA OrderTimes == \A x, y, k \in Int : x <= y /\ k >= 0 => x * k <= y * k /\ k * x <= k * y
OBVIOUS

LEMMA Distributes2 == \A b, x, y \in Int : b * (x - y) = b * x - b * y
OBVIOUS

LEMMA LargerShortfall ==
  ASSUME NEW n \in Int, n >= 1, NEW sh \in Int, NEW bigger \in Int, sh > 0, bigger >= sh,
         NEW b \in Int, b >= 1, NEW c \in Int, sh * sh * (n - 1) * b >= c
  PROVE  bigger * bigger * (n - 1) * b >= c
<1>1. sh * sh <= bigger * sh /\ bigger * sh <= bigger * bigger
  BY OrderTimes
<1>2. sh * sh \in Int /\ bigger * bigger \in Int /\ bigger * sh \in Int /\ sh * sh <= bigger * bigger
  BY <1>1
<1>3. (sh * sh) * (n - 1) <= (bigger * bigger) * (n - 1)
      /\ (sh * sh) * (n - 1) \in Int /\ (bigger * bigger) * (n - 1) \in Int
  BY <1>2, OrderTimes
<1>4. ((sh * sh) * (n - 1)) * b <= ((bigger * bigger) * (n - 1)) * b
  BY <1>3, OrderTimes
<1> QED
  BY <1>3, <1>4

LEMMA TwiceTheEvidence ==
  ASSUME NEW n \in Int, n >= 1, NEW sh \in Int, NEW sp \in Int, NEW a \in Int, NEW b \in Int, b >= 1,
         sh * sh * (n - 1) * b >= a * sp
  PROVE  (2 * sh) * (2 * sh) * (2 * n - 1) * b >= a * (4 * sp)
<1> DEFINE q == sh * sh
           e == q * (n - 1)
           f == q * (2 * n - 1)
           w == a * sp
<1>1. q \in Int /\ q >= 0
  BY SquareIsNat
<1> HIDE DEF q
<1>2. e \in Int /\ f \in Int /\ e <= f /\ w \in Int
  BY <1>1, OrderTimes
<1>3. e * b <= f * b /\ e * b >= w
  <2>1. e * b >= w
    BY DEF q
  <2> HIDE DEF e, f, w
  <2> QED
    BY <1>2, <2>1, OrderTimes
<1>4. (2 * sh) * (2 * sh) * (2 * n - 1) * b = 4 * (f * b)
  <2>1. (2 * sh) * (2 * sh) = 4 * q
    BY DEF q
  <2>2. (4 * q) * (2 * n - 1) = 4 * f
    BY <1>1
  <2> HIDE DEF f
  <2>3. (4 * f) * b = 4 * (f * b)
    BY <1>2
  <2> QED
    BY <2>1, <2>2, <2>3
<1>5. a * (4 * sp) = 4 * w
  OBVIOUS
<1> HIDE DEF e, f, w
<1>6. e * b \in Int /\ f * b \in Int
  BY <1>2
<1> QED
  BY <1>2, <1>3, <1>4, <1>5, <1>6

LEMMA WeakerThreshold ==
  ASSUME NEW e \in Int, NEW sp \in Int, sp >= 0,
         NEW a \in Int, NEW b \in Int, b >= 1, NEW c \in Int, NEW d \in Int, d >= 1,
         c * b <= a * d, e * b >= a * sp
  PROVE  e * d >= c * sp
<1>1. (e * b) * d >= (a * sp) * d
  <2>1. e * b \in Int /\ a * sp \in Int
    OBVIOUS
  <2> QED
    BY <2>1, OrderTimes
<1>2. (a * d) * sp >= (c * b) * sp
  <2>1. a * d \in Int /\ c * b \in Int
    OBVIOUS
  <2> QED
    BY <2>1, OrderTimes
<1>3. (e * b) * d = b * (e * d) /\ (a * sp) * d = (a * d) * sp /\ (c * b) * sp = b * (c * sp)
  OBVIOUS
<1>4. /\ e * d \in Int /\ c * sp \in Int /\ (a * d) * sp \in Int
      /\ b * (e * d) \in Int /\ b * (c * sp) \in Int
  OBVIOUS
<1>5. b * (e * d) >= b * (c * sp)
  BY <1>1, <1>2, <1>3, <1>4
<1>6. b * (e * d - c * sp) >= 0 /\ e * d - c * sp \in Int
  BY <1>4, <1>5, Distributes2
<1>7. e * d - c * sp >= 0
  <2> DEFINE y == e * d - c * sp
  <2> HIDE DEF y
  <2>1. b * y >= 0 /\ y \in Int
    BY <1>6 DEF y
  <2>2. y >= 0
    BY <2>1, NatQuotient
  <2> QED
    BY <2>2 DEF y
<1> QED
  BY <1>4, <1>7

ThresholdRecords ==
  [divergenceTrades : Int, decayTrades : Int, drawdownTrades : Int, calibrationTrades : Int,
   shrinkGap : Int, quarantineGap : Int, cvarFloor : Int, drawdownFloor : Int, calibrationGap : Int,
   zShrink : Nat \X (Nat \ {0}), zQuarantine : Nat \X (Nat \ {0}), zDecay : Nat \X (Nat \ {0})]

(* A fraction is at most another.                                          *)
NoMoreThan(y, z) == y[1] * z[2] <= z[1] * y[2]

(* The thresholds a monitor is configured with: a quarantine asks for no   *)
(* less than a shrink, and a shrink for no less evidence than a decay.     *)
Graded(t) ==
  /\ t \in ThresholdRecords
  /\ NoMoreThan(t.zDecay, t.zShrink) /\ NoMoreThan(t.zShrink, t.zQuarantine)
  /\ t.shrinkGap <= t.quarantineGap

LEMMA ShortfallIsInt ==
  ASSUME NEW xs \in Seq(Int), NEW mark \in Int
  PROVE  Shortfall(xs, mark) \in Int /\ Len(xs) \in Nat
<1>1. Len(xs) \in Nat /\ Total(xs) \in Int
  BY TotalIsSummed
<1> QED
  BY <1>1 DEF Shortfall

LEMMA SignificantHigherMark ==
  ASSUME NEW xs \in Seq(Int), Len(xs) >= 2, NEW mark \in Int, NEW z \in Nat \X (Nat \ {0}),
         Significant(xs, mark, z)
  PROVE  Significant(xs, mark + 1, z)
<1> DEFINE n == Len(xs)
           sh == Shortfall(xs, mark)
           bigger == Shortfall(xs, mark + 1)
<1>1. n \in Int /\ n >= 1 /\ sh \in Int /\ bigger \in Int
  <2>1. mark + 1 \in Int /\ n \in Int /\ n >= 1
    OBVIOUS
  <2>2. sh \in Int
    BY ShortfallIsInt
  <2>3. bigger \in Int
    BY ONLY <2>1, xs \in Seq(Int), ShortfallIsInt
  <2> QED
    BY <2>1, <2>2, <2>3
<1>2. bigger = sh + n
  <2>1. Total(xs) \in Int /\ Len(xs) \in Int
    BY TotalIsSummed
  <2>2. Len(xs) * (mark + 1) = Len(xs) * mark + Len(xs) /\ Len(xs) * mark \in Int
    BY <2>1
  <2> QED
    BY <2>1, <2>2 DEF Shortfall
<1>3. z[1] * Spread(xs) \in Int /\ z[2] \in Int /\ z[2] >= 1
  BY SpreadIsNat
<1>4. sh > 0 /\ sh * sh * (n - 1) * z[2] >= z[1] * Spread(xs)
  BY DEF Significant
<1>5. bigger >= sh /\ bigger > 0
  BY <1>1, <1>2, <1>4
<1> DEFINE b == z[2]
           c == z[1] * Spread(xs)
<1>6. bigger * bigger * (n - 1) * b >= c
  <2>1. b \in Int /\ b >= 1 /\ c \in Int /\ sh * sh * (n - 1) * b >= c
    BY <1>3, <1>4
  <2> HIDE DEF n, sh, bigger, b, c
  <2> QED
    BY <1>1, <1>4, <1>5, <2>1, LargerShortfall
<1> QED
  BY <1>5, <1>6 DEF Significant

LEMMA MaterialHigherMark ==
  ASSUME NEW xs \in Seq(Int), NEW mark \in Int, NEW gap \in Int, NEW t, Material(xs, mark, gap, t)
  PROVE  Material(xs, mark + 1, gap, t)
<1>1. Total(xs) \in Int /\ Len(xs) \in Nat
  BY TotalIsSummed
<1>2. Len(xs) * (mark + 1) = Len(xs) * mark + Len(xs) /\ Len(xs) * mark \in Int /\ gap * Len(xs) \in Int
  BY <1>1
<1> QED
  BY <1>1, <1>2 DEF Material, Shortfall

LEMMA TwiceShort ==
  ASSUME NEW xs \in Seq(Int), NEW mark \in Int
  PROVE  /\ Len(xs \o xs) = 2 * Len(xs) /\ xs \o xs \in Seq(Int)
         /\ Shortfall(xs \o xs, mark) = 2 * Shortfall(xs, mark)
         /\ Spread(xs \o xs) = 4 * Spread(xs)
<1> DEFINE n == Len(xs)
           s == Total(xs)
           q == SumOfSquares(xs)
<1>1. n \in Int /\ s \in Int /\ q \in Int
  BY TotalIsSummed, SquaresAreSummed
<1>2. Len(xs \o xs) = 2 * n /\ Total(xs \o xs) = 2 * s /\ SumOfSquares(xs \o xs) = 2 * q
  BY TwiceOver
<1> HIDE DEF n, s, q
<1>3. (2 * n) * mark - 2 * s = 2 * (n * mark - s)
  BY <1>1
<1>4. (2 * n) * (2 * q) - (2 * s) * (2 * s) = 4 * (n * q - s * s)
  BY <1>1
<1> QED
  BY <1>2, <1>3, <1>4 DEF Shortfall, Spread, n, s, q

LEMMA SignificantTwice ==
  ASSUME NEW xs \in Seq(Int), Len(xs) >= 2, NEW mark \in Int, NEW z \in Nat \X (Nat \ {0}),
         Significant(xs, mark, z)
  PROVE  Significant(xs \o xs, mark, z)
<1> DEFINE n == Len(xs)
           sh == Shortfall(xs, mark)
           sp == Spread(xs)
<1>1. n \in Int /\ n >= 1 /\ sh \in Int /\ sp \in Int /\ z[1] \in Int /\ z[2] \in Int /\ z[2] >= 1
  <2>1. n \in Int /\ n >= 1 /\ sh \in Int
    BY ShortfallIsInt
  <2>2. sp \in Int
    BY SpreadIsNat
  <2>3. z[1] \in Int /\ z[2] \in Int /\ z[2] >= 1
    OBVIOUS
  <2> QED
    BY <2>1, <2>2, <2>3
<1>2. sh > 0 /\ sh * sh * (n - 1) * z[2] >= z[1] * sp
  BY DEF Significant
<1>3. Len(xs \o xs) = 2 * n /\ Shortfall(xs \o xs, mark) = 2 * sh /\ Spread(xs \o xs) = 4 * sp
  BY TwiceShort
<1> HIDE DEF n, sh, sp
<1>4. (2 * sh) * (2 * sh) * (2 * n - 1) * z[2] >= z[1] * (4 * sp)
  BY <1>1, <1>2, TwiceTheEvidence
<1>5. 2 * sh > 0
  BY <1>1, <1>2
<1> QED
  BY <1>3, <1>4, <1>5 DEF Significant

LEMMA MaterialTwice ==
  ASSUME NEW xs \in Seq(Int), NEW mark \in Int, NEW gap \in Int, NEW t, Material(xs, mark, gap, t)
  PROVE  Material(xs \o xs, mark, gap, t)
<1> DEFINE n == Len(xs)
           sh == Shortfall(xs, mark)
<1>1. n \in Int /\ sh \in Int
  BY ShortfallIsInt
<1>2. sh >= gap * n
  BY DEF Material
<1>3. Len(xs \o xs) = 2 * n /\ Shortfall(xs \o xs, mark) = 2 * sh
  BY TwiceShort
<1> HIDE DEF n, sh
<1>4. gap * (2 * n) = 2 * (gap * n) /\ gap * n \in Int
  BY <1>1
<1>5. 2 * sh >= gap * (2 * n)
  BY <1>1, <1>2, <1>4
<1> QED
  BY <1>3, <1>5 DEF Material

LEMMA SignificantWeaker ==
  ASSUME NEW xs \in Seq(Int), NEW mark \in Int, NEW z \in Nat \X (Nat \ {0}),
         NEW y \in Nat \X (Nat \ {0}), NoMoreThan(y, z), Significant(xs, mark, z)
  PROVE  Significant(xs, mark, y)
<1> DEFINE sh == Shortfall(xs, mark)
           n == Len(xs)
           e == sh * sh * (n - 1)
           sp == Spread(xs)
           a == z[1]
           b == z[2]
           c == y[1]
           d == y[2]
<1>1. sh \in Int /\ n \in Int
  BY ShortfallIsInt
<1>2. sp \in Int /\ sp >= 0
  BY SpreadIsNat
<1>3. e * b >= a * sp /\ sh > 0
  BY DEF Significant
<1>4. a \in Int /\ b \in Int /\ b >= 1 /\ c \in Int /\ d \in Int /\ d >= 1 /\ c * b <= a * d
  BY DEF NoMoreThan
<1>5. e * d >= c * sp
  <2> HIDE DEF sh, n, sp, a, b, c, d
  <2>1. e \in Int
    BY <1>1
  <2> HIDE DEF e
  <2> QED
    BY <1>2, <1>3, <1>4, <2>1, WeakerThreshold
<1> QED
  BY <1>3, <1>5 DEF Significant

LEMMA TwiceReaches ==
  \A n, m, k \in Int : m = 2 * n /\ n >= 2 /\ n >= k => ~(m < k) /\ ~(m < 2) /\ m >= k /\ m >= 2
OBVIOUS

(* detectors.rs: a better backtest, or the same live trades again, is      *)
(* judged at least as hard, and divergence from breaking even is decay,    *)
(* for every record and every graded configuration.                        *)
THEOREM MoreEvidenceNeverSoftens ==
  ASSUME NEW xs \in Seq(Int), NEW oos \in Int, NEW t, Graded(t)
  PROVE  EvidenceNeverSoftens(xs, oos, t)
<1>1. /\ t.zShrink \in Nat \X (Nat \ {0}) /\ t.zQuarantine \in Nat \X (Nat \ {0})
      /\ t.zDecay \in Nat \X (Nat \ {0}) /\ t.shrinkGap \in Int /\ t.quarantineGap \in Int
      /\ t.divergenceTrades \in Int /\ t.decayTrades \in Int
      /\ NoMoreThan(t.zDecay, t.zShrink) /\ NoMoreThan(t.zShrink, t.zQuarantine)
  BY DEF Graded, ThresholdRecords
<1>2. Len(xs) \in Nat /\ Len(xs \o xs) = 2 * Len(xs) /\ xs \o xs \in Seq(Int) /\ 0 \in Int
      /\ oos + 1 \in Int
  BY TwiceShort
<1>23. \A k \in Int : Len(xs) >= 2 /\ Len(xs) >= k
                     => /\ ~(Len(xs \o xs) < k) /\ ~(Len(xs \o xs) < 2)
                        /\ Len(xs \o xs) >= k /\ Len(xs \o xs) >= 2
  <2> DEFINE n == Len(xs)
             m == Len(xs \o xs)
  <2>1. n \in Int /\ m \in Int /\ m = 2 * n
    BY <1>2
  <2> HIDE DEF n, m
  <2>2. \A k \in Int : n >= 2 /\ n >= k => ~(m < k) /\ ~(m < 2) /\ m >= k /\ m >= 2
    BY <2>1, TwiceReaches
  <2> QED
    BY <2>2 DEF n, m
<1>24. ~(Len(xs) < t.divergenceTrades) => Len(xs) >= t.divergenceTrades
  BY <1>1, <1>2
<1>3. Severity["none"] = 0 /\ Severity["shrink_size"] = 1 /\ Severity["quarantine"] = 2
  BY DEF Severity
<1>4. \A ys, mark : Divergence(ys, mark, t) \in {"none", "shrink_size", "quarantine"}
  BY DEF Divergence
<1>5. Severity[Divergence(xs, oos, t)] <= Severity[Divergence(xs, oos + 1, t)]
  <2>1. CASE Divergence(xs, oos, t) = "none"
    BY <1>3, <1>4, <2>1
  <2>2. CASE Divergence(xs, oos, t) = "quarantine"
    <3>1. /\ Len(xs) >= 2 /\ ~(Len(xs) < t.divergenceTrades)
          /\ Significant(xs, oos, t.zQuarantine) /\ Material(xs, oos, t.quarantineGap, t)
      BY <1>1, <1>2, <2>2 DEF Divergence
    <3>2. Significant(xs, oos + 1, t.zQuarantine) /\ Material(xs, oos + 1, t.quarantineGap, t)
      BY <1>1, <3>1, SignificantHigherMark, MaterialHigherMark
    <3>3. Divergence(xs, oos + 1, t) = "quarantine"
      BY <1>2, <3>1, <3>2 DEF Divergence
    <3> QED
      BY <1>3, <2>2, <3>3
  <2>3. CASE Divergence(xs, oos, t) = "shrink_size"
    <3>1. /\ Len(xs) >= 2 /\ ~(Len(xs) < t.divergenceTrades)
          /\ Significant(xs, oos, t.zShrink) /\ Material(xs, oos, t.shrinkGap, t)
      BY <1>1, <1>2, <2>3 DEF Divergence
    <3>2. Significant(xs, oos + 1, t.zShrink) /\ Material(xs, oos + 1, t.shrinkGap, t)
      BY <1>1, <3>1, SignificantHigherMark, MaterialHigherMark
    <3>3. Divergence(xs, oos + 1, t) # "none"
      BY <1>2, <3>1, <3>2 DEF Divergence
    <3> QED
      BY <1>3, <1>4, <2>3, <3>3
  <2> QED
    BY <1>4, <2>1, <2>2, <2>3
<1>6. Severity[Divergence(xs, oos, t)] <= Severity[Divergence(xs \o xs, oos, t)]
  <2>1. CASE Divergence(xs, oos, t) = "none"
    BY <1>3, <1>4, <2>1
  <2>2. CASE Divergence(xs, oos, t) = "quarantine"
    <3>1. /\ Len(xs) >= 2 /\ ~(Len(xs) < t.divergenceTrades)
          /\ Significant(xs, oos, t.zQuarantine) /\ Material(xs, oos, t.quarantineGap, t)
      BY <1>1, <1>2, <2>2 DEF Divergence
    <3>2. Significant(xs \o xs, oos, t.zQuarantine) /\ Material(xs \o xs, oos, t.quarantineGap, t)
      BY <1>1, <3>1, SignificantTwice, MaterialTwice
    <3>3. Divergence(xs \o xs, oos, t) = "quarantine"
      <4>1. ~(Len(xs \o xs) < t.divergenceTrades \/ Len(xs \o xs) < 2)
        BY <1>1, <1>23, <1>24, <3>1
      <4> QED
        BY <4>1, <3>2 DEF Divergence
    <3> QED
      BY <1>3, <2>2, <3>3
  <2>3. CASE Divergence(xs, oos, t) = "shrink_size"
    <3>1. /\ Len(xs) >= 2 /\ ~(Len(xs) < t.divergenceTrades)
          /\ Significant(xs, oos, t.zShrink) /\ Material(xs, oos, t.shrinkGap, t)
      BY <1>1, <1>2, <2>3 DEF Divergence
    <3>2. Significant(xs \o xs, oos, t.zShrink) /\ Material(xs \o xs, oos, t.shrinkGap, t)
      BY <1>1, <3>1, SignificantTwice, MaterialTwice
    <3>3. Divergence(xs \o xs, oos, t) # "none"
      <4>1. ~(Len(xs \o xs) < t.divergenceTrades \/ Len(xs \o xs) < 2)
        BY <1>1, <1>23, <1>24, <3>1
      <4> QED
        BY <4>1, <3>2 DEF Divergence
    <3> QED
      BY <1>3, <1>4, <2>3, <3>3
  <2> QED
    BY <1>4, <2>1, <2>2, <2>3
<1>7. Decay(xs, t) => Decay(xs \o xs, t) /\ Total(xs) < 0
  <2> SUFFICES ASSUME Decay(xs, t) PROVE Decay(xs \o xs, t) /\ Total(xs) < 0
    OBVIOUS
  <2>1. Len(xs) >= t.decayTrades /\ Len(xs) >= 2 /\ Significant(xs, 0, t.zDecay)
    BY DEF Decay
  <2>2. Significant(xs \o xs, 0, t.zDecay)
    BY <1>1, <1>2, <2>1, SignificantTwice
  <2>3. Len(xs \o xs) >= t.decayTrades /\ Len(xs \o xs) >= 2
    BY <1>1, <1>23, <2>1
  <2>4. Len(xs) * 0 - Total(xs) > 0
    BY <2>1 DEF Significant, Shortfall
  <2>5. Total(xs) < 0
    BY <1>2, <2>4, TotalIsSummed
  <2> QED
    BY <2>2, <2>3, <2>5 DEF Decay
<1>8. Len(xs) >= t.decayTrades /\ Divergence(xs, 0, t) # "none" => Decay(xs, t)
  <2> SUFFICES ASSUME Len(xs) >= t.decayTrades, Divergence(xs, 0, t) # "none" PROVE Decay(xs, t)
    OBVIOUS
  <2>1. /\ Len(xs) >= 2
        /\ Significant(xs, 0, t.zQuarantine) \/ Significant(xs, 0, t.zShrink)
    BY <1>1, <1>2 DEF Divergence
  <2>2. Significant(xs, 0, t.zShrink)
    BY <1>1, <1>2, <2>1, SignificantWeaker
  <2>3. Significant(xs, 0, t.zDecay)
    BY <1>1, <1>2, <2>2, SignificantWeaker
  <2> QED
    BY <2>1, <2>3 DEF Decay
<1> QED
  BY <1>5, <1>6, <1>7, <1>8 DEF EvidenceNeverSoftens

(* detectors.rs: evidence however strong does not quarantine below the gap *)
(* of a quarantine, it only shrinks the size.                              *)
THEOREM EveryQuarantineNeedsTheGap ==
  ASSUME NEW xs \in Seq(Int), NEW oos \in Int, NEW t, Graded(t)
  PROVE  QuarantineNeedsTheGap(xs, oos, t)
<1> DEFINE sh == Shortfall(xs, oos)
           n == Len(xs)
           u == [t EXCEPT !.quarantineGap = 1 + Shortfall(xs, oos)]
<1> SUFFICES ASSUME Divergence(xs, oos, t) = "quarantine"
             PROVE  Divergence(xs, oos, u) = "shrink_size"
  BY DEF QuarantineNeedsTheGap
<1>1. /\ t.zShrink \in Nat \X (Nat \ {0}) /\ t.zQuarantine \in Nat \X (Nat \ {0})
      /\ t.shrinkGap \in Int /\ t.quarantineGap \in Int /\ t.shrinkGap <= t.quarantineGap
      /\ t.divergenceTrades \in Int /\ NoMoreThan(t.zShrink, t.zQuarantine)
  BY DEF Graded, ThresholdRecords
<1>2. /\ u.zShrink = t.zShrink /\ u.zQuarantine = t.zQuarantine /\ u.shrinkGap = t.shrinkGap
      /\ u.divergenceTrades = t.divergenceTrades /\ u.quarantineGap = 1 + sh
  BY DEF Graded, ThresholdRecords
<1>3. sh \in Int /\ n \in Nat
  BY ShortfallIsInt
<1>4. /\ n >= 2 /\ ~(n < t.divergenceTrades)
      /\ Significant(xs, oos, t.zQuarantine) /\ sh >= t.quarantineGap * n
  BY <1>1, <1>3 DEF Divergence, Material
<1>5. sh > 0
  BY <1>4 DEF Significant
<1>6. Significant(xs, oos, t.zShrink)
  BY <1>1, <1>4, SignificantWeaker
<1> HIDE DEF u
<1>7. Material(xs, oos, u.shrinkGap, u)
  <2>1. t.shrinkGap * n <= t.quarantineGap * n
    BY <1>1, <1>3, OrderTimes
  <2>2. t.shrinkGap * n \in Int /\ t.quarantineGap * n \in Int
    BY <1>1, <1>3
  <2>3. sh >= t.shrinkGap * n
    BY <1>3, <1>4, <2>1, <2>2
  <2> QED
    BY <1>2, <2>3 DEF Material
<1>8. ~Material(xs, oos, u.quarantineGap, u)
  <2>1. ~(sh >= (1 + sh) * n)
    <3>1. (1 + sh) * 1 <= (1 + sh) * n
      BY <1>3, <1>4, <1>5, OrderTimes
    <3> QED
      BY <1>3, <3>1
  <2> QED
    BY <1>2, <2>1 DEF Material
<1> QED
  BY <1>2, <1>4, <1>6, <1>7, <1>8 DEF Divergence

-----------------------------------------------------------------------------
(* The accumulator of the drawdown after each trade.                       *)
Drops == [cum : Int, peak : Int, dd : Int]

Fell(s, r) ==
  LET cum == s.cum + r
      peak == Max({s.peak, cum})
  IN  [cum |-> cum, peak |-> peak, dd |-> Min({s.dd, cum - peak})]

Flat == [cum |-> 0, peak |-> 0, dd |-> 0]

LEMMA FellIsDrop ==
  ASSUME NEW s \in Drops, NEW r \in Int
  PROVE  /\ Fell(s, r) \in Drops
         /\ Fell(s, r).cum = s.cum + r
         /\ Fell(s, r).peak = IF s.peak >= s.cum + r THEN s.peak ELSE s.cum + r
         /\ Fell(s, r).dd = IF s.dd <= s.cum + r - Fell(s, r).peak THEN s.dd
                            ELSE s.cum + r - Fell(s, r).peak
<1> DEFINE cum == s.cum + r
           peak == Max({s.peak, cum})
<1>1. cum \in Int /\ s.peak \in Int /\ s.dd \in Int
  BY DEF Drops
<1>2. peak = IF s.peak >= cum THEN s.peak ELSE cum
  <2> HIDE DEF cum
  <2> QED
    BY <1>1, MaxOfTwo
<1>3. peak \in Int /\ cum - peak \in Int
  <2> HIDE DEF cum
  <2> QED
    BY <1>1, <1>2
<1>4. Min({s.dd, cum - peak}) = IF s.dd <= cum - peak THEN s.dd ELSE cum - peak
  <2> HIDE DEF cum, peak
  <2> QED
    BY <1>1, <1>3, MinOfTwo
<1>5. Fell(s, r) = [cum |-> cum, peak |-> peak, dd |-> Min({s.dd, cum - peak})]
  BY DEF Fell
<1> HIDE DEF cum, peak
<1> QED
  BY <1>1, <1>2, <1>3, <1>4, <1>5 DEF Drops, cum

LEMMA DrawdownRuns ==
  ASSUME NEW xs \in Seq(Int)
  PROVE  \E run \in [0..Len(xs) -> Drops] :
           /\ run[0] = Flat /\ MaxDrawdown(xs) = run[Len(xs)].dd
           /\ \A k \in 1..Len(xs) : run[k] = Fell(run[k - 1], xs[k])
<1> DEFINE n == Len(xs)
           from == PeakFromZero(xs)
           ys == from.rest
           start == [cum |-> from.cum, peak |-> from.peak, dd |-> from.dd]
           step == [p \in (1..n) \X Drops |-> Fell(p[2], xs[p[1]])]
           rule(f, s) == IF s = {} THEN start ELSE Fell(f[s \ {Max(s)}], ys[Max(s)])
           iter == CHOOSE f : f = [s \in SUBSET (DOMAIN ys) |-> rule(f, s)]
<1>1. n \in Nat /\ DOMAIN xs = 1..n /\ \A i \in 1..n : xs[i] \in Int
  OBVIOUS
<1>2. MaxDrawdown(xs) = iter[DOMAIN ys].dd
  BY Zenon DEF MaxDrawdown, FoldLeft, MapThenFoldSet, Fell
<1>21. ys = xs /\ start = Flat
  BY DEF PeakFromZero, Flat
<1> HIDE DEF n, ys, start
<1>22. DOMAIN ys = 1..n
  BY <1>1, <1>21
<1>3. step \in [(1..n) \X Drops -> Drops] /\ Flat \in Drops
  <2>1. \A k \in 1..n : \A s \in Drops : Fell(s, xs[k]) \in Drops
    BY <1>1, FellIsDrop
  <2>2. \A p \in (1..n) \X Drops : Fell(p[2], xs[p[1]]) \in Drops
    BY <2>1
  <2>3. Flat \in Drops
    BY DEF Flat, Drops
  <2> QED
    BY <2>2, <2>3
<1>4. \A k \in 1..n : \A v \in Drops : step[<<k, v>>] = Fell(v, xs[k])
  OBVIOUS
<1> HIDE DEF step
<1>5. PICK f \in [SUBSET (1..n) -> Drops] : Recurs(f, n, Flat, step)
  BY <1>1, <1>3, RecursionHasSolution
<1>6. \A s \in SUBSET (1..n) : s # {} => Max(s) \in 1..n /\ s \ {Max(s)} \in SUBSET (1..n)
  BY <1>1, LargestExists
<1>7. f = [s \in SUBSET (DOMAIN ys) |-> rule(f, s)]
  <2>1. \A s \in SUBSET (1..n) : f[s] = rule(f, s)
    BY <1>4, <1>5, <1>6, <1>21 DEF Recurs
  <2> HIDE DEF rule
  <2> QED
    BY <1>22, <2>1
<1>8. iter = [s \in SUBSET (DOMAIN ys) |-> rule(iter, s)]
  BY <1>7
<1> HIDE DEF iter
<1>9. RecursWithin(iter, n, Drops, Flat, step)
  BY <1>1, <1>4, <1>6, <1>8, <1>21, <1>22 DEF RecursWithin
<1>10. EndsARun(iter, n, Drops, Flat, step)
  <2> HIDE DEF rule
  <2> QED
    BY ONLY <1>1, <1>3, <1>9, SolutionRunsInOrder
<1>11. PICK run \in [0..n -> Drops] : Accumulates(run, n, Flat, step) /\ iter[1..n] = run[n]
  BY <1>10 DEF EndsARun
<1>12. \A k \in 1..n : run[k] = Fell(run[k - 1], xs[k])
  <2> SUFFICES ASSUME NEW k \in 1..n PROVE run[k] = Fell(run[k - 1], xs[k])
    OBVIOUS
  <2>1. run[k - 1] \in Drops
    BY <1>1
  <2> QED
    BY <1>4, <1>11, <2>1 DEF Accumulates
<1> QED
  BY <1>1, <1>2, <1>22, <1>11, <1>12 DEF n, Accumulates

(* The sum of consecutive trades is a difference of running sums.          *)
LEMMA SegmentIsDifference ==
  ASSUME NEW xs \in Seq(Int), NEW sums \in [0..Len(xs) -> Int], IsSumming(sums, xs),
         NEW i \in 1..Len(xs), NEW j \in 1..Len(xs)
  PROVE  Total(SubSeq(xs, i, j)) = IF i <= j THEN sums[j] - sums[i - 1] ELSE 0
<1> DEFINE n == Len(xs)
           part == SubSeq(xs, i, j)
           m == IF i <= j THEN j - i + 1 ELSE 0
<1>1. n \in Nat /\ i \in 1..n /\ j \in 1..n /\ m \in Nat
  OBVIOUS
<1>2. part \in Seq(Int) /\ Len(part) = m /\ \A k \in 1..m : part[k] = xs[i + k - 1]
  OBVIOUS
<1>3. \A k \in 0..n : sums[k] \in Int
  OBVIOUS
<1>4. \A k \in 1..n : sums[k] = sums[k - 1] + xs[k]
  BY DEF IsSumming
<1> DEFINE run == [k \in 0..m |-> sums[i - 1 + k] - sums[i - 1]]
<1> HIDE DEF part, n
<1>5. \A k \in 0..m : i - 1 + k \in 0..n
  BY <1>1
<1> HIDE DEF m
<1>6. \A k \in 0..Len(part) : run[k] \in Int
  <2> SUFFICES ASSUME NEW k \in 0..m PROVE run[k] \in Int
    BY <1>2
  <2>1. sums[i - 1 + k] \in Int
    BY <1>3, <1>5
  <2>2. i - 1 \in 0..n
    BY <1>1
  <2>3. sums[i - 1] \in Int
    BY <1>3, <2>2
  <2> QED
    BY <2>1, <2>3
<1>7. IsSumming(run, part)
  <2>1. run[0] = 0
    <3>1. 0 \in 0..m /\ i - 1 + 0 = i - 1 /\ sums[i - 1] \in Int
      BY <1>1, <1>3
    <3> QED
      BY <3>1
  <2>2. ASSUME NEW k \in 1..m PROVE run[k] = run[k - 1] + part[k]
    <3>1. k \in 0..m /\ k - 1 \in 0..m /\ i - 1 + (k - 1) = (i - 1 + k) - 1 /\ i - 1 + k = i + k - 1
      BY <1>1
    <3>2. i - 1 + k \in 1..n
      <4>1. i - 1 + k \in 0..n
        BY <1>5, <3>1
      <4> QED
        BY <1>1, <4>1
    <3> DEFINE p == i - 1 + k
    <3>3. sums[p] = sums[p - 1] + xs[p] /\ part[k] = xs[p]
      BY <1>2, <1>4, <3>1, <3>2
    <3>4. run[k] = sums[p] - sums[i - 1] /\ run[k - 1] = sums[p - 1] - sums[i - 1]
      BY <3>1
    <3>5. sums[p - 1] \in Int /\ sums[i - 1] \in Int /\ sums[p] \in Int
      <4>1. p \in 0..n /\ p - 1 \in 0..n /\ i - 1 \in 0..n
        <5> HIDE DEF run
        <5> QED
          BY <1>1, <3>2
      <4> HIDE DEF p, run
      <4> QED
        BY <1>3, <4>1
    <3>6. xs[p] \in Int
      BY <3>2 DEF n
    <3> HIDE DEF p, run
    <3>7. run[k] = (sums[p - 1] + xs[p]) - sums[i - 1]
      BY <3>3, <3>4
    <3>8. (sums[p - 1] + xs[p]) - sums[i - 1] = (sums[p - 1] - sums[i - 1]) + xs[p]
      BY <3>5, <3>6
    <3>9. part[k] = xs[p]
      BY <3>3
    <3> QED
      BY <3>4, <3>7, <3>8, <3>9
  <2> HIDE DEF run
  <2> QED
    BY <1>2, <2>1, <2>2 DEF IsSumming
<1>8. Summed(part) = run[m]
  <2> HIDE DEF run
  <2> QED
    BY <1>2, <1>6, <1>7, OneRunSums
<1>9. m \in 0..m
  BY <1>1
<1>10. Total(part) = run[m]
  BY <1>2, <1>8, TotalIsSummed
<1>11. CASE i <= j
  <2>1. i - 1 + m = j
    BY <1>1, <1>11 DEF m
  <2> QED
    BY <1>9, <1>10, <1>11, <2>1 DEF part
<1>12. CASE ~(i <= j)
  <2>1. m = 0
    BY <1>12 DEF m
  <2> QED
    BY <1>7, <1>10, <1>12, <2>1 DEF part, IsSumming
<1> QED
  BY <1>11, <1>12

(* The drawdown is the least difference of two running sums in order.      *)
DeepestFall(dd, sums, n) ==
  /\ \E i, j \in 0..n : i <= j /\ dd = sums[j] - sums[i]
  /\ \A i, j \in 0..n : i <= j => dd <= sums[j] - sums[i]

LEMMA DrawdownIsDeepestFall ==
  ASSUME NEW xs \in Seq(Int), NEW sums \in [0..Len(xs) -> Int], IsSumming(sums, xs)
  PROVE  MaxDrawdown(xs) \in Int /\ DeepestFall(MaxDrawdown(xs), sums, Len(xs))
<1> DEFINE n == Len(xs)
<1>1. n \in Nat /\ \A k \in 1..n : xs[k] \in Int
  OBVIOUS
<1>2. PICK run \in [0..n -> Drops] :
        /\ run[0] = Flat /\ MaxDrawdown(xs) = run[n].dd
        /\ \A k \in 1..n : run[k] = Fell(run[k - 1], xs[k])
  BY DrawdownRuns
<1>3. /\ sums[0] = 0 /\ \A k \in 1..n : sums[k] = sums[k - 1] + xs[k]
      /\ \A k \in 0..n : sums[k] \in Int
  BY DEF IsSumming
<1> HIDE DEF n
<1> DEFINE B == {k \in 0..n :
                   /\ run[k].cum = sums[k]
                   /\ \E i \in 0..k : run[k].peak = sums[i]
                   /\ \A i \in 0..k : sums[i] <= run[k].peak
                   /\ DeepestFall(run[k].dd, sums, k)}
<1>4. 0 \in B
  <2>1. run[0].cum = 0 /\ run[0].peak = 0 /\ run[0].dd = 0 /\ sums[0] = 0 /\ 0 \in 0..n
    BY <1>1, <1>2, <1>3 DEF Flat
  <2>2. \A i \in 0..0 : i = 0
    OBVIOUS
  <2>3. DeepestFall(0, sums, 0)
    BY <2>1, <2>2 DEF DeepestFall
  <2> QED
    BY <2>1, <2>2, <2>3
<1>5. ASSUME NEW k \in 0..(n - 1), k \in B
      PROVE  k + 1 \in B
  <2> DEFINE s == run[k]
             r == xs[k + 1]
             t == run[k + 1]
  <2>1. k + 1 \in 1..n /\ (k + 1) - 1 = k /\ k \in 0..n /\ k + 1 \in 0..n /\ k \in Nat
    BY <1>1
  <2>2. s \in Drops /\ r \in Int /\ t = Fell(s, r)
    BY <1>1, <1>2, <2>1
  <2>3. s.cum \in Int /\ s.peak \in Int /\ s.dd \in Int
    BY <2>2 DEF Drops
  <2>4. /\ s.cum = sums[k] /\ \A i \in 0..k : sums[i] <= s.peak
        /\ \E i \in 0..k : s.peak = sums[i]
        /\ DeepestFall(s.dd, sums, k)
    BY <1>5
  <2>5. /\ t.cum = s.cum + r
        /\ t.peak = IF s.peak >= s.cum + r THEN s.peak ELSE s.cum + r
        /\ t.dd = IF s.dd <= s.cum + r - t.peak THEN s.dd ELSE s.cum + r - t.peak
    <3> HIDE DEF s, r, t
    <3> QED
      BY <2>2, FellIsDrop
  <2>6. sums[k + 1] = sums[k] + r /\ sums[k] \in Int /\ sums[k + 1] \in Int
    BY <1>3, <2>1
  <2> HIDE DEF s, r, t, B
  <2>7. t.cum = sums[k + 1] /\ s.cum + r = sums[k + 1]
    BY <2>4, <2>5, <2>6
  <2>8. \A i \in 0..(k + 1) : i \in 0..k \/ i = k + 1
    BY <2>1
  <2>9. \A i \in 0..k : i \in 0..(k + 1) /\ sums[i] \in Int
    <3> SUFFICES ASSUME NEW i \in 0..k PROVE i \in 0..(k + 1) /\ sums[i] \in Int
      OBVIOUS
    <3>1. i \in 0..(k + 1) /\ i \in 0..n
      BY <1>1, <2>1
    <3> QED
      BY <1>3, <3>1
  <2>10. k + 1 \in 0..(k + 1)
    BY <2>1
  <2>11. t.peak \in Int /\ t.peak >= s.peak /\ t.peak >= sums[k + 1]
         /\ (t.peak = s.peak \/ t.peak = sums[k + 1])
    BY <2>3, <2>5, <2>6, <2>7
  <2>12. \A i \in 0..(k + 1) : sums[i] <= t.peak
    <3> SUFFICES ASSUME NEW i \in 0..(k + 1) PROVE sums[i] <= t.peak
      OBVIOUS
    <3>1. CASE i \in 0..k
      <4>1. sums[i] <= s.peak /\ sums[i] \in Int
        BY <2>4, <2>9, <3>1
      <4> QED
        BY <2>3, <2>11, <4>1
    <3>2. CASE i = k + 1
      BY <2>11, <3>2
    <3> QED
      BY <2>8, <3>1, <3>2
  <2>13. PICK p \in 0..(k + 1) : t.peak = sums[p]
    BY <2>4, <2>9, <2>10, <2>11
  <2>14. t.dd \in Int /\ t.dd <= s.dd /\ t.dd <= sums[k + 1] - t.peak
         /\ (t.dd = s.dd \/ t.dd = sums[k + 1] - t.peak)
    <3> DEFINE d == sums[k + 1] - t.peak
    <3>1. d \in Int
      BY <2>6, <2>11
    <3>2. t.dd = IF s.dd <= d THEN s.dd ELSE d
      BY <2>5, <2>7
    <3> HIDE DEF d
    <3>3. t.dd \in Int /\ t.dd <= s.dd /\ t.dd <= d /\ (t.dd = s.dd \/ t.dd = d)
      BY <2>3, <3>1, <3>2
    <3> QED
      BY <3>3 DEF d
  <2>15. \E i, j \in 0..(k + 1) : i <= j /\ t.dd = sums[j] - sums[i]
    <3>1. CASE t.dd = s.dd
      <4>1. PICK i \in 0..k, j \in 0..k : i <= j /\ s.dd = sums[j] - sums[i]
        BY <2>4 DEF DeepestFall
      <4> QED
        BY <2>9, <3>1, <4>1
    <3>2. CASE t.dd = sums[k + 1] - t.peak
      <4>1. p <= k + 1
        BY <2>1
      <4> QED
        BY <2>10, <2>13, <3>2, <4>1
    <3> QED
      BY <2>14, <3>1, <3>2
  <2>16. ASSUME NEW i \in 0..(k + 1), NEW j \in 0..(k + 1), i <= j
         PROVE  t.dd <= sums[j] - sums[i]
    <3>1. CASE j \in 0..k
      <4>1. i \in 0..k
        BY <2>1, <2>16, <3>1
      <4>2. s.dd <= sums[j] - sums[i] /\ sums[j] \in Int /\ sums[i] \in Int
        BY <2>4, <2>9, <2>16, <3>1, <4>1 DEF DeepestFall
      <4>3. sums[j] - sums[i] \in Int
        BY <4>2
      <4> QED
        BY <2>3, <2>14, <4>2, <4>3
    <3>2. CASE j = k + 1
      <4>1. sums[i] \in Int
        BY <2>6, <2>8, <2>9
      <4>2. sums[i] <= t.peak
        BY <2>12
      <4>3. sums[k + 1] - t.peak <= sums[k + 1] - sums[i]
        BY <2>6, <2>11, <4>1, <4>2
      <4>4. sums[k + 1] - t.peak \in Int /\ sums[k + 1] - sums[i] \in Int
        BY <2>6, <2>11, <4>1
      <4> QED
        BY <2>14, <3>2, <4>3, <4>4
    <3> QED
      BY <2>8, <3>1, <3>2
  <2>17. DeepestFall(t.dd, sums, k + 1)
    BY <2>15, <2>16 DEF DeepestFall
  <2> QED
    BY <2>1, <2>7, <2>12, <2>13, <2>17 DEF B, t
<1>6. n \in B
  <2> HIDE DEF B
  <2>1. \A k \in 0..n : k \in B
    BY <1>1, <1>4, <1>5, InductionUpTo
  <2> QED
    BY <1>1, <2>1
<1>7. run[n] \in Drops
  BY <1>1
<1> QED
  BY <1>2, <1>6, <1>7 DEF n, Drops

LEMMA OneDeepestFall ==
  ASSUME NEW n \in Nat, NEW sums \in [0..n -> Int], NEW a \in Int, NEW b \in Int,
         DeepestFall(a, sums, n), DeepestFall(b, sums, n)
  PROVE  a = b
<1>1. PICK i \in 0..n, j \in 0..n : i <= j /\ a = sums[j] - sums[i]
  BY DEF DeepestFall
<1>2. PICK k \in 0..n, l \in 0..n : k <= l /\ b = sums[l] - sums[k]
  BY DEF DeepestFall
<1>3. a <= b /\ b <= a
  BY <1>1, <1>2 DEF DeepestFall
<1> QED
  BY <1>3

LEMMA PartOfSum == \A a, b, c \in Int : a - b = (a - (b + c)) + c
OBVIOUS

(* The running sums of the record read from its end.                       *)
LEMMA ReversedSums ==
  ASSUME NEW xs \in Seq(Int), NEW sums \in [0..Len(xs) -> Int], IsSumming(sums, xs),
         NEW back, back = [k \in 0..Len(xs) |-> sums[Len(xs)] - sums[Len(xs) - k]]
  PROVE  /\ Reverse(xs) \in Seq(Int) /\ Len(Reverse(xs)) = Len(xs)
         /\ back \in [0..Len(xs) -> Int] /\ IsSumming(back, Reverse(xs))
<1> DEFINE n == Len(xs)
<1>1. n \in Nat /\ \A k \in 1..n : xs[k] \in Int
  OBVIOUS
<1>2. /\ Reverse(xs) \in Seq(Int) /\ Len(Reverse(xs)) = n
      /\ \A k \in 1..n : Reverse(xs)[k] = xs[n - k + 1]
  <2>1. \A k \in 1..n : n - k + 1 \in 1..n
    BY <1>1
  <2>2. Reverse(xs) = [k \in 1..n |-> xs[(n - k) + 1]]
    BY DEF Reverse
  <2> QED
    BY <1>1, <2>1, <2>2
<1>3. sums[0] = 0 /\ \A k \in 1..n : sums[k] = sums[k - 1] + xs[k]
  BY DEF IsSumming
<1>4. \A k \in 0..n : sums[k] \in Int
  OBVIOUS
<1> HIDE DEF n
<1>5. \A k \in 0..n : back[k] = sums[n] - sums[n - k]
  BY DEF n
<1>6. \A k \in 0..n : n - k \in 0..n /\ n \in 0..n
  BY <1>1
<1>7. \A k \in 0..n : back[k] \in Int
  <2> SUFFICES ASSUME NEW k \in 0..n PROVE back[k] \in Int
    OBVIOUS
  <2>1. sums[n] \in Int /\ sums[n - k] \in Int
    BY <1>4, <1>6
  <2>2. back[k] = sums[n] - sums[n - k]
    BY <1>5
  <2> QED
    BY <2>1, <2>2
<1>8. back[0] = 0
  <2>1. 0 \in 0..n /\ n - 0 = n /\ sums[n] \in Int
    BY <1>1, <1>4, <1>6
  <2>2. back[0] = sums[n] - sums[n]
    BY <1>5, <2>1
  <2> QED
    BY <2>1, <2>2
<1>9. ASSUME NEW k \in 1..n PROVE back[k] = back[k - 1] + Reverse(xs)[k]
  <2> DEFINE p == n - k + 1
  <2>1. p \in 1..n /\ p \in 0..n /\ p - 1 \in 0..n /\ n - k = p - 1 /\ n - (k - 1) = p
        /\ k \in 0..n /\ k - 1 \in 0..n
    BY <1>1
  <2>2. Reverse(xs)[k] = xs[p]
    BY <1>2
  <2> HIDE DEF p
  <2>3. back[k] = sums[n] - sums[p - 1] /\ back[k - 1] = sums[n] - sums[p]
    BY <1>5, <2>1
  <2>4. sums[p] = sums[p - 1] + xs[p] /\ sums[p - 1] \in Int /\ sums[n] \in Int /\ xs[p] \in Int
    BY <1>1, <1>3, <1>4, <1>6, <2>1
  <2>5. sums[n] - sums[p - 1] = (sums[n] - (sums[p - 1] + xs[p])) + xs[p]
    BY <2>4, PartOfSum
  <2> QED
    BY <2>2, <2>3, <2>4, <2>5
<1>10. IsSumming(back, Reverse(xs))
  BY <1>2, <1>8, <1>9 DEF IsSumming
<1>11. back \in [0..n -> Int]
  BY <1>7 DEF n
<1> QED
  BY <1>2, <1>10, <1>11 DEF n

LEMMA FallReadsEitherWay ==
  ASSUME NEW xs \in Seq(Int)
  PROVE  MaxDrawdown(Reverse(xs)) = MaxDrawdown(xs)
<1> DEFINE n == Len(xs)
<1>1. n \in Nat
  OBVIOUS
<1>2. PICK sums \in [0..n -> Int] : IsSumming(sums, xs)
  BY SummedRuns
<1> DEFINE back == [k \in 0..n |-> sums[n] - sums[n - k]]
           a == MaxDrawdown(xs)
           b == MaxDrawdown(Reverse(xs))
<1>3. a \in Int /\ DeepestFall(a, sums, n)
  BY <1>2, DrawdownIsDeepestFall
<1>4. b \in Int /\ DeepestFall(b, back, n)
  <2>1. Reverse(xs) \in Seq(Int) /\ Len(Reverse(xs)) = n /\ back \in [0..n -> Int]
        /\ IsSumming(back, Reverse(xs))
    BY <1>2, ReversedSums
  <2> HIDE DEF back, n
  <2> QED
    BY <2>1, DrawdownIsDeepestFall
<1>5. \A k \in 0..n : back[k] = sums[n] - sums[n - k] /\ sums[k] \in Int /\ n - k \in 0..n
                      /\ n \in 0..n
  BY <1>1
<1> HIDE DEF back, n, a, b
<1>6. \A i, j \in 0..n : back[j] - back[i] = sums[n - i] - sums[n - j]
  <2> SUFFICES ASSUME NEW i \in 0..n, NEW j \in 0..n
               PROVE  back[j] - back[i] = sums[n - i] - sums[n - j]
    OBVIOUS
  <2>1. sums[n] \in Int /\ sums[n - i] \in Int /\ sums[n - j] \in Int
    BY <1>5
  <2>2. back[j] = sums[n] - sums[n - j] /\ back[i] = sums[n] - sums[n - i]
    BY <1>5
  <2> QED
    BY <2>1, <2>2
<1>7. DeepestFall(b, sums, n)
  <2>1. \E i, j \in 0..n : i <= j /\ b = sums[j] - sums[i]
    <3>1. PICK i \in 0..n, j \in 0..n : i <= j /\ b = back[j] - back[i]
      BY <1>4 DEF DeepestFall
    <3>2. n - j \in 0..n /\ n - i \in 0..n /\ n - j <= n - i
      BY <1>1, <3>1
    <3> QED
      BY <1>6, <3>1, <3>2
  <2>2. ASSUME NEW i \in 0..n, NEW j \in 0..n, i <= j PROVE b <= sums[j] - sums[i]
    <3>1. n - j \in 0..n /\ n - i \in 0..n /\ n - j <= n - i /\ n - (n - i) = i /\ n - (n - j) = j
      BY <1>1, <2>2
    <3>2. b <= back[n - i] - back[n - j]
      BY <1>4, <3>1 DEF DeepestFall
    <3>3. back[n - i] - back[n - j] = sums[n - (n - j)] - sums[n - (n - i)]
      BY <1>6, <3>1
    <3>4. back[n - i] - back[n - j] = sums[j] - sums[i]
      BY <3>1, <3>3
    <3> QED
      BY <3>2, <3>4
  <2> QED
    BY <2>1, <2>2 DEF DeepestFall
<1>8. a = b
  BY <1>1, <1>2, <1>3, <1>4, <1>7, OneDeepestFall
<1> QED
  BY <1>8 DEF a, b

(* detectors.rs: the drawdown is the sum of the worst run of consecutive   *)
(* trades, however many there are, and so the same from either end.        *)
THEOREM EveryDrawdownIsTheWorstRun ==
  ASSUME NEW xs \in Seq(Int)
  PROVE  DrawdownIsTheWorstRun(xs)
<1> DEFINE n == Len(xs)
           S == {Total(SubSeq(xs, i, j)) : i, j \in DOMAIN xs}
           T == {0} \cup S
           dd == MaxDrawdown(xs)
<1>1. n \in Nat /\ DOMAIN xs = 1..n
  OBVIOUS
<1>2. PICK sums \in [0..n -> Int] : IsSumming(sums, xs)
  BY SummedRuns
<1>3. dd \in Int /\ DeepestFall(dd, sums, n)
  BY <1>2, DrawdownIsDeepestFall
<1>4. \A i, j \in 1..n : Total(SubSeq(xs, i, j)) = IF i <= j THEN sums[j] - sums[i - 1] ELSE 0
  BY <1>2, SegmentIsDifference
<1>5. \A k \in 0..n : sums[k] \in Int
  OBVIOUS
<1>6. S = {Total(SubSeq(xs, i, j)) : i, j \in 1..n}
  BY <1>1
<1> HIDE DEF n, S, dd
<1>7. dd \in T
  <2>1. PICK i \in 0..n, j \in 0..n : i <= j /\ dd = sums[j] - sums[i]
    BY <1>3 DEF DeepestFall
  <2>2. CASE i = j
    BY <1>5, <2>1, <2>2
  <2>3. CASE i # j
    <3>1. i + 1 \in 1..n /\ j \in 1..n /\ i + 1 <= j /\ (i + 1) - 1 = i
      BY <1>1, <2>1, <2>3
    <3>2. Total(SubSeq(xs, i + 1, j)) = dd
      BY <1>4, <2>1, <3>1
    <3> QED
      BY <1>6, <3>1, <3>2
  <2> QED
    BY <2>2, <2>3
<1>8. ASSUME NEW y \in T PROVE dd <= y /\ y \in Int
  <2>0. dd <= 0
    <3>1. 0 \in 0..n /\ 0 <= 0 /\ sums[0] - sums[0] = 0
      BY <1>1, <1>5
    <3>2. dd <= sums[0] - sums[0]
      BY <1>3, <3>1 DEF DeepestFall
    <3> QED
      BY <3>1, <3>2
  <2>1. CASE y = 0
    BY <2>0, <2>1
  <2>2. CASE y \in S
    <3>1. PICK i \in 1..n, j \in 1..n : y = Total(SubSeq(xs, i, j))
      BY <1>6, <2>2
    <3>2. CASE i <= j
      <4>1. i - 1 \in 0..n /\ j \in 0..n /\ i - 1 <= j
        BY <1>1, <3>2
      <4>2. y = sums[j] - sums[i - 1]
        BY <1>4, <3>1, <3>2
      <4>3. dd <= sums[j] - sums[i - 1]
        BY <1>3, <4>1 DEF DeepestFall
      <4>4. sums[j] \in Int /\ sums[i - 1] \in Int
        BY <1>5, <4>1
      <4> QED
        BY <4>2, <4>3, <4>4
    <3>3. CASE ~(i <= j)
      <4>1. y = 0
        BY <1>4, <3>1, <3>3
      <4> QED
        BY <2>0, <4>1
    <3> QED
      BY <3>2, <3>3
  <2> QED
    BY <2>1, <2>2
<1>9. dd = Min(T)
  <2> DEFINE m == Min(T)
  <2> HIDE DEF T
  <2>1. m \in T /\ \A y \in T : m <= y
    BY <1>7, <1>8 DEF Min
  <2> HIDE DEF m
  <2>2. m <= dd /\ dd <= m /\ m \in Int
    BY <1>7, <1>8, <2>1
  <2>3. m = dd
    BY <1>3, <2>2
  <2> QED
    BY <2>3 DEF m
<1>10. MaxDrawdown(Reverse(xs)) = MaxDrawdown(xs)
  BY FallReadsEitherWay
<1> QED
  BY <1>9, <1>10 DEF DrawdownIsTheWorstRun, T, S, dd
-----------------------------------------------------------------------------
(* score.rs, contract.rs: whatever a validation is asked for, its folds    *)
(* keep a group to train on and one to test on.                            *)
THEOREM EveryFoldTrainsAndTests ==
  ASSUME NEW nRows \in Nat, NEW config, config.groups \in Int, config.k \in Int,
         NEW horizon \in DOMAIN Profiles
  PROVE  FoldsHaveTwoSides(nRows, config, horizon)
<1> DEFINE few == Min({config.groups, nRows})
           groups == Max({few, 2})
           less == Min({config.k, groups - 1})
           fold == FoldSpec(nRows, config, Profiles[horizon])
<1>1. few \in Int /\ few <= nRows
  BY MinOfTwo
<1> HIDE DEF few
<1>2. groups \in Int /\ groups >= 2 /\ (groups = few \/ groups = 2)
  <2>1. groups = IF few >= 2 THEN few ELSE 2
    BY <1>1, MaxOfTwo
  <2> QED
    BY <1>1, <2>1
<1> HIDE DEF groups
<1>3. less \in Int /\ less <= groups - 1
  <2>1. groups - 1 \in Int
    BY <1>2
  <2>2. less = IF config.k <= groups - 1 THEN config.k ELSE groups - 1
    BY <2>1, MinOfTwo
  <2> QED
    BY <2>1, <2>2
<1> HIDE DEF less
<1>4. /\ Max({less, 1}) \in Int /\ 1 <= Max({less, 1}) /\ Max({less, 1}) < groups
  <2>1. Max({less, 1}) = IF less >= 1 THEN less ELSE 1
    BY <1>3, MaxOfTwo
  <2> QED
    BY <1>2, <1>3, <2>1
<1>5. fold.groups = groups /\ fold.k = Max({less, 1}) /\ fold.embargo = Profiles[horizon].embargo
  BY DEF FoldSpec, TestGroups, groups, few, less
<1>6. Profiles[horizon].embargo <= PurgeBars(horizon)
  BY DEF PurgeBars, Profiles
<1>7. nRows >= 2 => fold.groups \in 2..nRows
  BY <1>1, <1>2, <1>5
<1> HIDE DEF fold
<1> QED
  BY <1>4, <1>5, <1>6, <1>7 DEF FoldsHaveTwoSides, fold
-----------------------------------------------------------------------------
(* The levels of a chart: bars whose close lies in their range, as any bar *)
(* does that was traded.                                                   *)
Candle == {b \in [high : Int, low : Int, close : Int, volume : Nat] :
             b.low <= b.close /\ b.close <= b.high}

LEMMA SomeLargest ==
  ASSUME NEW n \in Nat, n >= 1, NEW v \in [1..n -> Int]
  PROVE  \E i \in 1..n : \A j \in 1..n : v[i] >= v[j]
<1> DEFINE B == {k \in 0..n : k >= 1 => \E i \in 1..k : \A j \in 1..k : v[i] >= v[j]}
<1>1. 0 \in B
  OBVIOUS
<1>2. ASSUME NEW k \in 0..(n - 1), k \in B
      PROVE  k + 1 \in B
  <2>1. /\ k + 1 \in 0..n /\ k + 1 \in 1..n /\ v[k + 1] \in Int
        /\ \A j \in 1..k : v[j] \in Int
        /\ \A j \in 1..(k + 1) : j \in 1..k \/ j = k + 1
    OBVIOUS
  <2>2. CASE k = 0
    <3>1. \A j \in 1..(k + 1) : v[k + 1] >= v[j]
      BY <2>1, <2>2
    <3> QED
      BY <2>1, <3>1
  <2>3. CASE k >= 1
    <3>1. PICK i \in 1..k : \A j \in 1..k : v[i] >= v[j]
      BY <1>2, <2>3
    <3>2. CASE v[k + 1] >= v[i]
      <4>1. \A j \in 1..(k + 1) : v[k + 1] >= v[j]
        BY <2>1, <3>1, <3>2
      <4> QED
        BY <2>1, <4>1
    <3>3. CASE ~(v[k + 1] >= v[i])
      <4>1. i \in 1..(k + 1) /\ \A j \in 1..(k + 1) : v[i] >= v[j]
        BY <2>1, <3>1, <3>3
      <4> QED
        BY <2>1, <4>1
    <3> QED
      BY <3>2, <3>3
  <2> QED
    BY <2>2, <2>3
<1>3. n \in B
  <2> HIDE DEF B
  <2>1. \A k \in 0..n : k \in B
    BY <1>1, <1>2, InductionUpTo
  <2> QED
    BY <2>1
<1> QED
  BY <1>3

LEMMA MaxOfSeries ==
  ASSUME NEW n \in Nat, n >= 1, NEW v \in [1..n -> Int]
  PROVE  LET top == Max({v[i] : i \in 1..n})
         IN  /\ top \in Int
             /\ \E i \in 1..n : top = v[i]
             /\ \A i \in 1..n : v[i] <= top
<1> DEFINE S == {v[i] : i \in 1..n}
<1>1. PICK i \in 1..n : \A j \in 1..n : v[i] >= v[j]
  BY SomeLargest
<1>2. v[i] \in S /\ \A y \in S : v[i] >= y
  BY <1>1
<1>3. Max(S) \in S /\ \A y \in S : Max(S) >= y
  BY <1>2 DEF Max
<1> QED
  BY <1>3

LEMMA MinOfSeries ==
  ASSUME NEW n \in Nat, n >= 1, NEW v \in [1..n -> Int]
  PROVE  LET least == Min({v[i] : i \in 1..n})
         IN  /\ least \in Int
             /\ \E i \in 1..n : least = v[i]
             /\ \A i \in 1..n : least <= v[i]
<1> DEFINE S == {v[i] : i \in 1..n}
           u == [i \in 1..n |-> -v[i]]
<1>1. PICK i \in 1..n : \A j \in 1..n : u[i] >= u[j]
  <2>1. u \in [1..n -> Int]
    OBVIOUS
  <2> HIDE DEF u
  <2> QED
    BY <2>1, SomeLargest
<1>2. \A j \in 1..n : v[i] <= v[j]
  <2> SUFFICES ASSUME NEW j \in 1..n PROVE v[i] <= v[j]
    OBVIOUS
  <2>1. -v[i] >= -v[j]
    BY <1>1
  <2> QED
    BY <2>1
<1>3. v[i] \in S /\ \A y \in S : v[i] <= y
  BY <1>2
<1>4. Min(S) \in S /\ \A y \in S : Min(S) <= y
  BY <1>3 DEF Min
<1> QED
  BY <1>4

LEMMA RangeOfBars ==
  ASSUME NEW bars \in Seq(Candle), Len(bars) >= 1
  PROVE  /\ Highest(bars) \in Int /\ Lowest(bars) \in Int
         /\ \A i \in 1..Len(bars) :
              /\ bars[i].high \in Int /\ bars[i].low \in Int /\ bars[i].close \in Int
              /\ bars[i].volume \in Nat /\ bars[i].low <= bars[i].close
              /\ bars[i].close <= bars[i].high
              /\ bars[i].high <= Highest(bars) /\ Lowest(bars) <= bars[i].low
         /\ \E i \in 1..Len(bars) : Highest(bars) = bars[i].high
         /\ \E i \in 1..Len(bars) : Lowest(bars) = bars[i].low
<1> DEFINE n == Len(bars)
           hs == [i \in 1..n |-> bars[i].high]
           ls == [i \in 1..n |-> bars[i].low]
<1>1. n \in Nat /\ n >= 1 /\ DOMAIN bars = 1..n /\ \A i \in 1..n : bars[i] \in Candle
  BY LenProperties, ElementOfSeq
<1>2. \A i \in 1..n : /\ bars[i].high \in Int /\ bars[i].low \in Int /\ bars[i].close \in Int
                      /\ bars[i].volume \in Nat /\ bars[i].low <= bars[i].close
                      /\ bars[i].close <= bars[i].high
  BY <1>1 DEF Candle
<1>3. hs \in [1..n -> Int] /\ ls \in [1..n -> Int]
  BY <1>2
<1>4. {hs[i] : i \in 1..n} = {bars[i].high : i \in 1..n}
      /\ {ls[i] : i \in 1..n} = {bars[i].low : i \in 1..n}
  OBVIOUS
<1>5. Highest(bars) = Max({hs[i] : i \in 1..n}) /\ Lowest(bars) = Min({ls[i] : i \in 1..n})
  BY <1>1, <1>4 DEF Highest, Lowest
<1>6. \A i \in 1..n : hs[i] = bars[i].high /\ ls[i] = bars[i].low
  OBVIOUS
<1> HIDE DEF hs, ls, n
<1>7. /\ Highest(bars) \in Int /\ \E i \in 1..n : Highest(bars) = hs[i]
      /\ \A i \in 1..n : hs[i] <= Highest(bars)
  BY <1>1, <1>3, <1>5, MaxOfSeries
<1>8. /\ Lowest(bars) \in Int /\ \E i \in 1..n : Lowest(bars) = ls[i]
      /\ \A i \in 1..n : Lowest(bars) <= ls[i]
  BY <1>1, <1>3, <1>5, MinOfSeries
<1> QED
  BY <1>2, <1>6, <1>7, <1>8 DEF n

LEMMA TrailingIs ==
  ASSUME NEW S, NEW s \in Seq(S), Len(s) >= 1, NEW n \in Nat, n >= 1
  PROVE  /\ Trailing(s, n) \in Seq(S) /\ Len(Trailing(s, n)) >= 1
         /\ Last(Trailing(s, n)) = Last(s)
         /\ \A i \in 1..Len(Trailing(s, n)) : \E j \in 1..Len(s) : Trailing(s, n)[i] = s[j]
         /\ Trailing(s, n)[Len(Trailing(s, n))] = s[Len(s)]
<1> DEFINE l == Len(s)
           m == IF n <= l THEN n ELSE l
           t == Trailing(s, n)
           a == l - m + 1
<1>1. l \in Nat /\ l >= 1 /\ m \in Nat /\ m >= 1 /\ m <= l /\ a \in 1..l /\ Min({n, l}) = m
  BY LenProperties, MinOfTwo
<1>2. t = SubSeq(s, a, l)
  BY <1>1 DEF Trailing
<1>3. \A i \in a..l : s[i] \in S
  <2>1. \A i \in 1..l : s[i] \in S
    BY ElementOfSeq
  <2> QED
    BY <1>1, <2>1
<1> HIDE DEF t
<1>4. l - a + 1 = m /\ a <= l /\ a \in Int /\ l \in Int
  BY <1>1
<1> HIDE DEF a, m, l
<1>5. t \in Seq(S) /\ Len(t) = m /\ \A i \in 1..m : t[i] = s[a + i - 1]
  BY <1>2, <1>3, <1>4, SubSeqProperties
<1>6. \A i \in 1..m : a + i - 1 \in 1..l
  BY <1>1, <1>4
<1>7. m \in 1..m /\ a + m - 1 = l
  BY <1>1, <1>4
<1>8. t[m] = s[l]
  BY <1>5, <1>7
<1>9. Last(t) = t[m] /\ Last(s) = s[l]
  BY <1>5 DEF Last, l
<1> QED
  BY <1>1, <1>5, <1>6, <1>8, <1>9 DEF t, l

LEMMA AtrIsPositive ==
  ASSUME NEW bars \in Seq(Candle), NEW n \in Nat, Atr(bars, n) # NoFeature
  PROVE  Atr(bars, n)[1] \in Int /\ Atr(bars, n)[2] \in Nat /\ Atr(bars, n)[2] >= 1
<1>1. n >= 1 /\ ~(Len(bars) <= n) /\ Atr(bars, n) = <<SumOf(Trailing(TrueRanges(bars), n)), n>>
  BY DEF Atr
<1> DEFINE ranges == TrueRanges(bars)
           l == Len(bars)
<1>2. l \in Nat /\ l >= 2 /\ \A i \in 1..l : bars[i] \in Candle
  BY <1>1, LenProperties, ElementOfSeq
<1>3. ASSUME NEW prev \in Candle, NEW bar \in Candle
      PROVE  TrueRange(prev, bar) \in Int
  <2> DEFINE all == 5
             v == [i \in 1..all |-> CASE i = 1 -> bar.high - bar.low
                                      [] i = 2 -> bar.high - prev.close
                                      [] i = 3 -> prev.close - bar.high
                                      [] i = 4 -> bar.low - prev.close
                                      [] i = 5 -> prev.close - bar.low]
  <2>1. bar.high \in Int /\ bar.low \in Int /\ prev.close \in Int
    BY DEF Candle
  <2>2. all \in Nat /\ all >= 1 /\ v \in [1..all -> Int]
    BY <2>1
  <2>3. {v[i] : i \in 1..all} = {bar.high - bar.low, bar.high - prev.close, prev.close - bar.high,
                               bar.low - prev.close, prev.close - bar.low}
    OBVIOUS
  <2> HIDE DEF v, all
  <2>4. Max({v[i] : i \in 1..all}) \in Int
    BY <2>2, MaxOfSeries
  <2> QED
    BY <2>3, <2>4 DEF TrueRange
<1>4. ranges \in Seq(Int) /\ Len(ranges) = l - 1
  <2>1. \A i \in 1..(l - 1) : TrueRange(bars[i], bars[i + 1]) \in Int
    <3> SUFFICES ASSUME NEW i \in 1..(l - 1) PROVE TrueRange(bars[i], bars[i + 1]) \in Int
      OBVIOUS
    <3>1. bars[i] \in Candle /\ bars[i + 1] \in Candle
      BY <1>2
    <3> QED
      BY <1>3, <3>1
  <2>2. ranges = [i \in 1..(l - 1) |-> TrueRange(bars[i], bars[i + 1])] /\ l - 1 \in Nat
    BY <1>2 DEF TrueRanges
  <2> HIDE DEF ranges, l
  <2> QED
    BY <2>1, <2>2
<1>5. Trailing(ranges, n) \in Seq(Int)
  <2>1. Len(ranges) >= 1
    BY <1>2, <1>4
  <2> HIDE DEF ranges
  <2> QED
    BY <1>1, <1>4, <2>1, TrailingIs
<1>6. SumOf(Trailing(ranges, n)) \in Int
  BY <1>5, SummedIsInt DEF SumOf, Summed
<1> QED
  BY <1>1, <1>6

(* The anchored VWAP is a mean of prices weighted by volume.               *)
LEMMA WeightedPrice ==
  ASSUME NEW h \in Int, NEW l \in Int, NEW c \in Int, NEW v \in Nat, NEW top \in Int, NEW least \in Int,
         l <= c, c <= h, h <= top, least <= l
  PROVE  /\ (h + l + c) * v \in Int /\ 3 * v \in Int
         /\ (h + l + c) * v <= top * (3 * v) /\ least * (3 * v) <= (h + l + c) * v
<1>1. h + l + c <= 3 * top /\ 3 * least <= h + l + c /\ v >= 0
  OBVIOUS
<1> DEFINE x == h + l + c
           y == 3 * top
           z == 3 * least
<1>2. x \in Int /\ y \in Int /\ z \in Int /\ v \in Int
  OBVIOUS
<1>3. y * v = top * (3 * v) /\ z * v = least * (3 * v)
  OBVIOUS
<1>4. x * v <= y * v /\ z * v <= x * v
  <2>1. x <= y /\ z <= x /\ v >= 0
    BY <1>1
  <2> HIDE DEF x, y, z
  <2> QED
    BY <1>2, <2>1, OrderTimes
<1>5. x * v \in Int /\ 3 * v \in Int
  OBVIOUS
<1> QED
  BY <1>3, <1>4, <1>5

LEMMA MeanStep ==
  ASSUME NEW top \in Int, NEW sum \in Int, NEW vol \in Int, NEW x \in Int, NEW y \in Int
  PROVE  /\ sum <= top * vol /\ x <= top * y => sum + x <= top * (vol + y)
         /\ top * vol <= sum /\ top * y <= x => top * (vol + y) <= sum + x
<1>1. top * (vol + y) = top * vol + top * y /\ top * vol \in Int /\ top * y \in Int
  OBVIOUS
<1> QED
  BY <1>1

LEMMA VwapInRange ==
  ASSUME NEW bars \in Seq(Candle), AnchoredVwap(bars) # NoFeature
  PROVE  /\ AtMost(AnchoredVwap(bars), <<Highest(bars), 1>>)
         /\ AtMost(<<Lowest(bars), 1>>, AnchoredVwap(bars))
<1> DEFINE n == Len(bars)
           xs == [i \in 1..n |-> (bars[i].high + bars[i].low + bars[i].close) * bars[i].volume]
           ys == [i \in 1..n |-> 3 * bars[i].volume]
           top == Highest(bars)
           least == Lowest(bars)
<1>1. n \in Nat /\ DOMAIN bars = 1..n /\ \A i \in 1..n : bars[i] \in Candle
  BY LenProperties, ElementOfSeq
<1>2. AnchoredVwap(bars) = IF Summed(ys) <= 0 THEN NoFeature ELSE <<Summed(xs), Summed(ys)>>
  BY <1>1 DEF AnchoredVwap, SumOf, Summed
<1>3. n >= 1
  <2> SUFFICES ASSUME n = 0 PROVE FALSE
    BY <1>1
  <2>1. ys \in Seq(Int) /\ Len(ys) = 0
    BY <1>1
  <2> HIDE DEF ys
  <2>2. Summed(ys) = 0
    BY <2>1, SummedRuns DEF IsSumming
  <2> QED
    BY <1>2, <2>2
<1>4. /\ top \in Int /\ least \in Int
      /\ \A i \in 1..n : /\ bars[i].high \in Int /\ bars[i].low \in Int /\ bars[i].close \in Int
                         /\ bars[i].volume \in Nat /\ bars[i].low <= bars[i].close
                         /\ bars[i].close <= bars[i].high
                         /\ bars[i].high <= top /\ least <= bars[i].low
  BY <1>3, RangeOfBars
<1> HIDE DEF top, least
<1>5. \A i \in 1..n : /\ xs[i] \in Int /\ ys[i] \in Int
                      /\ xs[i] <= top * ys[i] /\ least * ys[i] <= xs[i]
  <2> SUFFICES ASSUME NEW i \in 1..n
               PROVE  /\ xs[i] \in Int /\ ys[i] \in Int
                      /\ xs[i] <= top * ys[i] /\ least * ys[i] <= xs[i]
    OBVIOUS
  <2>1. /\ xs[i] = (bars[i].high + bars[i].low + bars[i].close) * bars[i].volume
        /\ ys[i] = 3 * bars[i].volume
    OBVIOUS
  <2> HIDE DEF xs, ys, n
  <2>2. PICK h \in Int, l \in Int, c \in Int, v \in Nat :
          /\ h = bars[i].high /\ l = bars[i].low /\ c = bars[i].close /\ v = bars[i].volume
          /\ l <= c /\ c <= h /\ h <= top /\ least <= l
    BY <1>4
  <2>3. /\ (h + l + c) * v \in Int /\ 3 * v \in Int
        /\ (h + l + c) * v <= top * (3 * v) /\ least * (3 * v) <= (h + l + c) * v
    BY <1>4, <2>2, WeightedPrice
  <2>4. xs[i] = (h + l + c) * v /\ ys[i] = 3 * v
    BY <2>1, <2>2
  <2> QED
    BY ONLY <2>3, <2>4
<1>6. xs \in Seq(Int) /\ ys \in Seq(Int) /\ Len(xs) = n /\ Len(ys) = n
  BY <1>1, <1>5
<1> HIDE DEF xs, ys, n
<1>7. PICK sums \in [0..n -> Int] : IsSumming(sums, xs) /\ Summed(xs) = sums[n]
  BY <1>6, SummedRuns
<1>8. PICK vols \in [0..n -> Int] : IsSumming(vols, ys) /\ Summed(ys) = vols[n]
  BY <1>6, SummedRuns
<1> DEFINE B == {k \in 0..n : sums[k] <= top * vols[k] /\ least * vols[k] <= sums[k]}
<1>9. 0 \in B
  <2>1. sums[0] = 0 /\ vols[0] = 0
    BY <1>7, <1>8 DEF IsSumming
  <2> QED
    BY <1>1, <1>4, <2>1
<1>10. ASSUME NEW k \in 0..(n - 1), k \in B
       PROVE  k + 1 \in B
  <2>1. k + 1 \in 1..n /\ (k + 1) - 1 = k /\ k + 1 \in 0..n /\ k \in 0..n
    BY <1>1
  <2>2. sums[k + 1] = sums[k] + xs[k + 1] /\ vols[k + 1] = vols[k] + ys[k + 1]
    BY <1>6, <1>7, <1>8, <2>1 DEF IsSumming
  <2>3. /\ sums[k] \in Int /\ vols[k] \in Int /\ xs[k + 1] \in Int /\ ys[k + 1] \in Int
        /\ xs[k + 1] <= top * ys[k + 1] /\ least * ys[k + 1] <= xs[k + 1]
        /\ sums[k] <= top * vols[k] /\ least * vols[k] <= sums[k]
    BY <1>5, <1>10, <2>1
  <2>4. /\ sums[k] + xs[k + 1] <= top * (vols[k] + ys[k + 1])
        /\ least * (vols[k] + ys[k + 1]) <= sums[k] + xs[k + 1]
    BY <1>4, <2>3, MeanStep
  <2> QED
    BY <2>1, <2>2, <2>4
<1>11. sums[n] <= top * vols[n] /\ least * vols[n] <= sums[n]
  <2> HIDE DEF B
  <2>1. \A k \in 0..n : k \in B
    BY <1>1, <1>9, <1>10, InductionUpTo
  <2>2. n \in 0..n
    BY <1>1
  <2> QED
    BY <2>1, <2>2 DEF B
<1>12. AnchoredVwap(bars) = <<sums[n], vols[n]>>
  BY <1>2, <1>7, <1>8
<1>13. sums[n] \in Int /\ vols[n] \in Int
  BY <1>1, <1>7, <1>8
<1> QED
  BY <1>4, <1>11, <1>12, <1>13 DEF AtMost, top, least

LEMMA ObservedIs ==
  ASSUME NEW r, NEW k \in DOMAIN Observed(r)
  PROVE  k \in DOMAIN r /\ r[k] # NoFeature /\ Observed(r)[k] = r[k]
BY DEF Observed

(* dist of LocationModule::compute, for a level that is a price.           *)
Away(close, atr, price) ==
  IF atr = NoFeature \/ price = NoFeature THEN NoFeature
  ELSE IF atr[1] <= 0 THEN NoFeature ELSE <<(close - price) * atr[2], atr[1]>>

LEMMA ProductSign ==
  ASSUME NEW a \in Int, NEW b \in Nat
  PROVE  a * b \in Int /\ (a <= 0 => a * b <= 0) /\ (a >= 0 => a * b >= 0)
OBVIOUS

LEMMA AwayIsSigned ==
  ASSUME NEW close \in Int, NEW atr, NEW price \in Int, Away(close, atr, price) # NoFeature,
         atr # NoFeature => atr[1] \in Int /\ atr[2] \in Nat
  PROVE  LET d == Away(close, atr, price)
         IN  /\ d[1] \in Int /\ d[2] \in Int /\ d[2] > 0
             /\ d = <<(close - price) * atr[2], atr[1]>> /\ atr[2] \in Nat
             /\ close <= price => AtMost(d, <<0, 1>>)
             /\ price <= close => AtMost(<<0, 1>>, d)
<1>1. /\ atr # NoFeature /\ atr[1] \in Int /\ atr[2] \in Nat /\ atr[1] > 0
      /\ Away(close, atr, price) = <<(close - price) * atr[2], atr[1]>>
  BY DEF Away
<1> DEFINE gap == close - price
           d == (close - price) * atr[2]
<1>2. gap \in Int /\ (close <= price => gap <= 0) /\ (price <= close => gap >= 0)
  OBVIOUS
<1>3. d \in Int /\ (gap <= 0 => d <= 0) /\ (gap >= 0 => d >= 0)
  <2>1. d = gap * atr[2]
    OBVIOUS
  <2> HIDE DEF gap, d
  <2> QED
    BY <1>1, <1>2, <2>1, ProductSign
<1> HIDE DEF d
<1>4. AtMost(<<d, atr[1]>>, <<0, 1>>) <=> d <= 0
  BY <1>1, <1>3 DEF AtMost
<1>5. AtMost(<<0, 1>>, <<d, atr[1]>>) <=> d >= 0
  BY <1>1, <1>3 DEF AtMost
<1>6. Away(close, atr, price) = <<d, atr[1]>>
  BY <1>1 DEF d
<1> QED
  BY <1>1, <1>2, <1>3, <1>4, <1>5, <1>6

(* A level further up is further away, in ATRs, on the way down.           *)
LEMMA AwayIsMonotone ==
  ASSUME NEW close \in Int, NEW atr, NEW low \in Int, NEW high \in Int, low <= high,
         Away(close, atr, low) # NoFeature, Away(close, atr, high) # NoFeature,
         atr # NoFeature => atr[1] \in Int /\ atr[2] \in Nat
  PROVE  AtMost(Away(close, atr, high), Away(close, atr, low))
<1>1. /\ atr # NoFeature /\ atr[1] \in Int /\ atr[2] \in Nat /\ atr[1] > 0
      /\ Away(close, atr, low) = <<(close - low) * atr[2], atr[1]>>
      /\ Away(close, atr, high) = <<(close - high) * atr[2], atr[1]>>
  BY DEF Away
<1> DEFINE x == (close - high) * atr[2]
           y == (close - low) * atr[2]
           far == close - high
           near == close - low
<1>2. far \in Int /\ near \in Int /\ far <= near
  OBVIOUS
<1>3. x \in Int /\ y \in Int /\ x <= y
  <2>1. x = far * atr[2] /\ y = near * atr[2]
    OBVIOUS
  <2> HIDE DEF far, near, x, y
  <2> QED
    BY <1>1, <1>2, <2>1, OrderTimes
<1> HIDE DEF x, y
<1>4. x * atr[1] <= y * atr[1]
  BY <1>1, <1>3, OrderTimes
<1>5. Away(close, atr, high) = <<x, atr[1]>> /\ Away(close, atr, low) = <<y, atr[1]>>
  BY <1>1 DEF x, y
<1> QED
  BY <1>4, <1>5 DEF AtMost

LEMMA AwayIsKnown ==
  ASSUME NEW close \in Int, NEW atr, NEW low \in Int, NEW high \in Int,
         Away(close, atr, low) # NoFeature, \A x \in Int : x # NoFeature,
         atr # NoFeature => atr[1] \in Int /\ atr[2] \in Nat
  PROVE  Away(close, atr, high) # NoFeature
<1>1. /\ atr # NoFeature /\ atr[1] \in Int /\ atr[2] \in Nat /\ atr[1] > 0 /\ high # NoFeature
      /\ ~(atr[1] <= 0)
  BY DEF Away
<1>2. (close - high) * atr[2] \in Int
  BY <1>1
<1>3. <<(close - high) * atr[2], atr[1]>> \in Int \X Int
  BY <1>1, <1>2
<1>4. Away(close, atr, high) = <<(close - high) * atr[2], atr[1]>>
  BY <1>1 DEF Away
<1> QED
  BY <1>3, <1>4, FeatureAssumption

LEMMA LocationIs ==
  ASSUME NEW bars \in Seq(Candle), NEW w, Len(bars) >= 2,
         \A x \in Int : x # NoFeature,
         Atr(bars, w.atr) # NoFeature =>
           Atr(bars, w.atr)[1] \in Int /\ Atr(bars, w.atr)[2] \in Nat
  PROVE  LET f == LocationFeatures(bars, w)
             at(price) == Away(Last(bars).close, Atr(bars, w.atr), price)
             window == RollingWindow(bars, w.range)
             week == PriorWeek(bars, w.week)
             prior == bars[Len(bars) - 1]
         IN  /\ Last(bars).close \in Int /\ prior.high \in Int /\ prior.low \in Int
             /\ "dist_rolling_high" \in DOMAIN f /\ Highest(window) \in Int =>
                  at(Highest(window)) # NoFeature /\ f["dist_rolling_high"] = at(Highest(window))
             /\ "dist_rolling_low" \in DOMAIN f /\ Lowest(window) \in Int =>
                  at(Lowest(window)) # NoFeature /\ f["dist_rolling_low"] = at(Lowest(window))
             /\ "dist_prior_dh" \in DOMAIN f =>
                  at(prior.high) # NoFeature /\ f["dist_prior_dh"] = at(prior.high)
             /\ "dist_prior_dl" \in DOMAIN f =>
                  at(prior.low) # NoFeature /\ f["dist_prior_dl"] = at(prior.low)
             /\ "dist_prior_wh" \in DOMAIN f /\ Highest(week) \in Int =>
                  at(Highest(week)) # NoFeature /\ f["dist_prior_wh"] = at(Highest(week))
             /\ "dist_prior_wl" \in DOMAIN f /\ Lowest(week) \in Int =>
                  at(Lowest(week)) # NoFeature /\ f["dist_prior_wl"] = at(Lowest(week))
             /\ "pct_range_position" \in DOMAIN f =>
                  /\ PctRangePosition(bars, w.range) # NoFeature
                  /\ f["pct_range_position"] = PctRangePosition(bars, w.range)
             /\ at(prior.high) # NoFeature => "dist_prior_dh" \in DOMAIN f
             /\ at(prior.low) # NoFeature => "dist_prior_dl" \in DOMAIN f
<1> DEFINE close == Last(bars).close
           atr == Atr(bars, w.atr)
           dist(level) == IF atr = NoFeature \/ level = NoFeature THEN NoFeature
                          ELSE IF atr[1] <= 0 THEN NoFeature
                          ELSE <<(close * level[2] - level[1]) * atr[2], level[2] * atr[1]>>
           price(level) == IF level = NoFeature THEN NoFeature ELSE dist(<<level, 1>>)
           prior == bars[Len(bars) - 1]
           week(level) == IF Len(bars) > w.week THEN price(level) ELSE NoFeature
           rec == [dist_50dma |-> dist(Sma(Closes(bars), w.fast)),
                   dist_200dma |-> dist(Sma(Closes(bars), w.slow)),
                   dist_prior_dh |-> price(prior.high), dist_prior_dl |-> price(prior.low),
                   dist_prior_wh |-> week(Highest(PriorWeek(bars, w.week))),
                   dist_prior_wl |-> week(Lowest(PriorWeek(bars, w.week))),
                   swing_high_dist |-> price(LastSwingHigh(bars, w.pivot)),
                   swing_low_dist |-> price(LastSwingLow(bars, w.pivot)),
                   anchored_vwap_dist |-> dist(AnchoredVwap(bars)),
                   pct_range_position |-> PctRangePosition(bars, w.range),
                   dist_rolling_high |-> price(Highest(RollingWindow(bars, w.range))),
                   dist_rolling_low |-> price(Lowest(RollingWindow(bars, w.range)))]
           f == LocationFeatures(bars, w)
<1>1. f = Observed(rec)
  <2>1. ~(Len(bars) < 2)
    <3>1. Len(bars) \in Nat
      BY LenProperties
    <3> QED
      BY <3>1
  <2> QED
    BY <2>1 DEF LocationFeatures
<1>2. /\ Last(bars) \in Candle /\ prior \in Candle
  <2>1. Len(bars) \in 1..Len(bars) /\ Len(bars) - 1 \in 1..Len(bars) /\ Last(bars) = bars[Len(bars)]
    BY LenProperties DEF Last
  <2> QED
    BY <2>1, ElementOfSeq
<1>3. close \in Int /\ prior.high \in Int /\ prior.low \in Int
  BY <1>2 DEF Candle
<1>4. \A level \in Int : price(level) = Away(close, atr, level)
  <2> SUFFICES ASSUME NEW level \in Int PROVE price(level) = Away(close, atr, level)
    OBVIOUS
  <2> HIDE DEF atr, close
  <2>1. level # NoFeature /\ <<level, 1>> # NoFeature
    BY FeatureAssumption
  <2>2. close * 1 - level = close - level
    BY <1>3
  <2>3. CASE atr = NoFeature
    BY <2>1, <2>3 DEF Away
  <2>4. CASE atr # NoFeature
    <3>1. atr[1] \in Int /\ 1 * atr[1] = atr[1]
      BY <2>4 DEF atr
    <3> QED
      BY <2>1, <2>2, <2>4, <3>1 DEF Away
  <2> QED
    BY <2>3, <2>4
<1>5. \A level \in Int : week(level) # NoFeature => week(level) = Away(close, atr, level)
  <2> HIDE DEF price
  <2> QED
    BY <1>4
<1>6. /\ rec["dist_rolling_high"] = price(Highest(RollingWindow(bars, w.range)))
      /\ rec["dist_rolling_low"] = price(Lowest(RollingWindow(bars, w.range)))
      /\ rec["dist_prior_dh"] = price(prior.high) /\ rec["dist_prior_dl"] = price(prior.low)
      /\ rec["dist_prior_wh"] = week(Highest(PriorWeek(bars, w.week)))
      /\ rec["dist_prior_wl"] = week(Lowest(PriorWeek(bars, w.week)))
      /\ rec["pct_range_position"] = PctRangePosition(bars, w.range)
  <2> HIDE DEF price, week, dist, prior
  <2> QED
    OBVIOUS
<1>65. "dist_prior_dh" \in DOMAIN rec /\ "dist_prior_dl" \in DOMAIN rec
  <2> HIDE DEF price, week, dist, prior
  <2> QED
    OBVIOUS
<1> HIDE DEF rec
<1>66. \A k \in DOMAIN rec : rec[k] # NoFeature => k \in DOMAIN f
  BY <1>1 DEF Observed
<1>7. \A k \in DOMAIN f : rec[k] # NoFeature /\ f[k] = rec[k]
  BY <1>1, ObservedIs
<1> HIDE DEF f, price, week, close, atr, prior
<1> QED
  BY <1>3, <1>4, <1>5, <1>6, <1>65, <1>66, <1>7 DEF f, close, atr, prior

(* layer2_location.rs: over bars of any number the close lies in the       *)
(* rolling range, yesterday in the prior week, and the anchored VWAP in    *)
(* the range of its bars, for look-backs of every length.                  *)
THEOREM LevelsAlwaysNest ==
  ASSUME NEW bars \in Seq(Candle), NEW w, w.atr \in Nat, w.range \in Nat \ {0}, w.week \in Nat \ {0}
  PROVE  LevelsNest(bars, w)
<1> DEFINE f == LocationFeatures(bars, w)
           n == Len(bars)
           at(price) == Away(Last(bars).close, Atr(bars, w.atr), price)
           window == RollingWindow(bars, w.range)
           week == PriorWeek(bars, w.week)
           prior == bars[n - 1]
           close == Last(bars).close
<1>1. n \in Nat /\ \A i \in 1..n : bars[i] \in Candle
  BY LenProperties, ElementOfSeq
<1>2. CASE n < 2
  <2>1. f = <<>> /\ DOMAIN f = {}
    BY <1>2 DEF LocationFeatures
  <2> HIDE DEF f
  <2> QED
    BY <2>1, VwapInRange DEF LevelsNest, f
<1>3. CASE n >= 2
  <2>1. \A x \in Int : x # NoFeature
    BY FeatureAssumption
  <2>2. Atr(bars, w.atr) # NoFeature => Atr(bars, w.atr)[1] \in Int /\ Atr(bars, w.atr)[2] \in Nat
    BY AtrIsPositive
  <2>3. /\ window \in Seq(Candle) /\ Len(window) >= 1
        /\ Last(bars) = window[Len(window)]
    BY <1>1, <1>3, TrailingIs DEF RollingWindow, Last
  <2>4. /\ Highest(window) \in Int /\ Lowest(window) \in Int
        /\ close \in Int /\ close <= Highest(window) /\ Lowest(window) <= close
    <3>1. Len(window) \in 1..Len(window)
      BY <2>3, LenProperties
    <3> HIDE DEF window
    <3>2. /\ Highest(window) \in Int /\ Lowest(window) \in Int
          /\ Last(bars).close \in Int /\ Last(bars).high \in Int /\ Last(bars).low \in Int
          /\ Last(bars).low <= Last(bars).close /\ Last(bars).close <= Last(bars).high
          /\ Last(bars).high <= Highest(window) /\ Lowest(window) <= Last(bars).low
      BY <2>3, <3>1, RangeOfBars
    <3> QED
      BY <3>2
  <2>5. /\ week \in Seq(Candle) /\ Len(week) >= 1 /\ prior = week[Len(week)]
    <3>1. Front(bars) = SubSeq(bars, 1, n - 1) /\ 1 \in Int /\ n - 1 \in Int /\ n - 1 >= 1
      BY <1>1, <1>3 DEF Front
    <3>2. \A i \in 1..(n - 1) : bars[i] \in Candle
      BY <1>1
    <3> HIDE DEF n
    <3>3. /\ Front(bars) \in Seq(Candle) /\ Len(Front(bars)) = n - 1
          /\ \A i \in 1..(n - 1) : Front(bars)[i] = bars[i]
      <4>1. /\ Front(bars) \in Seq(Candle)
            /\ Len(Front(bars)) = IF 1 <= n - 1 THEN (n - 1) - 1 + 1 ELSE 0
            /\ \A i \in 1..((n - 1) - 1 + 1) : Front(bars)[i] = bars[1 + i - 1]
        BY <3>1, <3>2, SubSeqProperties
      <4>2. (n - 1) - 1 + 1 = n - 1 /\ \A i \in Int : 1 + i - 1 = i
        BY <3>1
      <4> QED
        BY <3>1, <4>1, <4>2
    <3>4. Front(bars)[n - 1] = bars[n - 1]
      BY <3>1, <3>3
    <3>5. /\ week \in Seq(Candle) /\ Len(week) >= 1 /\ week[Len(week)] = Front(bars)[Len(Front(bars))]
      <4>1. w.week \in Nat /\ w.week >= 1
        OBVIOUS
      <4>2. week = Trailing(Front(bars), w.week)
        BY DEF PriorWeek
      <4> HIDE DEF week
      <4>3. Front(bars) \in Seq(Candle) /\ Len(Front(bars)) >= 1
        BY <3>1, <3>3
      <4> QED
        BY <4>1, <4>2, <4>3, TrailingIs
    <3> QED
      BY <3>3, <3>4, <3>5
  <2>6. /\ Highest(week) \in Int /\ Lowest(week) \in Int
        /\ prior.high <= Highest(week) /\ Lowest(week) <= prior.low
    <3>1. Len(week) \in 1..Len(week)
      BY <2>5, LenProperties
    <3> HIDE DEF week, prior
    <3> QED
      BY <2>5, <3>1, RangeOfBars
  <2>7. /\ prior.high \in Int /\ prior.low \in Int
        /\ "dist_rolling_high" \in DOMAIN f =>
             at(Highest(window)) # NoFeature /\ f["dist_rolling_high"] = at(Highest(window))
        /\ "dist_rolling_low" \in DOMAIN f =>
             at(Lowest(window)) # NoFeature /\ f["dist_rolling_low"] = at(Lowest(window))
        /\ "dist_prior_dh" \in DOMAIN f =>
             at(prior.high) # NoFeature /\ f["dist_prior_dh"] = at(prior.high)
        /\ "dist_prior_dl" \in DOMAIN f =>
             at(prior.low) # NoFeature /\ f["dist_prior_dl"] = at(prior.low)
        /\ "dist_prior_wh" \in DOMAIN f =>
             at(Highest(week)) # NoFeature /\ f["dist_prior_wh"] = at(Highest(week))
        /\ "dist_prior_wl" \in DOMAIN f =>
             at(Lowest(week)) # NoFeature /\ f["dist_prior_wl"] = at(Lowest(week))
        /\ "pct_range_position" \in DOMAIN f =>
             /\ PctRangePosition(bars, w.range) # NoFeature
             /\ f["pct_range_position"] = PctRangePosition(bars, w.range)
        /\ at(prior.high) # NoFeature => "dist_prior_dh" \in DOMAIN f
        /\ at(prior.low) # NoFeature => "dist_prior_dl" \in DOMAIN f
    BY <1>3, <2>1, <2>2, <2>4, <2>6, LocationIs
  <2> HIDE DEF f, window, week, prior
  <2>8. "dist_rolling_high" \in DOMAIN f => AtMost(f["dist_rolling_high"], <<0, 1>>)
    BY <2>2, <2>4, <2>7, AwayIsSigned
  <2>9. "dist_rolling_low" \in DOMAIN f => AtMost(<<0, 1>>, f["dist_rolling_low"])
    BY <2>2, <2>4, <2>7, AwayIsSigned
  <2>10. "pct_range_position" \in DOMAIN f =>
           f["pct_range_position"][1] = close - Lowest(window)
    <3>1. Min({close, Highest(window)}) = close
      BY <2>4, MinOfTwo
    <3>2. Max({0, close - Lowest(window)}) = close - Lowest(window)
      BY <2>4, MaxOfTwo
    <3>3. PctRangePosition(bars, w.range) # NoFeature =>
            PctRangePosition(bars, w.range)[1] = Max({0, close - Lowest(window)})
      BY <3>1 DEF PctRangePosition, window, close
    <3> QED
      BY <2>7, <3>2, <3>3
  <2>11. ASSUME "dist_prior_wh" \in DOMAIN f
         PROVE  AtMost(f["dist_prior_wh"], f["dist_prior_dh"])
    <3>1. at(Highest(week)) # NoFeature /\ f["dist_prior_wh"] = at(Highest(week))
      BY <2>7, <2>11
    <3>2. at(prior.high) # NoFeature
      BY <2>1, <2>2, <2>4, <2>6, <2>7, <3>1, AwayIsKnown
    <3>3. f["dist_prior_dh"] = at(prior.high)
      BY <2>7, <3>2
    <3>4. AtMost(at(Highest(week)), at(prior.high))
      BY <2>2, <2>4, <2>6, <2>7, <3>1, <3>2, AwayIsMonotone
    <3> QED
      BY <3>1, <3>3, <3>4
  <2>12. ASSUME "dist_prior_wl" \in DOMAIN f
         PROVE  AtMost(f["dist_prior_dl"], f["dist_prior_wl"])
    <3>1. at(Lowest(week)) # NoFeature /\ f["dist_prior_wl"] = at(Lowest(week))
      BY <2>7, <2>12
    <3>2. at(prior.low) # NoFeature
      BY <2>1, <2>2, <2>4, <2>6, <2>7, <3>1, AwayIsKnown
    <3>3. f["dist_prior_dl"] = at(prior.low)
      BY <2>7, <3>2
    <3>4. AtMost(at(prior.low), at(Lowest(week)))
      BY <2>2, <2>4, <2>6, <2>7, <3>1, <3>2, AwayIsMonotone
    <3> QED
      BY <3>1, <3>3, <3>4
  <2> QED
    <3> DEFINE has(keys) == keys \subseteq DOMAIN f
    <3>1. /\ has({"dist_rolling_high"}) => AtMost(f["dist_rolling_high"], <<0, 1>>)
          /\ has({"dist_rolling_low"}) => AtMost(<<0, 1>>, f["dist_rolling_low"])
          /\ has({"pct_range_position"}) => f["pct_range_position"][1] = close - Lowest(window)
          /\ has({"dist_prior_wh"}) => AtMost(f["dist_prior_wh"], f["dist_prior_dh"])
          /\ has({"dist_prior_wl"}) => AtMost(f["dist_prior_dl"], f["dist_prior_wl"])
      BY <2>8, <2>9, <2>10, <2>11, <2>12
    <3>2. AnchoredVwap(bars) # NoFeature =>
            /\ AtMost(AnchoredVwap(bars), <<Highest(bars), 1>>)
            /\ AtMost(<<Lowest(bars), 1>>, AnchoredVwap(bars))
      BY VwapInRange
    <3> QED
      BY <3>1, <3>2 DEF LevelsNest, f, window, close
<1> QED
  BY <1>1, <1>2, <1>3

-----------------------------------------------------------------------------
(* The inputs the runs take some of, of every size: the properties of the  *)
(* runs hold of all of them.                                               *)
TheSides == {"long", "short"}

IsLabelCase(c) ==
  /\ c.bars \in Seq(PriceBar) /\ c.side \in TheSides /\ c.hold \in Int /\ IsRisk(c.risk)

IsRiskCase(c) == c.stop \in StopSpec /\ c.target \in TargetSpec /\ c.side \in TheSides

IsRetCase(c) == c.rets \in Seq(Int)

IsGenomeCase(c) == (\E K : c.g \in Genome(K) /\ c.h \in Genome(K)) /\ c.x \in Int

IsFundCase(c) == c.small \in Fund /\ c.large \in Fund

IsSeedCase(c) ==
  /\ \E K : IsCatalog(c.catalog, K)
  /\ KnowsArchetypes(c.catalog) /\ c.most \in 1..MaxPredicates

IsParentCase(c) ==
  \E K : IsCatalog(c.catalog, K) /\ c.a \in Seq(Drawn(K)) /\ c.b \in Seq(Drawn(K))

IsGeometryCase(c) == c.operator \in Risks

IsGenerationCase(c) ==
  /\ \E S : /\ c.survivors \in Seq(S) /\ c.first \in Seq(S) /\ c.crossed \in Seq(S)
            /\ c.extra \in Seq(S) /\ c.fresh \in Seq(S)
  /\ c.perGen \in Nat /\ c.wider \in Nat /\ Len(c.survivors) <= c.perGen

IsChartCase(c) == c.bars \in Seq(Candle)

IsMacroCase(c) == c.closes \in Seq(Int) /\ c.macro \in Macro

(* risk.rs, triple_barrier.rs, trades.rs: labels over bars of every length *)
(* and tallies of any number of trades are honest.                         *)
THEOREM LabelsAreAlwaysHonest ==
  ASSUME case.kind = "label" => IsLabelCase(case),
         case.kind = "risk" => IsRiskCase(case),
         case.kind = "rets" => IsRetCase(case)
  PROVE  LabelsAreHonest
<1>1. Geometry
  <2> SUFFICES ASSUME case.kind = "risk"
               PROVE  /\ GeometryPointsTheRightWay(Risk(case.stop, case.target), 100, 10, case.side)
                      /\ \A horizon \in DOMAIN Profiles :
                           DefaultsKeepTheProfile(horizon, 10000, 1000, case.side)
    BY DEF Geometry
  <2>1. IsRisk(Risk(case.stop, case.target)) /\ case.side \in {"long", "short"}
    BY DEF IsRiskCase, IsRisk, Risk, TheSides
  <2>2. GeometryPointsTheRightWay(Risk(case.stop, case.target), 100, 10, case.side)
    BY <2>1, EveryGeometryPointsTheRightWay
  <2>3. ASSUME NEW horizon \in DOMAIN Profiles
        PROVE  DefaultsKeepTheProfile(horizon, 10000, 1000, case.side)
    <3>1. PICK ten \in Nat : ten = 10
      OBVIOUS
    <3>2. PICK atr : atr = 1000
      OBVIOUS
    <3>3. atr = 100 * ten
      BY <3>1, <3>2
    <3>4. DefaultsKeepTheProfile(horizon, 10000, 100 * ten, case.side)
      BY <2>1, DefaultsAreTheProfile
    <3>5. DefaultsKeepTheProfile(horizon, 10000, atr, case.side)
      BY <3>3, <3>4
    <3> QED
      BY ONLY <3>2, <3>5
  <2> QED
    BY <2>2, <2>3
<1>2. case.kind = "label" => case.bars \in Seq(PriceBar) /\ case.side \in {"long", "short"}
                             /\ case.hold \in Int /\ IsRisk(case.risk)
  BY DEF IsLabelCase, TheSides
<1>3. LabelsLookNoFurther
  BY <1>2, NoLabelLooksAhead DEF LabelsLookNoFurther
<1>4. LabelsArePessimistic
  BY <1>2, EveryLabelIsPessimistic DEF LabelsArePessimistic
<1>5. ExitPrices
  BY <1>2, ExitPricesAreTheLabels DEF ExitPrices
<1>6. Tally
  BY EveryTallyAddsUp DEF Tally, IsRetCase
<1> QED
  BY <1>1, <1>3, <1>4, <1>5, <1>6 DEF LabelsAreHonest

(* score.rs: genomes of any length that share a signature act              *)
(* alike.                                                                  *)
THEOREM SignaturesAreAlwaysBehaviour ==
  ASSUME case.kind = "genome" => IsGenomeCase(case)
  PROVE  SignaturesAreBehaviour
<1> SUFFICES ASSUME case.kind = "genome", NEW missing \in BOOLEAN
             PROVE  SignatureIsBehaviour(case.g, case.h,
                      IF missing THEN [k \in {"x"} |-> case.x] ELSE [k \in {"x", "y"} |-> case.x])
  BY DEF SignaturesAreBehaviour
<1>1. /\ [k \in {"x"} |-> case.x] \in [{"x"} -> Int]
      /\ [k \in {"x", "y"} |-> case.x] \in [{"x", "y"} -> Int]
  BY DEF IsGenomeCase
<1>2. /\ SignatureIsBehaviour(case.g, case.h, [k \in {"x"} |-> case.x])
      /\ SignatureIsBehaviour(case.g, case.h, [k \in {"x", "y"} |-> case.x])
  BY <1>1, EverySignatureIsBehaviour DEF IsGenomeCase
<1> QED
  BY <1>2

(* layer0_tradeability.rs, layer1_regime.rs: closes of any length and any  *)
(* funds are judged by what is known of them.                              *)
THEOREM NothingIsEverMadeUp ==
  ASSUME case.kind = "fund" => IsFundCase(case),
         case.kind = "macro" => IsMacroCase(case)
  PROVE  NothingIsMadeUp
<1>1. LargerFundsPass
  BY LargerFundsDoPass DEF LargerFundsPass, IsFundCase
<1>2. VolatilityRank
  <2>1. LookBacks.vol \in Nat
    BY DEF LookBacks
  <2> QED
    BY <2>1, VolatilityIsRankedAmongItsOwn DEF VolatilityRank, IsMacroCase
<1>3. NothingFilledIn
  BY MissingSeriesAreSkipped DEF NothingFilledIn, IsMacroCase
<1> QED
  BY <1>1, <1>2, <1>3 DEF NothingIsMadeUp

(* layer2_location.rs: over charts of any length a confirmed swing stays,  *)
(* and the levels nest around the close.                                   *)
THEOREM LevelsAlwaysStand ==
  ASSUME case.kind = "chart" => IsChartCase(case)
  PROVE  LevelsStand
<1> SUFFICES ASSUME case.kind = "chart"
             PROVE  /\ SwingsAreNotRepainted(case.bars, LookBacks)
                    /\ LevelsNest(case.bars, LookBacks)
  BY DEF LevelsStand, SwingsStand, NestedLevels
<1>1. case.bars \in Seq(Candle)
  BY DEF IsChartCase
<1>2. case.bars \in Seq(Quoted)
  <2>1. Candle \subseteq Quoted
    BY DEF Candle, Quoted
  <2> HIDE DEF Candle, Quoted
  <2>2. Len(case.bars) \in Nat /\ case.bars \in [1..Len(case.bars) -> Candle]
    BY <1>1, LenProperties
  <2>3. case.bars \in [1..Len(case.bars) -> Quoted]
    BY <2>1, <2>2
  <2> QED
    BY <2>2, <2>3
<1>3. /\ LookBacks.pivot \in Nat /\ LookBacks.atr \in Nat
      /\ LookBacks.lookback \in Nat \ {0}
      /\ LookBacks.range \in Nat \ {0} /\ LookBacks.week \in Nat \ {0}
  BY DEF LookBacks
<1>4. SwingsAreNotRepainted(case.bars, LookBacks)
  BY <1>2, <1>3, SwingsStayAsConfirmed
<1>5. LevelsNest(case.bars, LookBacks)
  BY <1>1, <1>3, LevelsAlwaysNest
<1> QED
  BY <1>4, <1>5

(* seed.rs, genome_ops.rs, risk_search.rs, population.rs: whatever catalog *)
(* and parents a generation is bred from, it is observed and tradeable,    *)
(* its elite first.                                                        *)
THEOREM BreedingIsAlwaysSound ==
  ASSUME case.kind = "seed" => IsSeedCase(case),
         case.kind = "parents" => IsParentCase(case),
         case.kind = "geometry" => IsGeometryCase(case),
         case.kind = "generation" => IsGenerationCase(case)
  PROVE  BreedingIsSound
<1>1. ObservedSeeds
  BY EverySeedIsObserved DEF ObservedSeeds, IsSeedCase
<1>2. ObservedOffspring
  BY EveryOffspringIsObserved DEF ObservedOffspring, IsParentCase
<1>3. TradeableGeometry
  BY EveryGeometryStaysTradeable DEF TradeableGeometry, IsGeometryCase
<1>4. EliteThenNew
  <2> DEFINE drawn == [first |-> case.first, crossed |-> case.crossed, extra |-> case.extra,
                       fresh |-> case.fresh]
             seen == case.seen \cup ToSet(case.survivors)
             poolTarget == case.perGen + case.wider
  <2> SUFFICES ASSUME case.kind = "generation"
               PROVE  GenerationIsEliteThenNew(case.survivors, drawn, seen, case.perGen, poolTarget)
    BY DEF EliteThenNew
  <2>1. IsGenerationCase(case)
    OBVIOUS
  <2>2. PICK S : /\ case.survivors \in Seq(S) /\ case.first \in Seq(S) /\ case.crossed \in Seq(S)
                 /\ case.extra \in Seq(S) /\ case.fresh \in Seq(S)
    BY <2>1 DEF IsGenerationCase
  <2>3. /\ drawn.first \in Seq(S) /\ drawn.crossed \in Seq(S) /\ drawn.extra \in Seq(S)
        /\ drawn.fresh \in Seq(S)
    BY <2>2
  <2>4. /\ case.perGen \in Nat /\ poolTarget \in Nat /\ Len(case.survivors) <= case.perGen
        /\ case.perGen <= poolTarget
    BY <2>1 DEF IsGenerationCase
  <2>5. ToSet(case.survivors) \subseteq seen
    OBVIOUS
  <2> HIDE DEF drawn, seen, poolTarget
  <2> QED
    BY <2>2, <2>3, <2>4, <2>5, EveryGenerationIsEliteThenNew
<1> QED
  BY <1>1, <1>2, <1>3, <1>4 DEF BreedingIsSound

IsWalkCase(c) == c.points \in Seq(PointKinds) /\ c.minHold \in Int

IsEraCase(c) ==
  /\ c.rows \in Seq(LabelRow) /\ \A i \in 1..Len(c.rows) : c.rows[i].ts <= c.rows[i].t1
  /\ c.from \in Int /\ c.to \in Int /\ c.from <= c.to

IsFoldCase(c) == c.rows \in Nat /\ c.groups \in Int /\ c.k \in Int

IsRecordCase(c) == c.rets \in Seq(Int) /\ c.oos \in Int

IsGateCase(c) == c.v \in Validation \cup {NoResult} /\ c.w \in Validation \cup {NoResult}

IsBoundCase(c) == c.wins \in Nat /\ c.n \in Int

IsConvictionCase(c) == c.e \in Int /\ c.b \in Int

(* backtest.rs, population.rs, score.rs: cohorts of any size enter         *)
(* greedily, stay clear of the reserved era, and are folded on two sides.  *)
THEOREM CohortsAreAlwaysFair ==
  ASSUME case.kind = "walk" => IsWalkCase(case),
         case.kind = "era" => IsEraCase(case),
         case.kind = "fold" => IsFoldCase(case)
  PROVE  CohortsAreFair
<1>1. GreedyWalk
  BY EveryWalkIsGreedy DEF GreedyWalk, IsWalkCase
<1>2. EraUntouched
  BY EveryReservedDayIsUntouched DEF EraUntouched, IsEraCase
<1>3. FoldsTrainAndTest
  BY EveryFoldTrainsAndTests DEF FoldsTrainAndTest, IsFoldCase
<1> QED
  BY <1>1, <1>2, <1>3 DEF CohortsAreFair

(* The thresholds of the runs are graded, as those of the code are.        *)
LEMMA TheThresholdsAreGraded == Graded(Thresholds)
<1>1. <<269, 100>> \in Nat \X (Nat \ {0}) /\ <<543, 100>> \in Nat \X (Nat \ {0})
  OBVIOUS
<1>2. Thresholds \in ThresholdRecords
  BY <1>1 DEF Thresholds, ThresholdRecords
<1>3. /\ NoMoreThan(<<269, 100>>, <<269, 100>>) /\ NoMoreThan(<<269, 100>>, <<543, 100>>)
  BY DEF NoMoreThan
<1>4. /\ Thresholds.zDecay = <<269, 100>> /\ Thresholds.zShrink = <<269, 100>>
      /\ Thresholds.zQuarantine = <<543, 100>>
      /\ Thresholds.shrinkGap = 1 /\ Thresholds.quarantineGap = 2
  BY DEF Thresholds
<1> QED
  BY <1>2, <1>3, <1>4 DEF Graded

(* detectors.rs: over records of any length a drawdown is the worst run of *)
(* trades, and more evidence never softens a verdict.                      *)
THEOREM DetectorsAreAlwaysFair ==
  ASSUME case.kind = "record" => IsRecordCase(case)
  PROVE  DetectorsAreFair
<1>1. WorstRun
  BY EveryDrawdownIsTheWorstRun DEF WorstRun, IsRecordCase
<1>2. EvidenceCounts
  BY TheThresholdsAreGraded, MoreEvidenceNeverSoftens, EveryQuarantineNeedsTheGap
     DEF EvidenceCounts, IsRecordCase
<1> QED
  BY <1>1, <1>2 DEF DetectorsAreFair

(* gate.rs, score.rs, conviction.rs: for any metrics, counts and           *)
(* expectancies, what is granted is backed by the measurements.            *)
THEOREM VerdictsAreAlwaysEarned ==
  ASSUME case.kind = "gate" => IsGateCase(case),
         case.kind = "bound" => IsBoundCase(case),
         case.kind = "conviction" => IsConvictionCase(case)
  PROVE  VerdictsAreEarned
<1>1. MonotoneGate
  BY TheGateIsMonotone DEF MonotoneGate, IsGateCase
<1>2. WilsonFloor
  BY TheFloorNeedsEvidence DEF WilsonFloor, IsBoundCase
<1>3. ConvictionIsImplied
  BY EveryConvictionEarnsItsExpectancy DEF ConvictionIsImplied, IsConvictionCase
<1> QED
  BY <1>1, <1>2, <1>3 DEF VerdictsAreEarned

-----------------------------------------------------------------------------
(* The cases of a run are told apart by their kinds.                       *)
LEMMA CasesHaveKinds ==
  /\ case \in LabelCases => case.kind = "label"
  /\ case \in RiskCases => case.kind = "risk"
  /\ case \in WalkCases => case.kind = "walk"
  /\ case \in EraCases => case.kind = "era"
  /\ case \in RetCases => case.kind = "rets"
  /\ case \in RecordCases => case.kind = "record"
  /\ case \in JournalCases => case.kind = "journal"
  /\ case \in CohortCases => case.kind = "cohort"
  /\ case \in FoldCases => case.kind = "fold"
  /\ case \in GateCases => case.kind = "gate"
  /\ case \in RunCases => case.kind = "run"
  /\ case \in BoundCases => case.kind = "bound"
  /\ case \in ConvictionCases => case.kind = "conviction"
  /\ case \in GenomeCases => case.kind = "genome"
  /\ case \in SeedCases => case.kind = "seed"
  /\ case \in ParentCases => case.kind = "parents"
  /\ case \in RiskModelCases => case.kind = "geometry"
  /\ case \in GenerationCases => case.kind = "generation"
  /\ case \in RegimeCases => case.kind = "regime"
  /\ case \in ChartCases => case.kind = "chart"
  /\ case \in FundCases => case.kind = "fund"
  /\ case \in MacroCases => case.kind = "macro"
  /\ case \in DateCases => case.kind = "date"
  /\ case \in WindowCases => case.kind = "window"
<1>1. case \in LabelCases => case.kind = "label"
  BY DEF LabelCases
<1>2. case \in RiskCases => case.kind = "risk"
  BY DEF RiskCases
<1>3. case \in WalkCases => case.kind = "walk"
  BY DEF WalkCases
<1>4. case \in EraCases => case.kind = "era"
  BY DEF EraCases
<1>5. case \in RetCases => case.kind = "rets"
  BY DEF RetCases
<1>6. case \in RecordCases => case.kind = "record"
  BY DEF RecordCases
<1>7. case \in JournalCases => case.kind = "journal"
  BY DEF JournalCases
<1>8. case \in CohortCases => case.kind = "cohort"
  BY DEF CohortCases
<1>9. case \in FoldCases => case.kind = "fold"
  BY DEF FoldCases
<1>10. case \in GateCases => case.kind = "gate"
  BY DEF GateCases
<1>11. case \in RunCases => case.kind = "run"
  BY DEF RunCases
<1>12. case \in BoundCases => case.kind = "bound"
  BY DEF BoundCases
<1>13. case \in ConvictionCases => case.kind = "conviction"
  BY DEF ConvictionCases
<1>14. case \in GenomeCases => case.kind = "genome"
  BY DEF GenomeCases
<1>15. case \in SeedCases => case.kind = "seed"
  BY DEF SeedCases
<1>16. case \in ParentCases => case.kind = "parents"
  BY DEF ParentCases
<1>17. case \in RiskModelCases => case.kind = "geometry"
  BY DEF RiskModelCases
<1>18. case \in GenerationCases => case.kind = "generation"
  BY DEF GenerationCases
<1>19. case \in RegimeCases => case.kind = "regime"
  BY DEF RegimeCases
<1>20. case \in ChartCases => case.kind = "chart"
  BY DEF ChartCases
<1>21. case \in FundCases => case.kind = "fund"
  BY DEF FundCases
<1>22. case \in MacroCases => case.kind = "macro"
  BY DEF MacroCases
<1>23. case \in DateCases => case.kind = "date"
  BY DEF DateCases
<1>24. case \in WindowCases => case.kind = "window"
  BY DEF WindowCases
<1> QED
  BY <1>1, <1>2, <1>3, <1>4, <1>5, <1>6, <1>7, <1>8, <1>9, <1>10, <1>11, <1>12,
     <1>13, <1>14, <1>15, <1>16, <1>17, <1>18, <1>19, <1>20, <1>21, <1>22, <1>23, <1>24

LEMMA CasesAreOfTheirKind ==
  ASSUME CaseInit
  PROVE  /\ case.kind = "label" => case \in LabelCases
         /\ case.kind = "risk" => case \in RiskCases
         /\ case.kind = "walk" => case \in WalkCases
         /\ case.kind = "era" => case \in EraCases
         /\ case.kind = "rets" => case \in RetCases
         /\ case.kind = "record" => case \in RecordCases
         /\ case.kind = "fold" => case \in FoldCases
         /\ case.kind = "gate" => case \in GateCases
         /\ case.kind = "bound" => case \in BoundCases
         /\ case.kind = "conviction" => case \in ConvictionCases
         /\ case.kind = "genome" => case \in GenomeCases
         /\ case.kind = "chart" => case \in ChartCases
         /\ case.kind = "fund" => case \in FundCases
         /\ case.kind = "macro" => case \in MacroCases
BY CasesHaveKinds DEF CaseInit

LEMMA BoundedAreSequences ==
  ASSUME NEW T, NEW S \in SUBSET T, NEW n \in Nat, NEW s \in BoundedSeq(S, n)
  PROVE  s \in Seq(T)
<1>1. PICK m \in 0..n : s \in [1..m -> S]
  BY DEF BoundedSeq, SeqOf
<1> QED
  BY <1>1

LEMMA BarsAreBars ==
  BarShapes \in SUBSET PriceBar /\ Bar(110, 80, 100) \in PriceBar
BY DEF BarShapes, Bar, PriceBar

LEMMA SpecsAreSpecs ==
  ASSUME NEW by \in Int, NEW kind \in {"atr", "fixed", "pct"}
  PROVE  /\ Spec1(kind, by) \in StopSpec
         /\ Spec1(kind, by) \in TargetSpec /\ Spec1("r", by) \in TargetSpec
BY DEF Spec1, StopSpec, TargetSpec, Fractions

(* The prices of a run's labels are quotes, its risk models have forms the *)
(* code knows, ...: what a run enumerates are inputs of these theorems.    *)
LEMMA LabelCasesAreLegal ==
  ASSUME CaseInit
  PROVE  /\ case.kind = "label" => IsLabelCase(case)
         /\ case.kind = "risk" => IsRiskCase(case)
         /\ case.kind = "rets" => IsRetCase(case)
<1>1. ASSUME case \in LabelCases
      PROVE  IsLabelCase(case)
  <2>1. /\ case.side \in TheSides /\ case.hold \in Int
        /\ case.bars \in {<<Bar(110, 80, 100)>> \o s : s \in BoundedSeq(BarShapes, 3)}
        /\ case.risk \in {Risk(Spec1("pct", 10), Spec1("r", 2)),
             Risk(Spec1("fixed", 20), Spec1("atr", 1)), Risk(Spec1("fixed", 0), Spec1("atr", 1))}
    BY <1>1 DEF LabelCases, Sides, TheSides
  <2>2. PICK s \in BoundedSeq(BarShapes, 3) : case.bars = <<Bar(110, 80, 100)>> \o s
    BY <2>1
  <2>3. s \in Seq(PriceBar) /\ <<Bar(110, 80, 100)>> \in Seq(PriceBar)
    BY BoundedAreSequences, BarsAreBars
  <2>4. case.bars \in Seq(PriceBar)
    BY <2>2, <2>3
  <2>5. IsRisk(case.risk)
    BY <2>1, SpecsAreSpecs DEF IsRisk, Risk
  <2> QED
    BY <2>1, <2>4, <2>5 DEF IsLabelCase
<1>2. ASSUME case \in RiskCases
      PROVE  IsRiskCase(case)
  BY <1>2, SpecsAreSpecs DEF RiskCases, StopSpecs, TargetSpecs, Sides, TheSides, IsRiskCase
<1>3. ASSUME case \in RetCases
      PROVE  IsRetCase(case)
  <2>1. case.rets \in BoundedSeq(-2..2, 3)
    BY <1>3 DEF RetCases
  <2> QED
    BY <2>1, BoundedAreSequences, -2..2 \in SUBSET Int DEF IsRetCase
<1> QED
  BY <1>1, <1>2, <1>3, CasesAreOfTheirKind

LEMMA CohortCasesAreLegal ==
  ASSUME CaseInit
  PROVE  /\ case.kind = "walk" => IsWalkCase(case)
         /\ case.kind = "era" => IsEraCase(case)
         /\ case.kind = "fold" => IsFoldCase(case)
<1>1. ASSUME case \in WalkCases
      PROVE  IsWalkCase(case)
  <2>1. case.points \in BoundedSeq(PointKinds, 5) /\ case.minHold \in Int
    BY <1>1 DEF WalkCases
  <2> QED
    BY <2>1, BoundedAreSequences DEF IsWalkCase
<1>2. ASSUME case \in EraCases
      PROVE  IsEraCase(case)
  <2> DEFINE Rows == {r \in LabelRows : r.ts <= r.t1}
  <2>1. /\ case.rows \in BoundedSeq(Rows, 2)
        /\ case.from \in Int /\ case.to \in Int /\ case.from <= case.to
    BY <1>2 DEF EraCases
  <2>2. Rows \in SUBSET LabelRow
    BY DEF LabelRows, LabelRow
  <2>3. case.rows \in Seq(LabelRow) /\ case.rows \in Seq(Rows)
    BY <2>1, <2>2, BoundedAreSequences
  <2>4. \A i \in 1..Len(case.rows) : case.rows[i] \in Rows
    BY <2>3
  <2> QED
    BY <2>1, <2>3, <2>4 DEF IsEraCase
<1>3. ASSUME case \in FoldCases
      PROVE  IsFoldCase(case)
  BY <1>3 DEF FoldCases, IsFoldCase
<1> QED
  BY <1>1, <1>2, <1>3, CasesAreOfTheirKind

LEMMA VerdictCasesAreLegal ==
  ASSUME CaseInit
  PROVE  /\ case.kind = "record" => IsRecordCase(case)
         /\ case.kind = "gate" => IsGateCase(case)
         /\ case.kind = "bound" => IsBoundCase(case)
         /\ case.kind = "conviction" => IsConvictionCase(case)
<1>1. ASSUME case \in RecordCases
      PROVE  IsRecordCase(case)
  <2>1. case.rets \in BoundedSeq(-3..2, 4) /\ case.oos \in Int
    BY <1>1 DEF RecordCases
  <2> QED
    BY <2>1, BoundedAreSequences, -3..2 \in SUBSET Int DEF IsRecordCase
<1>2. ASSUME case \in GateCases
      PROVE  IsGateCase(case)
  <2>1. Metrics \in SUBSET Validation
    BY DEF Metrics, Validation
  <2> QED
    BY <1>2, <2>1 DEF GateCases, IsGateCase
<1>3. ASSUME case \in BoundCases
      PROVE  IsBoundCase(case)
  BY <1>3 DEF BoundCases, IsBoundCase
<1>4. ASSUME case \in ConvictionCases
      PROVE  IsConvictionCase(case)
  BY <1>4 DEF ConvictionCases, IsConvictionCase
<1> QED
  BY <1>1, <1>2, <1>3, <1>4, CasesAreOfTheirKind

LEMMA ReadingCasesAreLegal ==
  ASSUME CaseInit
  PROVE  /\ case.kind = "genome" => IsGenomeCase(case)
         /\ case.kind = "chart" => IsChartCase(case)
         /\ case.kind = "fund" => IsFundCase(case)
         /\ case.kind = "macro" => IsMacroCase(case)
<1>1. ASSUME case \in GenomeCases
      PROVE  IsGenomeCase(case)
  <2>1. /\ case.g \in [side : {"long"}, horizon : {"swing"}, risk : {Barriers({"stop", "target1"}, 4)},
                      predicates : BoundedSeq(Predicates({-1, 6}), 2)]
        /\ case.h \in [side : {"long", "short"}, horizon : {"swing"},
                      risk : {Barriers({"stop", "target1"}, 5),
                              Barriers({"stop", "target1", "target2"}, 4)},
                      predicates : BoundedSeq(Predicates({1, 7}), 2)]
        /\ case.x \in Int
    BY <1>1 DEF GenomeCases
  <2>0. /\ {Barriers({"stop", "target1"}, 4), Barriers({"stop", "target1"}, 5),
            Barriers({"stop", "target1", "target2"}, 4)} \subseteq RiskFigures
        /\ "swing" \in DOMAIN Profiles
    BY DEF Barriers, RiskFigures, Figure, Profiles
  <2>2. Predicates({-1, 6}) \in SUBSET Predicate({"x", "y"}) /\ Predicates({1, 7}) \in SUBSET Predicate({"x", "y"})
    BY DEF Predicates, Predicate
  <2>3. case.g.predicates \in Seq(Predicate({"x", "y"})) /\ case.h.predicates \in Seq(Predicate({"x", "y"}))
    BY <2>1, <2>2, BoundedAreSequences
  <2>4. case.g \in Genome({"x", "y"})
    BY <2>1, <2>0, <2>3 DEF Genome
  <2>5. case.h \in Genome({"x", "y"})
    BY <2>1, <2>0, <2>3 DEF Genome
  <2> QED
    BY <2>1, <2>4, <2>5 DEF IsGenomeCase
<1>2. ASSUME case \in ChartCases
      PROVE  IsChartCase(case)
  <2>1. PICK n \in 2..6 : case.bars \in [1..n -> Quotes]
    BY <1>2 DEF ChartCases
  <2>2. Quotes \in SUBSET Candle
    BY DEF Quotes, Quote, Candle
  <2> QED
    BY <2>1, <2>2 DEF IsChartCase
<1>3. ASSUME case \in FundCases
      PROVE  IsFundCase(case)
  <2>1. Funds \in SUBSET Fund
    BY DEF Funds, Fund, Amount
  <2> QED
    BY <1>3, <2>1 DEF FundCases, IsFundCase
<1>4. ASSUME case \in MacroCases
      PROVE  IsMacroCase(case)
  <2>1. [DOMAIN Reads -> {NoFeature, 3}] \in SUBSET Macro /\ AllSeries \in Macro
    BY DEF Macro, AllSeries
  <2>2. <<1, 2, 4, 5>> \in Seq(Int) /\ \A s \in BoundedSeq(0..2, 5) : s \in Seq(Int)
    BY BoundedAreSequences, 0..2 \in SUBSET Int
  <2> QED
    BY <1>4, <2>1, <2>2 DEF MacroCases, IsMacroCase
<1> QED
  BY <1>1, <1>2, <1>3, <1>4, CasesAreOfTheirKind

(* What the run finds for the inputs it enumerates is an instance of the   *)
(* theorems above.                                                         *)
THEOREM TheRunsCasesAreInstances ==
  CaseSpec => [](/\ LabelsAreHonest /\ CohortsAreFair /\ DetectorsAreFair /\ VerdictsAreEarned
                 /\ SignaturesAreBehaviour /\ LevelsStand /\ NothingIsMadeUp)
<1>1. CaseInit /\ [CaseNext]_case => CaseInit'
  BY DEF CaseInit, CaseNext
<1>2. CaseInit => /\ LabelsAreHonest /\ CohortsAreFair /\ DetectorsAreFair /\ VerdictsAreEarned
                  /\ SignaturesAreBehaviour /\ LevelsStand /\ NothingIsMadeUp
  BY LabelCasesAreLegal, CohortCasesAreLegal, VerdictCasesAreLegal, ReadingCasesAreLegal,
     LabelsAreAlwaysHonest, CohortsAreAlwaysFair, DetectorsAreAlwaysFair, VerdictsAreAlwaysEarned,
     SignaturesAreAlwaysBehaviour, LevelsAlwaysStand, NothingIsEverMadeUp
<1> QED
  BY <1>1, <1>2, PTL DEF CaseSpec
=============================================================================
