---------------------------- MODULE MCAlgorithms ----------------------------
(* Bounded inputs for the algorithms of the engine: a run of this module   *)
(* takes each case in turn, a case being one input of one algorithm.       *)
EXTENDS Scoring, Breeding, Detectors, Regime, Features

VARIABLE case

Sides == {"long", "short"}

(* Bars around a close of 100: quiet, rising, falling, a spike to either   *)
(* side, and one that spans both barriers.                                 *)
Bar(high, low, close) == [high |-> high, low |-> low, close |-> close]
BarShapes ==
  {Bar(100, 100, 100), Bar(110, 100, 110), Bar(100, 90, 90),
   Bar(120, 100, 100), Bar(100, 80, 110), Bar(120, 80, 90)}

Spec1(kind, by) == [kind |-> kind, by |-> <<by, 1>>]
Risk(stop, target) == [stop |-> stop, target1 |-> target]
StopSpecs == {Spec1("atr", 1), Spec1("fixed", 20), Spec1("pct", 10), Spec1("fixed", 0)}
TargetSpecs == {Spec1("atr", 2), Spec1("r", 1), Spec1("fixed", 0), Spec1("pct", 20)}

LabelCases ==
  [kind : {"label"}, bars : {<<Bar(110, 80, 100)>> \o s : s \in BoundedSeq(BarShapes, 3)},
   side : Sides, hold : 1..2, risk : {Risk(Spec1("pct", 10), Spec1("r", 2)),
     Risk(Spec1("fixed", 20), Spec1("atr", 1)), Risk(Spec1("fixed", 0), Spec1("atr", 1))}]

RiskCases == [kind : {"risk"}, stop : StopSpecs, target : TargetSpecs, side : Sides]

WalkCases == [kind : {"walk"}, points : BoundedSeq(PointKinds, 5), minHold : 0..2]

LabelRows == {[ts |-> a, t1 |-> b] : a \in 1..5, b \in 1..5}

EraCases ==
  {c \in [kind : {"era"}, rows : BoundedSeq({r \in LabelRows : r.ts <= r.t1}, 2),
          from : 2..4, to : 2..4] : c.from <= c.to}

RetCases == [kind : {"rets"}, rets : BoundedSeq(-2..2, 3)]

Thresholds ==
  [divergenceTrades |-> 2, shrinkGap |-> 1, quarantineGap |-> 2, zShrink |-> <<269, 100>>,
   zQuarantine |-> <<543, 100>>, decayTrades |-> 3, zDecay |-> <<269, 100>>,
   drawdownTrades |-> 2, cvarFloor |-> -2, drawdownFloor |-> -3,
   calibrationTrades |-> 2, calibrationGap |-> 15]

RecordCases == [kind : {"record"}, rets : BoundedSeq(-3..2, 4), oos : -1..3]

JournaledTrades ==
  [pnl : {-1, 2}, conviction : {40, 70, NoConviction}] \cup [pnl : {NoPnl}, conviction : {70}]

JournalCases == [kind : {"journal"}, trades : BoundedSeq(JournaledTrades, 4)]

Window(from) == [from : {from}, points : BoundedSeq({"ok", "quiet"}, 3)]

CohortCases ==
  [kind : {"cohort"}, windows : {<<v, w>> : v \in Window(1), w \in Window(0)}, hold : 1..2,
   era : {<<9, 9>>, <<3, 3>>}]

FoldCases == [kind : {"fold"}, rows : 0..6, groups : 0..4, searchTrials : {0, 2}, k : {0, 2, 5}]

Metrics == [dsr : {-1, 0, 1}, pbo : {49, 50}, expectancy : {-1, 0, 1}, regimes : {1, 2}]

GateCases == [kind : {"gate"}, v : Metrics \cup {NoResult}, w : Metrics]

RunScores ==
  {[dsr |-> 1, pbo |-> p, expectancy |-> e, passed |-> b] : p \in {20, 40}, e \in 1..2, b \in BOOLEAN}

RunCases ==
  [kind : {"run"}, run : BoundedSeq([id : {"a", "b"}, score : RunScores \cup {NoResult}], 3)]

BoundCases == {c \in [kind : {"bound"}, wins : 0..12, n : -1..12] : c.wins <= Max({c.n, 0})}

ConvictionCases == [kind : {"conviction"}, e : -15..40, b : {0, 10, 15, 20}]

Predicates(thresholds) ==
  [key : {"x", "y"}, op : {"gt", "lte"}, threshold : thresholds]

Barriers(names, stop) ==
  [b \in names |-> IF b = "stop" THEN [kind |-> "atr", by |-> stop] ELSE [kind |-> "r", by |-> 8]]

GenomeCases ==
  [kind : {"genome"}, g : [side : {"long"}, horizon : {"swing"}, risk : {Barriers({"stop", "target1"}, 4)},
                           predicates : BoundedSeq(Predicates({-1, 6}), 2)],
   h : [side : {"long", "short"}, horizon : {"swing"},
        risk : {Barriers({"stop", "target1"}, 5), Barriers({"stop", "target1", "target2"}, 4)},
        predicates : BoundedSeq(Predicates({1, 7}), 2)],
   x : {-8, 12}]

Feature(key, layer, values) == [key |-> key, layer |-> layer, values |-> values]

Catalogs ==
  {Catalog(observed, 2) : observed \in SUBSET
     {Feature("adx", "regime", <<3, 1, 2>>), Feature("rsi14", "trigger", <<5, 4, 5>>),
      Feature("dist_200dma", "location", <<7, 9>>), Feature("flat", "event", <<1, 1>>)}}

SeedCases == [kind : {"seed"}, catalog : Catalogs, most : 1..2]

SomeCatalog ==
  Catalog({Feature("adx", "regime", <<3, 1, 2>>), Feature("rsi14", "trigger", <<5, 4, 5>>),
           Feature("dist_200dma", "location", <<7, 9>>)}, 2)

ParentCases ==
  [kind : {"parents"}, catalog : {SomeCatalog},
   a : RandomGenomes(SomeCatalog, 2), b : RandomGenomes(SomeCatalog, 1)]

RiskModelCases ==
  [kind : {"geometry"}, operator : {[stop |-> [kind |-> k, by |-> v], targets |-> Targets(8)] :
     k \in {"atr", "pct", "fixed"}, v \in {1, 4, 21}}]

GenerationCases ==
  [kind : {"generation"}, survivors : {<<>>, <<"s">>, <<"s", "t">>}, perGen : 2..4, wider : 0..3,
   first : {<<>>, <<"m">>}, crossed : {<<>>, <<"m">>, <<"c">>}, extra : {<<>>, <<"m", "n", "o">>},
   fresh : {<<>>, <<"f", "m", "g", "h">>}, seen : {{}, {"f"}}]

RegimeCases ==
  LET all == Levels \ {"out"}
      seen == {"low", "mid", "high"}
      cases == [kind : {"regime"}, rv_percentile : all \cup {"out"}, vix_vix3m : all, vvix : all,
                vix9d_vix : {"mid"}, rv20 : {"absent", "mid"}, hy_oas : seen, copper_gold : all,
                dxy_trend : seen, gex_sign : {"absent", "low", "high"}]
  IN  cases \cup {[c EXCEPT !.vix9d_vix = "out"] : c \in {d \in cases : d.rv20 = "absent"}}

Quote(high, low, close, volume) == [high |-> high, low |-> low, close |-> close, volume |-> volume]

Quotes == {Quote(5, 3, 4, 1), Quote(7, 4, 6, 2), Quote(4, 1, 2, 2), Quote(6, 2, 3, 1)}

LookBacks ==
  [lookback |-> 4, atr |-> 2, week |-> 2, pivot |-> 1, range |-> 3, fast |-> 2, slow |-> 4, emaFast |-> 1,
   emaMid |-> 2, emaSlow |-> 3, rsi |-> 2, adx |-> 2, divergence |-> 4, vol |-> 2, short |-> 1,
   long |-> 2, roc |-> 2, nr |-> 3, slope |-> 1, obv |-> 3]

ChartCases == [kind : {"chart"}, bars : UNION {[1..n -> Quotes] : n \in 2..6}]

Funds ==
  [adv : {-1, 3, 8}, aum : {NoFeature, -1, 4}, gex : {NoFeature, 2, 12}, oi : {NoFeature, 3}]

FundCases == [kind : {"fund"}, small : Funds, large : Funds]

Histories == [dxy |-> <<4, 5>>, oil |-> <<>>, copper |-> <<4, 3, 3>>, gold |-> <<2, 0, 3>>]

AllSeries == [s \in DOMAIN Reads |-> 3]

MacroCases ==
  [kind : {"macro"}, closes : {<<1, 2, 4, 5>>}, macro : [DOMAIN Reads -> {NoFeature, 3}]]
  \cup [kind : {"macro"}, closes : BoundedSeq(0..2, 5), macro : {AllSeries}]

(* The weekdays of 2020, and its meetings.                                 *)
Meetings2020 ==
  {FirstDay[24 + m[1]] + m[2] - 1 :
     m \in {<<0, 29>>, <<2, 18>>, <<3, 29>>, <<5, 10>>, <<6, 29>>, <<8, 16>>, <<10, 5>>, <<11, 16>>}}

DateCases == [kind : {"date"}, day : FirstDay[24]..(FirstDay[36] - 1)]

Orders == {o \in [1..4 -> 1..4] : IsInjective(o)}

WindowCases ==
  [kind : {"window"}, stored : {1..4, {1, 3, 4}, {2}}, from : 1..2, to : 3..4, most : {2, 4},
   completion : Orders]

CaseInit ==
  \/ case \in LabelCases \/ case \in RiskCases \/ case \in WalkCases
  \/ case \in EraCases \/ case \in RetCases
  \/ case \in RecordCases \/ case \in JournalCases
  \/ case \in CohortCases \/ case \in FoldCases \/ case \in GateCases \/ case \in RunCases \/ case \in BoundCases
  \/ case \in ConvictionCases \/ case \in GenomeCases
  \/ case \in SeedCases \/ case \in ParentCases \/ case \in RiskModelCases
  \/ case \in GenerationCases
  \/ case \in RegimeCases \/ case \in ChartCases \/ case \in FundCases
  \/ case \in MacroCases \/ case \in DateCases \/ case \in WindowCases

CaseNext == UNCHANGED case

CaseSpec == CaseInit /\ [][CaseNext]_case

-----------------------------------------------------------------------------
(* risk.rs, horizon.rs: every stop and target form an operator or a        *)
(* mutation combines points the right way for both sides, and the default  *)
(* geometry of a horizon has the barriers of its profile.                  *)
Geometry ==
  case.kind = "risk" =>
    /\ GeometryPointsTheRightWay(Risk(case.stop, case.target), 100, 10, case.side)
    /\ \A horizon \in DOMAIN Profiles :
         DefaultsKeepTheProfile(horizon, 10000, 1000, case.side)

(* triple_barrier.rs: a label never depends on a bar after its t1, and is  *)
(* revised by later bars only when the data ended inside the holding time. *)
LabelsLookNoFurther ==
  case.kind = "label" =>
    LabelNeedsNoLaterBar(case.bars, 1, case.side, 10, case.risk, case.hold)

(* triple_barrier.rs: a bar that touches both barriers is a loss, for the  *)
(* long as for the short.                                                  *)
LabelsArePessimistic ==
  case.kind = "label" =>
    LabelIsPessimistic(case.bars, 1, case.side, 10, case.risk, case.hold, 100)

(* trades.rs: the exit price reconstructed from a label is the price the   *)
(* label exited at.                                                        *)
ExitPrices ==
  case.kind = "label" =>
    ExitsAreReconstructed(case.bars, Label(case.bars, 1, case.side, 10, case.risk, case.hold))

(* backtest.rs: the walk enters wherever it may, holds its cooldown, and   *)
(* accounts for every firing it does not enter.                            *)
GreedyWalk == case.kind = "walk" => WalkIsGreedy(case.points, case.minHold)

(* population.rs, firewall_test_era: no kept label spans a reserved day.   *)
EraUntouched == case.kind = "era" => EraStaysUntouched(case.rows, <<case.from, case.to>>)

(* trades.rs: the printed tally is one of the replayed trades.             *)
Tally == case.kind = "rets" => TallyAddsUp(case.rets)

(* detectors.rs: a drawdown is the sum of the worst run of trades.         *)
WorstRun == case.kind = "record" => DrawdownIsTheWorstRun(case.rets)

(* detectors.rs: what the drawdown detector concludes does not depend on   *)
(* the trades being loaded newest first.                                   *)
DrawdownOrder == case.kind = "record" => DrawdownReadsEitherWay(case.rets, Thresholds)

(* detectors.rs: more evidence of a shortfall never softens the verdict,   *)
(* and evidence alone never quarantines.                                   *)
EvidenceCounts ==
  case.kind = "record" =>
    /\ EvidenceNeverSoftens(case.rets, case.oos, Thresholds)
    /\ QuarantineNeedsTheGap(case.rets, case.oos, Thresholds)

(* lib.rs of se-monitor: convictions and wins are filtered separately, and *)
(* still every outcome is counted once; where no open trade comes before a *)
(* closed one, they are those of the same trades.                          *)
CalibrationPairs == case.kind = "journal" => CalibrationCountsOutcomes(case.trades)

(* population.rs, dataset.rs: the cohort over all tickers is one that is   *)
(* written in the order of its entries.                                    *)
CohortsAreWritten ==
  case.kind = "cohort" => CohortIsWritable(case.windows, 1, case.hold, case.era)

(* score.rs, contract.rs: every shape of a validation trains and tests.    *)
FoldsTrainAndTest ==
  case.kind = "fold" =>
    \A horizon \in DOMAIN Profiles : FoldsHaveTwoSides(case.rows, case, horizon)

(* gate.rs: the gate only ever gains from a better validation.             *)
MonotoneGate == case.kind = "gate" => GateIsMonotone(case.v, case.w)

(* population.rs, score.rs: neither the order nor the repetition of        *)
(* evaluations hides the best one.                                         *)
BestIsShown == case.kind = "run" => LeaderboardShowsTheBest(case.run)

(* score.rs: the Wilson floor asks for evidence, not for a point estimate. *)
WilsonFloor == case.kind = "bound" => FloorNeedsEvidence(case.wins, case.n)

(* conviction.rs: the implied hit rate earns the expectancy it came from.  *)
ConvictionIsImplied ==
  case.kind = "conviction" => ConvictionEarnsTheExpectancy(case.e, case.b)

(* score.rs: genomes that share a signature behave alike.                  *)
SignaturesAreBehaviour ==
  case.kind = "genome" =>
    \A missing \in BOOLEAN :
      SignatureIsBehaviour(case.g, case.h,
        IF missing THEN [k \in {"x"} |-> case.x] ELSE [k \in {"x", "y"} |-> case.x])

(* seed.rs: seeds read observed features at observed thresholds.           *)
ObservedSeeds == case.kind = "seed" => SeedsAreObserved(case.catalog, case.most)

(* genome_ops.rs: so do the genomes bred from them.                        *)
ObservedOffspring ==
  case.kind = "parents" => BreedingStaysObserved(case.a, case.b, case.catalog)

(* risk_search.rs: a locked geometry stays locked, a free one tradeable.   *)
TradeableGeometry ==
  case.kind = "geometry" =>
    GeometryStaysTradeable(case.operator,
      [stop |-> [kind |-> "atr", by |-> 5], targets |-> Targets(6)])

(* population.rs, next_generation: the elite is carried, the rest is new.  *)
EliteThenNew ==
  case.kind = "generation" =>
    GenerationIsEliteThenNew(case.survivors,
      [first |-> case.first, crossed |-> case.crossed, extra |-> case.extra, fresh |-> case.fresh],
      case.seen \cup ToSet(case.survivors), case.perGen, case.perGen + case.wider)

(* classifier.rs: a label is never given over its opposite on a tie.       *)
UndisputedLabel == case.kind = "regime" => LabelIsUndisputed(case)

(* classifier.rs: calm signals are judged as stressed ones are.            *)
CalmAndStress == case.kind = "regime" => CalmMirrorsStress(case)

(* layer2_location.rs: a swing level is final once it is confirmed, until  *)
(* it leaves the look-back.                                                *)
SwingsStand == case.kind = "chart" => SwingsAreNotRepainted(case.bars, LookBacks)

(* indicators.rs, layer2_location.rs, layer3_trigger.rs: what rising       *)
(* prices say of one side, falling prices say of the other.                *)
DirectionsMirror ==
  case.kind = "chart" /\ Len(case.bars) >= 2 => FallingMirrorsRising(case.bars, LookBacks)

(* layer2_location.rs: the levels around the close nest.                   *)
NestedLevels == case.kind = "chart" => LevelsNest(case.bars, LookBacks)

(* layer0_tradeability.rs: larger funds pass, and a failure has a reason.  *)
LargerFundsPass == case.kind = "fund" => TradeabilityIsMonotone(case.small, case.large)

(* layer1_regime.rs: the volatility percentile is in its envelope.         *)
VolatilityRank ==
  case.kind = "macro" => VolRankCountsItself(case.closes, case.macro, Histories, LookBacks)

(* layer1_regime.rs: a missing series is skipped, never filled in.         *)
NothingFilledIn ==
  case.kind = "macro" => MissingInputsAreSkipped(case.closes, case.macro, Histories, LookBacks)

(* event_overlay.rs: flags and countdowns tell the same calendar.          *)
OneCalendar == case.kind = "date" => CalendarAgrees(case.day, Meetings2020)

(* feature_matrix.rs: concurrent evaluation does not reorder the window.   *)
ChronologicalWindows ==
  case.kind = "window" =>
    WindowIsChronological(case.stored, case.from, case.to, case.most, case.completion, 1)

(* population.rs:516: with survivors and room to spare, a generation keeps *)
(* a fresh seed among its genomes.                                         *)
FreshSeedsAreKept ==
  case.kind = "generation" =>
    FreshSeedsStayRepresented(case.survivors,
      [first |-> case.first, crossed |-> case.crossed, extra |-> case.extra, fresh |-> case.fresh],
      case.seen \cup ToSet(case.survivors), case.perGen, case.perGen + case.wider)

-----------------------------------------------------------------------------
(* The checked properties, one per question asked of the algorithms.       *)

(* triple_barrier.rs, risk.rs, trades.rs: a label is neither optimistic    *)
(* nor clairvoyant, and the trade rebuilt from it exits where it did.      *)
LabelsAreHonest ==
  Geometry /\ LabelsLookNoFurther /\ LabelsArePessimistic /\ ExitPrices /\ Tally

(* backtest.rs, population.rs, score.rs: a cohort enters greedily, stays   *)
(* clear of the reserved era, and is folded for training and for testing.  *)
CohortsAreFair == GreedyWalk /\ EraUntouched /\ FoldsTrainAndTest

(* detectors.rs: a drawdown is the worst run of trades, and more evidence  *)
(* is never worse evidence.                                                *)
DetectorsAreFair == WorstRun /\ EvidenceCounts

(* gate.rs, score.rs, conviction.rs: a passing score, a precision and a    *)
(* conviction are all backed by the measurements.                          *)
VerdictsAreEarned == MonotoneGate /\ WilsonFloor /\ ConvictionIsImplied

(* seed.rs, genome_ops.rs, risk_search.rs, population.rs: what is bred can *)
(* fire, can be traded, and does not displace the elite.                   *)
BreedingIsSound ==
  ObservedSeeds /\ ObservedOffspring /\ TradeableGeometry /\ EliteThenNew

(* classifier.rs, indicators.rs, layer2_location.rs, layer3_trigger.rs:    *)
(* the label follows the evidence, and calm is judged as stress is, rising *)
(* prices as falling ones are.                                             *)
NoSideIsFavoured == UndisputedLabel /\ CalmAndStress /\ DirectionsMirror

(* layer2_location.rs: a level of a chart is final once it is known, and   *)
(* the levels agree with each other.                                       *)
LevelsStand == SwingsStand /\ NestedLevels

(* layer0_tradeability.rs, layer1_regime.rs: what is missing or fails is   *)
(* reported as such, whatever else is known.                               *)
NothingIsMadeUp == LargerFundsPass /\ VolatilityRank /\ NothingFilledIn

(* event_overlay.rs, feature_matrix.rs, population.rs, lib.rs of           *)
(* se-monitor: rows that are loaded, filtered, sorted or evaluated in some *)
(* order are judged in the order, and the pairs, they belong in.           *)
OrderIsKept ==
  /\ OneCalendar /\ ChronologicalWindows /\ CohortsAreWritten
  /\ BestIsShown /\ DrawdownOrder /\ CalibrationPairs
=============================================================================
