------------------------------ MODULE Features ------------------------------
(***************************************************************************)
(* The feature layers (se-features) and the window of decision bars the    *)
(* search scores genomes on (feature_matrix.rs).  Bars come oldest first   *)
(* and end at the decision bar; prices are integers, an average or ratio   *)
(* is a fraction <<n, d>> with d > 0, and w gives the look-backs.          *)
(***************************************************************************)
EXTENDS Integers, Sequences, FiniteSets, SequencesExt, FiniteSetsExt

CONSTANT NoFeature   \* None: a feature that cannot be formed is not emitted

ASSUME FeatureAssumption == NoFeature \notin Int /\ NoFeature \notin Int \X Int

Trailing(s, n) == SubSeq(s, Len(s) - Min({n, Len(s)}) + 1, Len(s))

SumOf(s) == FoldLeft(LAMBDA a, b : a + b, 0, s)

Closes(bars) == [i \in DOMAIN bars |-> bars[i].close]

Highest(bars) == Max({bars[i].high : i \in DOMAIN bars})

Lowest(bars) == Min({bars[i].low : i \in DOMAIN bars})

Changes(s) == [i \in 1..(Len(s) - 1) |-> s[i + 1] - s[i]]

SignOf(x) == CASE x > 0 -> 1 [] x < 0 -> -1 [] OTHER -> 0

Observed(features) ==
  LET keys == {k \in DOMAIN features : features[k] # NoFeature}
  IN  [k \in keys |-> features[k]]

-----------------------------------------------------------------------------
(* indicators.rs                                                           *)
Sma(vals, n) ==
  IF n = 0 \/ Len(vals) < n THEN NoFeature ELSE <<SumOf(Trailing(vals, n)), n>>

(* e = v k + e (1 - k), k = 2 / (n + 1), from the oldest value on.         *)
Ema(vals, n) ==
  IF n = 0 \/ vals = <<>> THEN NoFeature
  ELSE FoldLeft(LAMBDA e, v : <<2 * v * e[2] + e[1] * (n - 1), e[2] * (n + 1)>>,
                <<vals[1], 1>>, Tail(vals))

TrueRange(prev, bar) ==
  Max({bar.high - bar.low, bar.high - prev.close, prev.close - bar.high,
       bar.low - prev.close, prev.close - bar.low})

TrueRanges(bars) == [i \in 1..(Len(bars) - 1) |-> TrueRange(bars[i], bars[i + 1])]

Atr(bars, n) ==
  IF n = 0 \/ Len(bars) <= n THEN NoFeature ELSE <<SumOf(Trailing(TrueRanges(bars), n)), n>>

(* Wilder's smoothing of a sum over p values, at the scale p^k for the     *)
(* k values after the first p: s - s / p + x.                              *)
WilderSums(xs, p) ==
  LET seed == SumOf(SubSeq(xs, 1, p))
      step(sums, x) == Append(sums, Last(sums) * (p - 1) + x * p ^ Len(sums))
  IN  FoldLeft(step, <<seed>>, SubSeq(xs, p + 1, Len(xs)))

(* The larger of the two directional moves of a bar, if it is positive.    *)
Movement(own, other) == IF own > other /\ own > 0 THEN own ELSE 0

(* adx, in percent.                                                        *)
Adx(bars, p) ==
  LET n == Len(bars)
      up == [i \in 1..(n - 1) |-> bars[i + 1].high - bars[i].high]
      down == [i \in 1..(n - 1) |-> bars[i].low - bars[i + 1].low]
      plus == WilderSums([i \in DOMAIN up |-> Movement(up[i], down[i])], p)
      minus == WilderSums([i \in DOMAIN up |-> Movement(down[i], up[i])], p)
      range == WilderSums(TrueRanges(bars), p)
      dx(i) == IF plus[i] + minus[i] = 0 THEN 0
               ELSE (100 * Max({plus[i] - minus[i], minus[i] - plus[i]})) \div (plus[i] + minus[i])
      moving == SelectSeq([i \in DOMAIN range |-> i], LAMBDA i : range[i] > 0)
      dxs == [j \in DOMAIN moving |-> dx(moving[j])]
  IN  IF p = 0 \/ n < 2 * p + 1 \/ dxs = <<>> THEN NoFeature
      ELSE IF Len(dxs) < p THEN SumOf(dxs) \div Len(dxs)
      ELSE FoldLeft(LAMBDA a, x : (a * (p - 1) + x) \div p,
                    SumOf(SubSeq(dxs, 1, p)) \div p, SubSeq(dxs, p + 1, Len(dxs)))

(* rsi: 100 g / (g + l), and 100 without a loss, a flat series included.   *)
Rsi(closes, p) ==
  LET changes == Changes(closes)
      gain == Last(WilderSums([i \in DOMAIN changes |-> Max({changes[i], 0})], p))
      loss == Last(WilderSums([i \in DOMAIN changes |-> Max({-changes[i], 0})], p))
  IN  IF p = 0 \/ Len(closes) <= p THEN NoFeature
      ELSE IF loss = 0 THEN <<100, 1>> ELSE <<100 * gain, gain + loss>>

Minus(a, b) == <<a[1] * b[2] - b[1] * a[2], a[2] * b[2]>>

RsiSlope(closes, p, k) ==
  IF k = 0 \/ Len(closes) <= p + k THEN NoFeature
  ELSE Minus(Rsi(closes, p), Rsi(SubSeq(closes, 1, Len(closes) - k), p))

Roc(closes, n) ==
  IF n = 0 \/ Len(closes) <= n \/ closes[Len(closes) - n] = 0 THEN NoFeature
  ELSE <<Last(closes) - closes[Len(closes) - n], closes[Len(closes) - n]>>

Obv(bars) ==
  FoldLeft(LAMBDA out, i : Append(out, Last(out) + SignOf(bars[i].close - bars[i - 1].close) * bars[i].volume),
           <<0>>, [i \in 1..(Len(bars) - 1) |-> i + 1])

(* slope_sign: of the least-squares slope, whose sign is that of the sum   *)
(* of the values times their centred index.                                *)
SlopeSign(ys) ==
  SignOf(SumOf([i \in DOMAIN ys |-> (2 * i - Len(ys) - 1) * ys[i]]))

-----------------------------------------------------------------------------
(* layer2_location.rs                                                      *)
(* Mutant: a pivot may be any bar that k bars came before.                 *)
CentersUnconfirmed(n, k) == (k + 1)..n

(* Confirmed pivots only.                                                  *)
Centers(n, k) == (k + 1)..(n - k)

(* Strictly above the k values on each side.                               *)
Pivots(ys, k) ==
  {c \in Centers(Len(ys), k) :
     \A d \in (((c - k)..(c + k)) \cap DOMAIN ys) \ {c} : ys[c] > ys[d]}

LastSwingHigh(bars, k) ==
  LET pivots == Pivots([i \in DOMAIN bars |-> bars[i].high], k)
  IN  IF pivots = {} THEN NoFeature ELSE bars[Max(pivots)].high

LastSwingLow(bars, k) ==
  LET pivots == Pivots([i \in DOMAIN bars |-> -bars[i].low], k)
  IN  IF pivots = {} THEN NoFeature ELSE bars[Max(pivots)].low

(* The module looks no further back than the newest w.lookback bars.       *)
LocationBars(stored, w) == Trailing(stored, w.lookback)

(* Three times the typical price, hence the factor in the volume.          *)
AnchoredVwap(bars) ==
  LET pv == SumOf([i \in DOMAIN bars |->
              (bars[i].high + bars[i].low + bars[i].close) * bars[i].volume])
      volume == SumOf([i \in DOMAIN bars |-> 3 * bars[i].volume])
  IN  IF volume <= 0 THEN NoFeature ELSE <<pv, volume>>

(* Mutant: the rolling window ends with the bar before the decision bar.   *)
RangeBefore(bars, n) == Trailing(Front(bars), n)

RollingWindow(bars, n) == Trailing(bars, n)

PctRangePosition(bars, n) ==
  LET window == RollingWindow(bars, n)
  IN  IF Highest(window) <= Lowest(window) THEN NoFeature
      ELSE <<Max({0, Min({Last(bars).close, Highest(window)}) - Lowest(window)}),
             Highest(window) - Lowest(window)>>

(* The bars before the decision bar.                                       *)
PriorWeek(bars, n) == Trailing(Front(bars), n)

(* LocationModule::compute: the close's distance from each level, in ATRs, *)
(* over the bars it looks back on.                                         *)
LocationFeatures(bars, w) ==
  LET close == Last(bars).close
      atr == Atr(bars, w.atr)
      dist(level) == IF atr = NoFeature \/ level = NoFeature THEN NoFeature
                     ELSE IF atr[1] <= 0 THEN NoFeature
                     ELSE <<(close * level[2] - level[1]) * atr[2], level[2] * atr[1]>>
      price(level) == IF level = NoFeature THEN NoFeature ELSE dist(<<level, 1>>)
      prior == bars[Len(bars) - 1]
      week(level) == IF Len(bars) > w.week THEN price(level) ELSE NoFeature
  IN  IF Len(bars) < 2 THEN <<>>
      ELSE Observed(
        [dist_50dma |-> dist(Sma(Closes(bars), w.fast)),
         dist_200dma |-> dist(Sma(Closes(bars), w.slow)),
         dist_prior_dh |-> price(prior.high), dist_prior_dl |-> price(prior.low),
         dist_prior_wh |-> week(Highest(PriorWeek(bars, w.week))),
         dist_prior_wl |-> week(Lowest(PriorWeek(bars, w.week))),
         swing_high_dist |-> price(LastSwingHigh(bars, w.pivot)),
         swing_low_dist |-> price(LastSwingLow(bars, w.pivot)),
         anchored_vwap_dist |-> dist(AnchoredVwap(bars)),
         pct_range_position |-> PctRangePosition(bars, w.range),
         dist_rolling_high |-> price(Highest(RollingWindow(bars, w.range))),
         dist_rolling_low |-> price(Lowest(RollingWindow(bars, w.range)))])

-----------------------------------------------------------------------------
(* layer3_trigger.rs                                                       *)
RsVsBench(closes, bench, n) ==
  IF NoFeature \in {Roc(closes, n), Roc(bench, n)} THEN NoFeature
  ELSE Minus(Roc(closes, n), Roc(bench, n))

(* In halves: the spreads' signs are added, not compared.                  *)
EmaStackAlign(closes, w) ==
  LET spread(a, b) == SignOf(Minus(Ema(closes, a), Ema(closes, b))[1])
  IN  IF closes = <<>> THEN NoFeature
      ELSE <<spread(w.emaFast, w.emaMid) + spread(w.emaMid, w.emaSlow), 2>>

Nr7(ranges, n) ==
  IF Len(ranges) < n THEN NoFeature
  ELSE <<IF \A r \in ToSet(Trailing(ranges, n)) : Last(ranges) <= r THEN 1 ELSE 0, 1>>

(* Both halves of the window, in price and in momentum.                    *)
Divergences(closes, n) ==
  LET px == Trailing(closes, n)
      mom == <<0>> \o Changes(px)
      early(s) == ToSet(SubSeq(s, 1, n \div 2))
      late(s) == ToSet(SubSeq(s, n \div 2 + 1, n))
  IN  IF n < 2 \/ Len(closes) < n THEN {}
      ELSE {d \in {"bearish", "bullish"} :
             \/ /\ d = "bearish" /\ Max(late(px)) > Max(early(px))
                /\ Max(late(mom)) < Max(early(mom))
             \/ /\ d = "bullish" /\ Min(late(px)) < Min(early(px))
                /\ Min(late(mom)) > Min(early(mom))}

(* Mutant: either divergence is reported as a bearish one.                 *)
UnsignedDivergence(closes, n) == IF Divergences(closes, n) = {} THEN 0 ELSE -1

MomentumDivergence(closes, n) ==
  CASE "bearish" \in Divergences(closes, n) -> -1
    [] Divergences(closes, n) = {"bullish"} -> 1
    [] OTHER -> 0

(* universe: the closes of every ticker of the universe, this one's too.   *)
BreadthThrust(universe, n) ==
  LET have == {t \in DOMAIN universe : Sma(universe[t], n) # NoFeature}
      above == {t \in have : Last(universe[t]) * n > Sma(universe[t], n)[1]}
  IN  IF have = {} THEN NoFeature ELSE <<Cardinality(above), Cardinality(have)>>

(* TriggerModule::compute; the benchmark's strength against itself is 0.   *)
TriggerFeatures(bars, isBench, bench, universe, flow, w) ==
  LET closes == Closes(bars)
      short == Atr(bars, w.short)
      long == Atr(bars, w.long)
      obv == Obv(bars)
  IN  IF Len(bars) < 2 THEN <<>>
      ELSE Observed(
        [rs_vs_spy |-> IF isBench THEN <<0, 1>> ELSE RsVsBench(closes, bench, w.roc),
         momentum_roc |-> Roc(closes, w.roc),
         momentum_divergence |-> <<MomentumDivergence(closes, w.divergence), 1>>,
         atr_contraction |-> IF NoFeature \in {short, long} THEN NoFeature
                             ELSE IF long[1] <= 0 THEN NoFeature
                             ELSE <<short[1] * long[2], short[2] * long[1]>>,
         nr7 |-> Nr7([i \in DOMAIN bars |-> bars[i].high - bars[i].low], w.nr),
         rsi14 |-> Rsi(closes, w.rsi),
         rsi_slope |-> RsiSlope(closes, w.rsi, w.slope),
         ema_stack_align |-> EmaStackAlign(closes, w),
         atr_pct |-> IF Atr(bars, w.atr) = NoFeature \/ Last(closes) <= 0 THEN NoFeature
                     ELSE <<Atr(bars, w.atr)[1], Atr(bars, w.atr)[2] * Last(closes)>>,
         obv_trend |-> IF Len(obv) < w.obv THEN NoFeature ELSE <<SlopeSign(Trailing(obv, w.obv)), 1>>,
         breadth_thrust |-> BreadthThrust(universe, w.fast),
         order_flow_imbalance |-> flow])

-----------------------------------------------------------------------------
(* layer0_tradeability.rs.  Amounts are logarithms, in tenths of the ratio *)
(* of the good level to the floor, which is twenty for both; 0 is the      *)
(* floor.  An open interest or a |GEX| is in tenths of its saturation.     *)
Clamp01(tenths) == Max({0, Min({tenths, 10})})

LargeHand(input) ==
  IF input.gex # NoFeature THEN Clamp01(input.gex)
  ELSE IF input.oi # NoFeature THEN Clamp01(input.oi)
  ELSE Min({Clamp01(input.adv), 5})

Reasons(input) ==
  {r \in {"adv", "aum", "aum unavailable", "large hand unobserved"} :
     \/ r = "adv" /\ input.adv < 0
     \/ r = "aum unavailable" /\ input.aum = NoFeature
     \/ r = "aum" /\ input.aum # NoFeature /\ input.aum < 0
     \/ r = "large hand unobserved" /\ input.gex = NoFeature /\ input.oi = NoFeature}

(* Mutant: a fund of unknown size is not held to the floor.                *)
UnknownSizePasses(input) == input.adv < 0 \/ (input.aum # NoFeature /\ input.aum < 0)

(* The gate repeats the conditions of the reasons.                         *)
HardFail(input) ==
  \/ input.adv < 0
  \/ input.aum = NoFeature
  \/ input.aum # NoFeature /\ input.aum < 0

(* TradeabilityGate::evaluate; the score is in thousandths.                *)
Tradeability(input) ==
  LET flow == IF input.aum = NoFeature THEN 0 ELSE Clamp01(input.aum)
  IN  [score |-> 40 * Clamp01(input.adv) + 35 * flow + 25 * LargeHand(input),
       passed |-> ~HardFail(input), reasons |-> Reasons(input)]

-----------------------------------------------------------------------------
(* layer1_regime.rs.  A close is its logarithm here, so that a log return  *)
(* is a difference, and a volatility stands for its square.                *)
RealizedVol(closes, n) ==
  LET rets == Trailing(Changes(closes), n)
  IN  IF Len(rets) < 2 THEN 0
      ELSE Len(rets) * SumOf([i \in DOMAIN rets |-> rets[i] * rets[i]]) - SumOf(rets) * SumOf(rets)

VolHistory(closes, n) ==
  [i \in 1..(Len(closes) - n) |-> RealizedVol(SubSeq(closes, 1, n + i), n)]

(* Mutant: the part of the history strictly below the value.               *)
PercentileBelow(hist, x) ==
  IF hist = <<>> THEN NoFeature
  ELSE <<Cardinality({i \in DOMAIN hist : hist[i] < x}), Len(hist)>>

PercentileOf(hist, x) ==
  IF hist = <<>> THEN NoFeature
  ELSE <<Cardinality({i \in DOMAIN hist : hist[i] <= x}), Len(hist)>>

PctChange(series) ==
  IF Len(series) < 2 \/ series = <<>> THEN NoFeature
  ELSE IF series[1][1] = 0 THEN NoFeature
  ELSE <<Last(series)[1] * series[1][2] - series[1][1] * Last(series)[2],
         series[1][1] * Last(series)[2]>>

(* Mutant: a leg that is missing counts as nothing.                        *)
RatioZeroFilled(a, b) == IF b = NoFeature THEN NoFeature ELSE IF a = NoFeature THEN <<0, b>> ELSE <<a, b>>

Ratio(a, b) == IF NoFeature \in {a, b} THEN NoFeature ELSE IF b <= 0 THEN NoFeature ELSE <<a, b>>

(* The histories are zipped from the front, whatever their dates.          *)
CopperGold(copper, gold) ==
  LET zipped == [i \in 1..Min({Len(copper), Len(gold)}) |-> <<copper[i], gold[i]>>]
  IN  PctChange(SelectSeq(zipped, LAMBDA r : r[2] > 0))

(* What RegimeModule::compute reads; macro gives the latest value of a     *)
(* series and hist its trend window.                                       *)
RegimeReadings(closes, macro, hist, adx, w) ==
  LET whole(series) == [i \in DOMAIN series |-> <<series[i], 1>>]
      level(v) == IF v = NoFeature THEN NoFeature ELSE <<v, 1>>
      enough == Len(closes) > w.vol
      rv == RealizedVol(closes, w.vol)
  IN  [vix9d_vix |-> Ratio(macro.vix9d, macro.vix), vix_vix3m |-> Ratio(macro.vix, macro.vix3m),
       vvix |-> level(macro.vvix),
       rv20 |-> IF enough THEN <<rv, 1>> ELSE NoFeature,
       rv_percentile |-> IF enough THEN PercentileOf(VolHistory(closes, w.vol), rv) ELSE NoFeature,
       adx |-> IF enough THEN adx ELSE NoFeature,
       vrp |-> IF macro.vix = NoFeature \/ ~enough THEN NoFeature ELSE <<macro.vix - 100 * rv, 1>>,
       hy_oas |-> level(macro.hy_oas), ig_oas |-> level(macro.ig_oas),
       hy_ig_ratio |-> Ratio(macro.hy_oas, macro.ig_oas),
       net_liquidity |-> IF NoFeature \in {macro.walcl, macro.tga, macro.rrp} THEN NoFeature
                         ELSE <<macro.walcl - macro.tga - macro.rrp, 1>>,
       dxy_trend |-> PctChange(whole(hist.dxy)), oil_trend |-> PctChange(whole(hist.oil)),
       twos_tens |-> IF NoFeature \in {macro.ust2y, macro.ust10y} THEN NoFeature
                     ELSE <<macro.ust10y - macro.ust2y, 1>>,
       copper_gold |-> CopperGold(hist.copper, hist.gold),
       gex_net |-> level(macro.gex), dix |-> level(macro.dix),
       gex_sign |-> IF macro.gex = NoFeature THEN NoFeature
                    ELSE <<IF macro.gex >= 0 THEN 1 ELSE -1, 1>>]

RegimeFeatures(closes, macro, hist, adx, w) ==
  Observed(RegimeReadings(closes, macro, hist, adx, w))

-----------------------------------------------------------------------------
(* event_overlay.rs.  A date is a day number, a month counts from the one  *)
(* day 0 is the first of, 2018-01-01, a Monday.  Years 2018 to 2026.       *)
DaysIn(month) ==
  IF month % 12 \in {3, 5, 8, 10} THEN 30
  ELSE IF month % 12 # 1 THEN 31
  ELSE IF (month \div 12) % 4 = 2 THEN 29 ELSE 28

FirstDay[month \in 0..108] == IF month = 0 THEN 0 ELSE FirstDay[month - 1] + DaysIn(month - 1)

MonthOf(d) == CHOOSE m \in 0..107 : FirstDay[m] <= d /\ d < FirstDay[m + 1]

Weekday(d) == d % 7

IsWeekend(d) == Weekday(d) \in {5, 6}

ThirdFriday(month) == FirstDay[month] + ((4 - Weekday(FirstDay[month])) % 7) + 14

IsOpex(d) == d = ThirdFriday(MonthOf(d))

EndsQuarter(d) == MonthOf(d) % 12 \in {2, 5, 8, 11}

IsQuadWitch(d) == EndsQuarter(d) /\ IsOpex(d)

(* Weekdays after the earlier date, up to the later one.                   *)
WeekdayDiff(from, to) ==
  LET sessions(lo, hi) == Cardinality({d \in (lo + 1)..hi : ~IsWeekend(d)})
  IN  IF from <= to THEN sessions(from, to) ELSE -sessions(to, from)

DaysToOpex(d) == WeekdayDiff(d, ThirdFriday(MonthOf(d)))

(* Mutant: the last day of the month, a weekend day or not.                *)
LastDayOfMonth(month) == FirstDay[month + 1] - 1

LastWeekdayOfMonth(month) ==
  Max({d \in (FirstDay[month + 1] - 7)..(FirstDay[month + 1] - 1) : ~IsWeekend(d)})

IsMonthEnd(d) == d = LastWeekdayOfMonth(MonthOf(d))

IsQuarterEnd(d) == EndsQuarter(d) /\ IsMonthEnd(d)

(* The first of the nearest in the order of the list, which is by date.    *)
NearestFomcDiff(d, fomc) ==
  LET diffs == {WeekdayDiff(d, f) : f \in fomc}
      nearer(x, y) == Max({x, -x}) < Max({y, -y})
      best == {x \in diffs : \A y \in diffs : ~nearer(y, x)}
  IN  IF fomc = {} THEN NoFeature ELSE Min(best)

IsPreFomc(d, fomc) == \E f \in fomc : WeekdayDiff(d, f) \in 1..2

Flag(b) == <<IF b THEN 1 ELSE 0, 1>>

EventFeatures(d, fomc) ==
  Observed(
    [is_opex |-> Flag(IsOpex(d)), days_to_opex |-> <<DaysToOpex(d), 1>>,
     is_quad_witch |-> Flag(IsQuadWitch(d)), is_month_end |-> Flag(IsMonthEnd(d)),
     is_quarter_end |-> Flag(IsQuarterEnd(d)), pre_fomc |-> Flag(IsPreFomc(d, fomc)),
     days_to_fomc |-> IF fomc = {} THEN NoFeature ELSE <<NearestFomcDiff(d, fomc), 1>>])

-----------------------------------------------------------------------------
(* feature_matrix.rs.  stored: the timestamps of the ticker's bars.        *)
StoredBarTs(stored, from, to) == SetToSortSeq({t \in stored : from <= t /\ t <= to}, <)

(* The newest `most` bars the last decision bar may read.                  *)
WindowBars(stored, last, most) == Trailing(SetToSortSeq({t \in stored : t <= last}, <), most)

(* Mutant: the points stay in the order their features were computed in.   *)
AsCompleted(points) == points

ByIndex(points) == SortSeq(points, LAMBDA p, q : p.idx < q.idx)

(* build_window: a point for every decision bar among the bars, computed   *)
(* eight at a time; completion is the order they complete in.              *)
BuildWindow(stored, from, to, most, completion, atr) ==
  LET ts == StoredBarTs(stored, from, to)
      bars == WindowBars(stored, Last(ts), most)
      known == SelectSeq(ts, LAMBDA t : t \in ToSet(bars))
      point(t) == LET idx == CHOOSE i \in DOMAIN bars : bars[i] = t
                  IN  [ts |-> t, idx |-> idx, atr |-> idx > atr]
      done == SelectSeq(completion, LAMBDA t : t \in ToSet(known))
  IN  IF ts = <<>> THEN [bars |-> <<>>, points |-> <<>>]
      ELSE [bars |-> bars, points |-> ByIndex([i \in DOMAIN done |-> point(done[i])])]

-----------------------------------------------------------------------------
(* A swing is not repainted: with one more bar it stays, unless that bar   *)
(* confirms a new pivot, which is the one k bars back; or, of a full look- *)
(* back, the swing was its oldest possible pivot and nothing comes instead.*)
SwingsAreNotRepainted(bars, w) ==
  \A n \in 1..(Len(bars) - 1) :
    LET before == LocationBars(SubSeq(bars, 1, n), w)
        after == LocationBars(SubSeq(bars, 1, n + 1), w)
        k == w.pivot
    IN  /\ LastSwingHigh(after, k) # LastSwingHigh(before, k) =>
             \/ LastSwingHigh(after, k) = bars[n + 1 - k].high
             \/ /\ LastSwingHigh(after, k) = NoFeature /\ n >= w.lookback
                /\ LastSwingHigh(before, k) = before[k + 1].high
        /\ LastSwingLow(after, k) # LastSwingLow(before, k) =>
             \/ LastSwingLow(after, k) = bars[n + 1 - k].low
             \/ /\ LastSwingLow(after, k) = NoFeature /\ n >= w.lookback
                /\ LastSwingLow(before, k) = before[k + 1].low

UpsideDown(bars) ==
  [i \in DOMAIN bars |-> [high |-> -bars[i].low, low |-> -bars[i].high,
                          close |-> -bars[i].close, volume |-> bars[i].volume]]

(* What rising prices say of the long, falling prices say of the short:    *)
(* every directed feature changes sign with the prices.  Strength does     *)
(* not; a flat series has the RSI of a rising one; and prices diverging on *)
(* both sides count as bearish either way.                                 *)
FallingMirrorsRising(bars, w) ==
  LET flip == UpsideDown(bars)
      trigger(bs) == TriggerFeatures(bs, FALSE, Closes(bs), [own |-> Closes(bs)], NoFeature, w)
      same(f, k, g, l) == k \in DOMAIN f <=> l \in DOMAIN g
      negated(f, k, g, l) ==
        same(f, k, g, l) /\ (k \in DOMAIN f => f[k][1] * g[l][2] = -g[l][1] * f[k][2])
      equal(f, k, g) == same(f, k, g, k) /\ (k \in DOMAIN f => Minus(f[k], g[k])[1] = 0)
      flat == Cardinality({bars[i].close : i \in DOMAIN bars}) = 1
      up == trigger(bars)
      down == trigger(flip)
  IN  /\ \A k \in {"obv_trend", "ema_stack_align"} : negated(up, k, down, k)
      /\ Cardinality(Divergences(Closes(bars), w.divergence)) < 2 =>
           negated(up, "momentum_divergence", down, "momentum_divergence")
      /\ \A k \in {"nr7", "atr_contraction", "rs_vs_spy"} : equal(up, k, down)
      /\ "rsi14" \in DOMAIN up /\ ~flat =>
           Minus(<<100, 1>>, up["rsi14"])[1] * down["rsi14"][2] = down["rsi14"][1] * up["rsi14"][2]
      /\ Adx(flip, w.adx) = Adx(bars, w.adx)
      /\ \A pair \in {<<"dist_prior_dh", "dist_prior_dl">>, <<"dist_prior_wh", "dist_prior_wl">>,
                       <<"dist_rolling_high", "dist_rolling_low">>, <<"swing_high_dist", "swing_low_dist">>,
                       <<"anchored_vwap_dist", "anchored_vwap_dist">>, <<"dist_50dma", "dist_50dma">>} :
           negated(LocationFeatures(bars, w), pair[1], LocationFeatures(flip, w), pair[2])

AtMost(a, b) == a[1] * b[2] <= b[1] * a[2]

(* The levels nest around the close: it lies in the rolling range, which   *)
(* is known at the decision bar, without the clamp; yesterday lies in the  *)
(* prior week; and the anchored VWAP lies in the range it is a mean over.  *)
LevelsNest(bars, w) ==
  LET f == LocationFeatures(bars, w)
      has(keys) == keys \subseteq DOMAIN f
  IN  /\ has({"dist_rolling_high"}) => AtMost(f["dist_rolling_high"], <<0, 1>>)
      /\ has({"dist_rolling_low"}) => AtMost(<<0, 1>>, f["dist_rolling_low"])
      /\ has({"pct_range_position"}) =>
           f["pct_range_position"][1] = Last(bars).close - Lowest(RollingWindow(bars, w.range))
      /\ has({"dist_prior_wh"}) => AtMost(f["dist_prior_wh"], f["dist_prior_dh"])
      /\ has({"dist_prior_wl"}) => AtMost(f["dist_prior_dl"], f["dist_prior_wl"])
      /\ AnchoredVwap(bars) # NoFeature =>
           /\ AtMost(AnchoredVwap(bars), <<Highest(bars), 1>>)
           /\ AtMost(<<Lowest(bars), 1>>, AnchoredVwap(bars))

(* The gate fails a fund exactly when it gives a reason other than the     *)
(* informational one, and a fund that is larger in every respect observed  *)
(* neither scores less nor fails where the smaller passes.                 *)
TradeabilityIsMonotone(small, large) ==
  LET least(x, y) == IF x = NoFeature \/ y = NoFeature THEN x = y ELSE x <= y
      grows == /\ small.adv <= large.adv
               /\ small.aum = NoFeature \/ least(small.aum, large.aum)
               /\ least(small.gex, large.gex) /\ least(small.oi, large.oi)
  IN  /\ Tradeability(small).passed <=> Tradeability(small).reasons \subseteq {"large hand unobserved"}
      /\ grows => /\ Tradeability(small).score <= Tradeability(large).score
                  /\ Tradeability(small).passed => Tradeability(large).passed

(* The volatility of the decision bar is in the history it is ranked in:   *)
(* its percentile is never zero, and 1 exactly at the highest of the year. *)
VolRankCountsItself(closes, macro, hist, w) ==
  LET f == RegimeFeatures(closes, macro, hist, NoFeature, w)
  IN  "rv_percentile" \in DOMAIN f =>
        /\ f["rv_percentile"][1] \in 1..f["rv_percentile"][2]
        /\ f["rv_percentile"][1] = f["rv_percentile"][2]
             <=> \A i \in DOMAIN VolHistory(closes, w.vol) :
                   VolHistory(closes, w.vol)[i] <= f["rv20"][1]

Reads ==
  [vix |-> {"vix9d_vix", "vix_vix3m", "vrp"}, vix9d |-> {"vix9d_vix"}, vix3m |-> {"vix_vix3m"},
   vvix |-> {"vvix"}, hy_oas |-> {"hy_oas", "hy_ig_ratio"}, ig_oas |-> {"ig_oas", "hy_ig_ratio"},
   walcl |-> {"net_liquidity"}, tga |-> {"net_liquidity"}, rrp |-> {"net_liquidity"},
   ust2y |-> {"twos_tens"}, ust10y |-> {"twos_tens"}, gex |-> {"gex_sign", "gex_net"},
   dix |-> {"dix"}]

(* A series that is missing costs the features that read it, and no other: *)
(* none is filled in, and none of the rest is different.                   *)
MissingInputsAreSkipped(closes, macro, hist, w) ==
  LET f == RegimeFeatures(closes, macro, hist, NoFeature, w)
  IN  \A s \in DOMAIN Reads :
        RegimeFeatures(closes, [macro EXCEPT ![s] = NoFeature], hist, NoFeature, w)
          = [k \in DOMAIN f \ Reads[s] |-> f[k]]

(* The calendar agrees with itself on every weekday: the day of expiration *)
(* is the one the countdown is 0 on, the countdown loses one a day within  *)
(* a month, the month ends with the last weekday before another month, and *)
(* the run-up to a meeting is the one or two sessions the nearest meeting  *)
(* is away.                                                                *)
CalendarAgrees(d, fomc) ==
  LET next == CHOOSE n \in (d + 1)..(d + 3) : WeekdayDiff(d, n) = 1 /\ ~IsWeekend(n)
      today == EventFeatures(d, fomc)
      tomorrow == EventFeatures(next, fomc)
      on(flag) == today[flag] = <<1, 1>>
  IN  ~IsWeekend(d) =>
        /\ on("is_opex") <=> today["days_to_opex"][1] = 0
        /\ MonthOf(next) = MonthOf(d) => tomorrow["days_to_opex"][1] = today["days_to_opex"][1] - 1
        /\ on("is_month_end") <=> MonthOf(next) # MonthOf(d)
        /\ on("is_quarter_end") <=> MonthOf(next) # MonthOf(d) /\ MonthOf(next) % 3 = 0
        /\ on("pre_fomc") <=> today["days_to_fomc"][1] \in 1..2

(* The window is in the order of time, in whichever order its points were  *)
(* computed: every decision bar that is among the bars has one point, and  *)
(* the point sits on its own bar.                                          *)
WindowIsChronological(stored, from, to, most, completion, atr) ==
  LET w == BuildWindow(stored, from, to, most, completion, atr)
  IN  /\ \A i, j \in DOMAIN w.points : i < j => w.points[i].idx < w.points[j].idx
      /\ \A p \in ToSet(w.points) : w.bars[p.idx] = p.ts
      /\ {p.ts : p \in ToSet(w.points)} = {t \in ToSet(w.bars) : from <= t /\ t <= to}

=============================================================================
