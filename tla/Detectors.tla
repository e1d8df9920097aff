----------------------------- MODULE Detectors -----------------------------
(***************************************************************************)
(* What se-monitor concludes from the realized trades of one strategy:     *)
(* the arithmetic behind the conditions Monitor takes from its             *)
(* environment.  R-multiples and expectancies are integers in a small      *)
(* unit, a conviction is a percentage, and a z threshold is given by its   *)
(* square <<n, d>>, so every comparison is one of integers.                *)
(***************************************************************************)
EXTENDS Integers, Sequences, SequencesExt, FiniteSetsExt

CONSTANTS
  NoPnl,        \* an open trade has no R-multiple
  NoConviction  \* a trade whose signal is gone has no conviction

Total(xs) == FoldLeft(+, 0, xs)
SumOfSquares(xs) == FoldLeft(LAMBDA sum, x : sum + x * x, 0, xs)

(* n (n-1) times the sample variance, and n times the shortfall of the     *)
(* mean below `mark` (mean_std).                                           *)
Spread(xs) == Len(xs) * SumOfSquares(xs) - Total(xs) * Total(xs)
Shortfall(xs, mark) == Len(xs) * mark - Total(xs)

(* Mutant: the test is two-sided.                                          *)
TwoSided(xs, mark, z2) ==
  Shortfall(xs, mark) * Shortfall(xs, mark) * (Len(xs) - 1) * z2[2] >= z2[1] * Spread(xs)

(* The mean of xs is below `mark` with the evidence z asks for; no spread  *)
(* at all is overwhelming evidence.                                        *)
Significant(xs, mark, z2) ==
  /\ Shortfall(xs, mark) > 0
  /\ Shortfall(xs, mark) * Shortfall(xs, mark) * (Len(xs) - 1) * z2[2] >= z2[1] * Spread(xs)

(* Mutant: only the evidence escalates, not the size of the gap.           *)
MaterialShrinkOnly(xs, oos, gap, t) == Shortfall(xs, oos) >= t.shrinkGap * Len(xs)

Material(xs, oos, gap, t) == Shortfall(xs, oos) >= gap * Len(xs)

(* detect_divergence.                                                      *)
Divergence(xs, oos, t) ==
  IF Len(xs) < t.divergenceTrades \/ Len(xs) < 2 THEN "none"
  ELSE IF Significant(xs, oos, t.zQuarantine) /\ Material(xs, oos, t.quarantineGap, t)
       THEN "quarantine"
  ELSE IF Significant(xs, oos, t.zShrink) /\ Material(xs, oos, t.shrinkGap, t)
       THEN "shrink_size"
  ELSE "none"

(* detect_decay.                                                           *)
Decay(xs, t) ==
  /\ Len(xs) >= t.decayTrades /\ Len(xs) >= 2
  /\ Significant(xs, 0, t.zDecay)

(* cvar at 5%: the mean of the worst k returns, as <<sum, k>>.             *)
Cvar(xs) ==
  LET sorted == SortSeq(xs, <)
      k == (Len(xs) * 5 + 99) \div 100
  IN  <<Total(SubSeq(sorted, 1, k)), k>>

(* Mutant: the first trade is the first peak, whatever it lost.            *)
PeakFromFirstTrade(xs) == [cum |-> xs[1], peak |-> xs[1], dd |-> 0, rest |-> Tail(xs)]

PeakFromZero(xs) == [cum |-> 0, peak |-> 0, dd |-> 0, rest |-> xs]

(* max_drawdown.                                                           *)
MaxDrawdown(xs) ==
  LET from == PeakFromZero(xs)
      step(s, r) ==
        LET cum == s.cum + r
            peak == Max({s.peak, cum})
        IN  [cum |-> cum, peak |-> peak, dd |-> Min({s.dd, cum - peak})]
  IN  FoldLeft(step, [cum |-> from.cum, peak |-> from.peak, dd |-> from.dd], from.rest).dd

(* detect_drawdown.                                                        *)
Drawdown(xs, t) ==
  /\ Len(xs) >= t.drawdownTrades /\ xs # <<>>
  /\ \/ Cvar(xs)[1] <= t.cvarFloor * Cvar(xs)[2]
     \/ MaxDrawdown(xs) <= t.drawdownFloor

(* The realized returns, the convictions and the wins run_daily_with takes *)
(* from the trades it loaded.                                              *)
RealizedR(trades) ==
  LET closed == SelectSeq(trades, LAMBDA tr : tr.pnl # NoPnl)
  IN  [i \in DOMAIN closed |-> closed[i].pnl]

Convictions(trades) ==
  LET known == SelectSeq(trades, LAMBDA tr : tr.conviction # NoConviction)
  IN  [i \in DOMAIN known |-> known[i].conviction]

(* Mutant: the wins of trades without a conviction are counted too.        *)
WinsOfAll(trades) == [i \in DOMAIN RealizedR(trades) |-> RealizedR(trades)[i] > 0]

Wins(trades) ==
  LET realized == RealizedR(SelectSeq(trades, LAMBDA tr : tr.conviction # NoConviction))
  IN  [i \in DOMAIN realized |-> realized[i] > 0]

(* detect_calibration, given n times the gap it compares.                  *)
CalibrationGap(convictions, wins) ==
  LET n == Min({Len(convictions), Len(wins)})
      hits == Len(SelectSeq(SubSeq(wins, 1, n), LAMBDA win : win))
      gap == Total(SubSeq(convictions, 1, n)) - 100 * hits
  IN  <<IF gap < 0 THEN -gap ELSE gap, n>>

Miscalibrated(convictions, wins, t) ==
  LET gap == CalibrationGap(convictions, wins)
  IN  gap[2] >= t.calibrationTrades /\ gap[2] > 0 /\ gap[1] >= t.calibrationGap * gap[2]
-----------------------------------------------------------------------------
(* The deepest fall from a peak is the sum of the worst run of consecutive *)
(* trades, so it is the same read from either end.                         *)
DrawdownIsTheWorstRun(xs) ==
  xs # <<>> =>
    /\ MaxDrawdown(xs) = Min({0} \cup {Total(SubSeq(xs, i, j)) : i, j \in DOMAIN xs})
    /\ MaxDrawdown(Reverse(xs)) = MaxDrawdown(xs)

(* The trades are loaded newest first, an equity curve is not: the verdict *)
(* of the drawdown detector is the same either way.                        *)
DrawdownReadsEitherWay(xs, t) == Drawdown(xs, t) <=> Drawdown(Reverse(xs), t)

Severity == [none |-> 0, shrink_size |-> 1, quarantine |-> 2]

(* More evidence never softens a verdict: a higher backtest expectancy, or *)
(* the same record of trades over again, is judged at least as hard; and a *)
(* strategy that diverges from breaking even has decayed.                  *)
EvidenceNeverSoftens(xs, oos, t) ==
  /\ Severity[Divergence(xs, oos, t)] <= Severity[Divergence(xs, oos + 1, t)]
  /\ Severity[Divergence(xs, oos, t)] <= Severity[Divergence(xs \o xs, oos, t)]
  /\ Decay(xs, t) => Decay(xs \o xs, t) /\ Total(xs) < 0
  /\ Len(xs) >= t.decayTrades /\ Divergence(xs, 0, t) # "none" => Decay(xs, t)

(* A quarantine needs a gap a shrink does not: below it, evidence however  *)
(* strong only shrinks the size.                                           *)
QuarantineNeedsTheGap(xs, oos, t) ==
  Divergence(xs, oos, t) = "quarantine" =>
    Divergence(xs, oos, [t EXCEPT !.quarantineGap = 1 + Shortfall(xs, oos)]) = "shrink_size"

(* The calibration detector filters convictions and wins one by one.  The  *)
(* outcomes it counts are those of all closed trades with a conviction,    *)
(* each once, set against as many convictions, the newest.  These belong   *)
(* to the same trades as long as no open trade is newer than a closed one; *)
(* an open trade, which has a conviction and no outcome, shifts the lists  *)
(* against each other, and detectors.rs:270 no longer holds.               *)
CalibrationCountsOutcomes(trades) ==
  LET known == SelectSeq(trades, LAMBDA tr : tr.conviction # NoConviction)
      closed == SelectSeq(known, LAMBDA tr : tr.pnl # NoPnl)
      predicted == FoldLeft(LAMBDA sum, tr : sum + tr.conviction, 0,
                            SubSeq(known, 1, Len(closed)))
      hits == Cardinality({i \in DOMAIN closed : closed[i].pnl > 0})
      paired == \A i \in DOMAIN closed : known[i] = closed[i]
      off == predicted - 100 * hits
      ofPairs == FoldLeft(LAMBDA sum, tr : sum + tr.conviction - (IF tr.pnl > 0 THEN 100 ELSE 0),
                          0, closed)
      size(x) == IF x < 0 THEN -x ELSE x
      gap == CalibrationGap(Convictions(trades), Wins(trades))
  IN  /\ gap = <<size(off), Len(closed)>>
      /\ paired => gap[1] = size(ofPairs)
=============================================================================
