------------------------------ MODULE Backtest ------------------------------
(***************************************************************************)
(* From a genome to a labeled dataset: risk geometry and horizon profiles  *)
(* (se-core), the triple-barrier labeler (se-labeler), the walk over the   *)
(* decision bars and the out-of-time firewall (se-search), and the exit    *)
(* prices and tallies of the replayed trades (trades.rs).  Prices and      *)
(* distances are integers; a multiple or a return is a fraction <<n, d>>.  *)
(***************************************************************************)
EXTENDS Integers, Sequences, FiniteSets, SequencesExt, FiniteSetsExt

CONSTANT Unlabelable   \* no label for an entry

Sign(side) == IF side = "long" THEN 1 ELSE -1
AbsInt(x) == IF x < 0 THEN -x ELSE x
Times(frac, x) == (frac[1] * x) \div frac[2]

-----------------------------------------------------------------------------
(* HorizonProfile: bars, and multiples in tenths of an ATR.                *)
Profiles ==
  [swing       |-> [min |-> 2, hold |-> 15, target |-> 20, stop |-> 10, embargo |-> 3],
   short_swing |-> [min |-> 2, hold |-> 8, target |-> 15, stop |-> 8, embargo |-> 2],
   day         |-> [min |-> 2, hold |-> 13, target |-> 12, stop |-> 7, embargo |-> 2],
   zero_dte    |-> [min |-> 1, hold |-> 12, target |-> 10, stop |-> 6, embargo |-> 1],
   scalp       |-> [min |-> 1, hold |-> 10, target |-> 8, stop |-> 5, embargo |-> 1]]

(* The label horizon is the purge length.                                  *)
PurgeBars(horizon) == Profiles[horizon].hold

(* StopSpec::distance and TargetSpec::distance, one R being `risk`.        *)
Distance(spec, entry, atr, risk) ==
  AbsInt(CASE spec.kind = "atr" -> Times(spec.by, atr)
           [] spec.kind = "fixed" -> Times(spec.by, 1)
           [] spec.kind = "pct" -> Times(spec.by, entry) \div 100
           [] spec.kind = "r" -> Times(spec.by, risk))

RiskDistance(risk, entry, atr) == Distance(risk.stop, entry, atr, 0)

(* Mutant: the stop of either side sits below the entry.                   *)
StopBelow(risk, entry, atr, side) == entry - RiskDistance(risk, entry, atr)

StopPrice(risk, entry, atr, side) == entry - Sign(side) * RiskDistance(risk, entry, atr)

TargetPrice(target, risk, entry, atr, side) ==
  entry + Sign(side) * Distance(target, entry, atr, RiskDistance(risk, entry, atr))

(* Mutant: the second target is 1.6 times the R-multiple of the stop.      *)
SecondTargetOfStop(p) == [kind |-> "r", by |-> <<p.stop * 16, 100>>]

(* 1.6 times the R-multiple of the first target.                           *)
SecondTarget(p) == [kind |-> "r", by |-> <<p.target * 16, p.stop * 10>>]

(* RiskModel::from_profile.                                                *)
FromProfile(p) ==
  [stop |-> [kind |-> "atr", by |-> <<p.stop, 10>>],
   target1 |-> [kind |-> "atr", by |-> <<p.target, 10>>],
   target2 |-> SecondTarget(p)]

(* Signal::new refuses what has no risk or points the wrong way.           *)
SignalAccepts(entry, stop, target1, side) ==
  /\ AbsInt(entry - stop) > 0
  /\ IF side = "long" THEN stop < entry /\ target1 > entry
                      ELSE stop > entry /\ target1 < entry

-----------------------------------------------------------------------------
(* Mutant: the profit wins a bar that touches both barriers.               *)
TargetFirst(bar, target, stop, side) ==
  LET hitTarget == IF side = "long" THEN bar.high >= target ELSE bar.low <= target
      hitStop == IF side = "long" THEN bar.low <= stop ELSE bar.high >= stop
  IN  IF hitTarget THEN "target" ELSE IF hitStop THEN "stop" ELSE "none"

(* resolve_bar: the adverse barrier first.                                 *)
ResolveBar(bar, target, stop, side) ==
  LET hitTarget == IF side = "long" THEN bar.high >= target ELSE bar.low <= target
      hitStop == IF side = "long" THEN bar.low <= stop ELSE bar.high >= stop
  IN  IF hitStop THEN "stop" ELSE IF hitTarget THEN "target" ELSE "none"

(* Mutant: the scan starts at the entry bar itself.                        *)
FromEntryBar(entry) == entry

(* First touchable bar: the one after the entry.                           *)
FirstTouchable(entry) == entry + 1

(* label_one_with_risk: bars are numbered from 1.                          *)
Label(bars, entry, side, atr, risk, hold) ==
  IF hold < 1 \/ entry > Len(bars) \/ atr <= 0 THEN Unlabelable
  ELSE
  LET px == bars[entry].close
      dist == RiskDistance(risk, px, atr)
      stop == StopPrice(risk, px, atr, side)
      reach == Distance(risk.target1, px, atr, dist)
      target == px + Sign(side) * reach
      last == IF entry + hold <= Len(bars) THEN entry + hold ELSE Len(bars)
      j == SelectInSubSeq(bars, FirstTouchable(entry), last,
             LAMBDA b : ResolveBar(b, target, stop, side) # "none")
      event(exit, outcome, ret) ==
        [entry |-> entry, t1 |-> exit, side |-> side, entryPx |-> px, targetPx |-> target,
         stopPx |-> stop, outcome |-> outcome, ret |-> ret]
  IN  IF dist <= 0 THEN Unlabelable
      ELSE IF j = 0 THEN event(last, "time", <<Sign(side) * (bars[last].close - px), dist>>)
      ELSE IF ResolveBar(bars[j], target, stop, side) = "stop" THEN event(j, "stop", <<-dist, dist>>)
      ELSE event(j, "target", <<reach, dist>>)

-----------------------------------------------------------------------------
(* What one decision point means to the walk: the genome does not fire, or *)
(* it does, in an untradeable regime, without a usable ATR, or well.       *)
PointKinds == {"quiet", "regime", "no_atr", "ok"}

(* Mutant: the cooldown counts from a point that could not be labeled too. *)
CooldownFromAnyFire(walk, i) == [walk EXCEPT !.unlabelable = @ + 1, !.last = i]

SkipUnlabelable(walk, i) == [walk EXCEPT !.unlabelable = @ + 1]

(* `backtest`: the loop over the decision points, the last bar of which    *)
(* has no forward bar to resolve an entry with.                            *)
Walk(points, minHold) ==
  LET cooldown == IF minHold < 1 THEN 1 ELSE minHold
      turn(walk, i) ==
        IF (walk.last # 0 /\ i <= walk.last + cooldown) \/ points[i] = "quiet" THEN walk
        ELSE IF points[i] = "regime" THEN [walk EXCEPT !.regime = @ + 1]
        ELSE IF points[i] = "no_atr" \/ i + 1 > Len(points) THEN SkipUnlabelable(walk, i)
        ELSE [walk EXCEPT !.entries = @ \cup {i}, !.last = i]
  IN  FoldLeftDomain(turn, [last |-> 0, entries |-> {}, regime |-> 0, unlabelable |-> 0],
                     points)

(* Mutant: only labels with an endpoint in the era are purged.             *)
EndpointInEra(row, era) == row.ts \in era[1]..era[2] \/ row.t1 \in era[1]..era[2]

OverlapsEra(row, era) == row.ts <= era[2] /\ row.t1 >= era[1]

(* firewall_test_era.                                                      *)
Firewall(rows, era) ==
  LET sift(out, row) ==
        IF OverlapsEra(row, era) THEN [out EXCEPT !.purged = @ + 1]
        ELSE [out EXCEPT !.kept = Append(@, row)]
  IN  FoldLeft(sift, [kept |-> <<>>, purged |-> 0], rows)

-----------------------------------------------------------------------------
(* Mutant: the time exit forgets the side.                                 *)
TimeExitUnsigned(label) ==
  label.entryPx + Times(label.ret, AbsInt(label.entryPx - label.stopPx))

TimeExit(label) ==
  label.entryPx + Sign(label.side) * Times(label.ret, AbsInt(label.entryPx - label.stopPx))

(* reconstruct_exit_px.                                                    *)
ReconstructExit(label) ==
  CASE label.outcome = "target" -> label.targetPx
    [] label.outcome = "stop" -> label.stopPx
    [] OTHER -> TimeExit(label)

(* Mutant: losses are summed with their sign.                              *)
SignedLoss(ret) == ret

LossOf(ret) == -ret

(* TradeStats::push, over the returns of a replay.                         *)
TradeStats(rets) ==
  LET push(stats, ret) ==
        [total |-> stats.total + 1,
         wins |-> stats.wins + (IF ret > 0 THEN 1 ELSE 0),
         grossWin |-> stats.grossWin + (IF ret > 0 THEN ret ELSE 0),
         grossLoss |-> stats.grossLoss + (IF ret > 0 THEN 0 ELSE LossOf(ret)),
         sum |-> stats.sum + ret]
  IN  FoldLeft(push, [total |-> 0, wins |-> 0, grossWin |-> 0, grossLoss |-> 0, sum |-> 0],
               rets)

(* TradeStats::profit_factor, a zero denominator standing for +infinity.   *)
ProfitFactor(stats) ==
  IF stats.grossLoss > 0 THEN <<stats.grossWin, stats.grossLoss>> ELSE <<1, 0>>
-----------------------------------------------------------------------------
(* Whatever stop and target forms an operator or a mutation combines, a    *)
(* signal with some risk and some reward points the right way, and the     *)
(* short geometry is the mirror image of the long one.                     *)
GeometryPointsTheRightWay(risk, entry, atr, side) ==
  LET stop == StopPrice(risk, entry, atr, side)
      target == TargetPrice(risk.target1, risk, entry, atr, side)
      other == IF side = "long" THEN "short" ELSE "long"
  IN  /\ SignalAccepts(entry, stop, target, side) <=> (stop # entry /\ target # entry)
      /\ stop + StopPrice(risk, entry, atr, other) = 2 * entry

(* Every horizon's default geometry keeps the barriers of its profile: the *)
(* stop and the target of the labels, and a second target 1.6 times as far *)
(* as the first.                                                           *)
DefaultsKeepTheProfile(horizon, entry, atr, side) ==
  LET p == Profiles[horizon]
      risk == FromProfile(p)
      reach(target) == AbsInt(TargetPrice(target, risk, entry, atr, side) - entry)
  IN  /\ 10 * RiskDistance(risk, entry, atr) = p.stop * atr
      /\ 10 * reach(risk.target1) = p.target * atr
      /\ 10 * reach(risk.target2) = 16 * reach(risk.target1)

(* No look-ahead: a label is decided by the bars up to its t1, which is    *)
(* within the purge length of the entry and not the entry bar itself while *)
(* a later bar exists.  It can change with later bars only if it is a time *)
(* exit at the end of the data, before the holding period was over.        *)
LabelNeedsNoLaterBar(bars, entry, side, atr, risk, hold) ==
  LET label == Label(bars, entry, side, atr, risk, hold) IN
  label # Unlabelable =>
    /\ label.t1 \in entry..(entry + hold)
    /\ entry < Len(bars) => label.t1 > entry
    /\ \A n \in entry..Len(bars) :
         LET then == Label(SubSeq(bars, 1, n), entry, side, atr, risk, hold) IN
         then = label \/ (then.outcome = "time" /\ n < entry + hold /\ then.t1 = n)

(* The pessimist's label: it is a stop if the stop was touched no later    *)
(* than the target, and mirroring prices and side changes nothing.         *)
LabelIsPessimistic(bars, entry, side, atr, risk, hold, axis) ==
  LET mirrored == [i \in DOMAIN bars |-> [high |-> 2 * axis - bars[i].low,
                     low |-> 2 * axis - bars[i].high, close |-> 2 * axis - bars[i].close]]
      other == IF side = "long" THEN "short" ELSE "long"
      label == Label(bars, entry, side, atr, risk, hold)
      twin == Label(mirrored, entry, other, atr, risk, hold)
      beyond(px, i) == IF px < bars[entry].close THEN bars[i].low <= px
                       ELSE bars[i].high >= px
  IN  label # Unlabelable =>
        /\ label.outcome = "target" =>
             \A i \in (entry + 1)..label.t1 : ~beyond(label.stopPx, i)
        /\ bars[entry].close = axis =>
             <<label.outcome, label.t1, label.ret>> = <<twin.outcome, twin.t1, twin.ret>>

(* The walk is greedy: a point becomes an entry exactly when it could be   *)
(* one and no entry lies within the cooldown before it, and every firing   *)
(* point outside a cooldown is accounted for once.                         *)
WalkIsGreedy(points, minHold) ==
  LET walk == Walk(points, minHold)
      cooldown == IF minHold < 1 THEN 1 ELSE minHold
      free == {i \in DOMAIN points : \A e \in walk.entries : e < i => i > e + cooldown}
      fires == {i \in free : points[i] # "quiet"}
  IN  /\ walk.entries = {i \in free : points[i] = "ok" /\ i < Len(points)}
      /\ Cardinality(fires)
           = Cardinality(walk.entries) + walk.regime + walk.unlabelable

(* No row that is kept spans a day of the reserved era, be it by an        *)
(* endpoint or by straddling it, and none is purged for nothing.           *)
EraStaysUntouched(rows, era) ==
  LET result == Firewall(rows, era)
      spans(row) == \E d \in era[1]..era[2] : row.ts <= d /\ d <= row.t1
  IN  /\ \A i \in DOMAIN result.kept : ~spans(result.kept[i])
      /\ \A i \in DOMAIN rows : ~spans(rows[i]) => Contains(result.kept, rows[i])
      /\ result.purged + Len(result.kept) = Len(rows)

(* The exit price `se trades` reconstructs is the price the label exited   *)
(* at: the close of its last bar, or the barrier that was touched.         *)
ExitsAreReconstructed(bars, label) ==
  label # Unlabelable =>
    LET px == ReconstructExit(label) IN
    /\ label.outcome = "time" => px = bars[label.t1].close
    /\ Sign(label.side) * (px - label.entryPx) * label.ret[2]
         = label.ret[1] * AbsInt(label.entryPx - label.stopPx)

(* The tally is one of the same trades: gross wins less gross losses is    *)
(* the total, and the profit factor is above one exactly when it is gained.*)
TallyAddsUp(rets) ==
  LET stats == TradeStats(rets)
      pf == ProfitFactor(stats)
  IN  /\ stats.grossWin - stats.grossLoss = stats.sum
      /\ pf[2] > 0 => (pf[1] > pf[2] <=> stats.sum > 0)
      /\ pf[2] = 0 => \A i \in DOMAIN rets : rets[i] >= 0
=============================================================================
