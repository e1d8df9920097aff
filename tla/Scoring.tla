------------------------------ MODULE Scoring ------------------------------
(***************************************************************************)
(* From a labeled cohort to a verdict: the dataset of a genome over the    *)
(* universe and the shape of its validation (se-search, se-mlclient), the  *)
(* promotion gate (se-validation), the ranking and the Wilson bound        *)
(* (score.rs), the canonical signature of a genome and what it fires on    *)
(* (se-core).  Metrics are integers; a precision is <<wins, acted>>.       *)
(***************************************************************************)
EXTENDS Backtest

CONSTANT NoResult   \* no validation: it failed, or was never asked for

(* build_dataset: the walks of all windows, each row with its window's     *)
(* clock, behind the firewall.                                             *)
RowsOf(window, minHold, hold) ==
  LET entries == SetToSortSeq(Walk(window.points, minHold).entries, <)
  IN  [i \in DOMAIN entries |-> [ts |-> window.from + entries[i],
         t1 |-> window.from + Min({entries[i] + hold, Len(window.points)})]]

KeptRows(windows, minHold, hold, era) ==
  FlattenSeq([w \in DOMAIN windows |-> Firewall(RowsOf(windows[w], minHold, hold), era).kept])

(* Mutant: the rows of one ticker follow those of another.                 *)
Concatenated(rows) == rows

ByEntryTime(rows) == SortSeq(rows, LAMBDA a, b : a.ts < b.ts)

Dataset(windows, minHold, hold, era) == ByEntryTime(KeptRows(windows, minHold, hold, era))

(* write_dataset refuses no rows, and rows out of order.                   *)
Writable(rows) == rows # <<>> /\ \A i \in 1..(Len(rows) - 1) : rows[i].ts <= rows[i + 1].ts

(* Mutant: as many test groups as there are groups.                        *)
TestGroupsUpToAll(k, groups) == Max({Min({k, groups}), 1})

TestGroups(k, groups) == Max({Min({k, groups - 1}), 1})

(* score_oos and FoldSpec::from_profile: the shape of the validation.      *)
FoldSpec(nRows, config, profile) ==
  LET groups == Max({Min({config.groups, nRows}), 2})
  IN  [groups |-> groups, k |-> TestGroups(config.k, groups), embargo |-> profile.embargo,
       trials |-> Max({config.searchTrials, 1})]

-----------------------------------------------------------------------------
(* PromotionGate::evaluate, the metrics in percent.                        *)
Gate(v) ==
  LET failed == {reason \in {"dsr", "pbo", "expectancy", "regimes"} :
        \/ reason = "dsr" /\ v.dsr <= 0
        \/ reason = "pbo" /\ v.pbo >= 50
        \/ reason = "expectancy" /\ v.expectancy <= 0
        \/ reason = "regimes" /\ v.regimes < 2}
  IN  [passed |-> failed = {}, reasons |-> failed]

(* Mutant: an absent validation has nothing against it.                    *)
FailOpen(v) == IF v = NoResult THEN [passed |-> TRUE, reasons |-> {}] ELSE Gate(v)

(* evaluate_opt, evaluate_or_fail_closed: a failed validation has no       *)
(* result and does not pass.                                               *)
GateOpt(v) == IF v = NoResult THEN [passed |-> FALSE, reasons |-> {"no result"}] ELSE Gate(v)

(* OosScore::rank_key.                                                     *)
RankKey(score) ==
  <<IF score.passed THEN 1 ELSE 0, score.expectancy, score.dsr, -score.pbo>>

(* cmp_best_first.                                                         *)
Outranks(a, b) ==
  \E i \in 1..4 : /\ RankKey(a)[i] > RankKey(b)[i]
                  /\ \A j \in 1..(i - 1) : RankKey(a)[j] = RankKey(b)[j]

(* EvolveOutcome::evaluated: every evaluation of the run, best first, the  *)
(* unscored ones last, equals in the order they were made.                 *)
Ranked(run) ==
  LET before(i, j) ==
        \/ run[i].score # NoResult /\ run[j].score = NoResult
        \/ run[i].score # NoResult /\ run[j].score # NoResult /\ Outranks(run[i].score, run[j].score)
        \/ /\ run[i].score = NoResult <=> run[j].score = NoResult
           /\ run[i].score # NoResult => ~Outranks(run[j].score, run[i].score)
           /\ i < j
      order == SetToSortSeq(DOMAIN run, before)
  IN  [n \in DOMAIN order |-> run[order[n]]]

(* EvolveOutcome::leaderboard.                                             *)
Leaderboard(run, n) ==
  LET scored == SelectSeq(Ranked(run), LAMBDA e : e.score # NoResult)
  IN  SubSeq(scored, 1, Min({n, Len(scored)}))

(* Mutant: a later entry for the same id replaces the earlier one.         *)
LastOf(entries, id) == SelectLastInSeq(entries, LAMBDA e : e.id = id)

FirstOf(entries, id) == SelectInSeq(entries, LAMBDA e : e.id = id)

(* EvolveOutcome::best_scores: the first entry of an id is its best.       *)
BestScores(run) ==
  LET scored == Leaderboard(run, Len(run))
  IN  [id \in {scored[i].id : i \in DOMAIN scored} |-> scored[FirstOf(scored, id)].score]

-----------------------------------------------------------------------------
(* wilson_lower_bound >= 9/20 with z squared 38/10, over wins of acted     *)
(* trades: both sides are multiplied by 400 and by n, and squared.         *)
Centre(wins, n) == 400 * wins + 760 - 18 * (10 * n + 38)

Margin2(wins, n) == 400 * 38 * (40 * wins * (n - wins) + 38 * n)

(* Mutant: the point estimate is compared with the floor.                  *)
PointEstimate(wins, n) == n > 0 /\ 20 * wins >= 9 * n

WilsonClears(wins, n) ==
  n > 0 /\ Centre(wins, n) >= 0 /\ n * Centre(wins, n) * Centre(wins, n) >= Margin2(wins, n)

(* Mutant: the reward alone is the denominator.                            *)
OfReward(reward) == reward

OfRewardAndRisk(reward) == reward + 10

(* from_cohort: the hit rate at which the expectancy E, in tenths of R, is *)
(* earned with reward to risk b, clamped to [0, 1], as <<n, d>>.           *)
CohortConviction(e, b) ==
  LET reward == IF b > 0 THEN b ELSE 10
      whole == OfRewardAndRisk(reward)
  IN  <<Max({0, Min({e + 10, whole})}), whole>>

-----------------------------------------------------------------------------
(* Thresholds and the figures of a risk model in quarters of the step they *)
(* are rounded to in a signature, halves away from zero.                   *)
RoundThreshold(t) == Sign(IF t < 0 THEN "short" ELSE "long") * ((AbsInt(t) + 2) \div 4)

(* CmpOp::apply.                                                           *)
Holds(p, value) ==
  CASE p.op = "gt" -> value > p.threshold
    [] p.op = "lt" -> value < p.threshold
    [] p.op = "gte" -> value >= p.threshold
    [] p.op = "lte" -> value <= p.threshold

(* Genome::fires: a missing feature satisfies nothing, no predicate fires  *)
(* on nothing.                                                             *)
Fires(genome, features) ==
  /\ genome.predicates # <<>>
  /\ \A i \in DOMAIN genome.predicates :
       LET p == genome.predicates[i] IN p.key \in DOMAIN features /\ Holds(p, features[p.key])

(* Mutant: the comparison is not part of the token.                        *)
KeyToken(p) == <<p.key, RoundThreshold(p.threshold)>>

Token(p) == <<p.key, p.op, RoundThreshold(p.threshold)>>

(* RiskModel::describe; a second target is there or not.                   *)
Described(risk) == [b \in DOMAIN risk |-> <<risk[b].kind, RoundThreshold(risk[b].by)>>]

(* genome_signature: sorted tokens are a bag.                              *)
Signature(genome) ==
  LET tokens == {Token(genome.predicates[i]) : i \in DOMAIN genome.predicates}
  IN  [side |-> genome.side, horizon |-> genome.horizon, risk |-> Described(genome.risk),
       predicates |-> [t \in tokens |->
         Cardinality({i \in DOMAIN genome.predicates : Token(genome.predicates[i]) = t})]]
-----------------------------------------------------------------------------
(* Whatever windows the tickers contribute, a cohort that is not empty can *)
(* be written for the worker.                                              *)
CohortIsWritable(windows, minHold, hold, era) ==
  LET rows == Dataset(windows, minHold, hold, era) IN rows # <<>> => Writable(rows)

(* The folds of a cohort of nRows leave a training group and a test group, *)
(* embargoed for less than a label can last.                               *)
FoldsHaveTwoSides(nRows, config, horizon) ==
  LET fold == FoldSpec(nRows, config, Profiles[horizon]) IN
  /\ nRows >= 2 => fold.groups \in 2..nRows
  /\ 1 <= fold.k /\ fold.k < fold.groups
  /\ fold.embargo <= PurgeBars(horizon)

(* In whatever order the evaluations came, the leaderboard is of this run, *)
(* its first entry is one that no evaluation outranks, so are the best     *)
(* scores by id, and a strategy the gate refused is never above one that   *)
(* passed.  Whether a strategy stands on it once is a matter of the run    *)
(* (LeaderboardShowsEachOnce of Search).                                   *)
LeaderboardShowsTheBest(run) ==
  LET board == Leaderboard(run, Len(run))
      scored == {i \in DOMAIN run : run[i].score # NoResult}
  IN  /\ ToSet(board) \subseteq {run[i] : i \in scored}
      /\ scored # {} =>
           board # <<>> /\ \A i \in scored : ~Outranks(run[i].score, board[1].score)
      /\ \A i \in scored : ~Outranks(run[i].score, BestScores(run)[run[i].id])
      /\ \A i, j \in DOMAIN board :
           i < j /\ board[j].score.expectancy > board[i].score.expectancy =>
             board[i].score.passed /\ ~board[j].score.passed

(* The precision floor is one of evidence: it is the score test at the     *)
(* floor, a cohort twice as large with the same precision clears it if the *)
(* smaller did, and a coin flip never clears it on eight trades.           *)
FloorNeedsEvidence(wins, n) ==
  LET gap == 20 * wins - 9 * n IN
  /\ WilsonClears(wins, n) <=> (n > 0 /\ gap >= 0 /\ 10 * gap * gap >= 38 * 99 * n)
  /\ WilsonClears(wins, n) => WilsonClears(2 * wins, 2 * n) /\ WilsonClears(wins + 1, n + 1)
  /\ n = 8 /\ WilsonClears(wins, n) => 2 * wins > n

(* A better validation never loses what a worse one was granted, and a     *)
(* failed one is granted nothing: it fails with a reason.                  *)
GateIsMonotone(v, w) ==
  /\ GateOpt(v).passed <=> GateOpt(v).reasons = {}
  /\ v = NoResult => ~GateOpt(v).passed
  /\ (v # NoResult /\ w # NoResult) =>
       (v.dsr <= w.dsr /\ v.pbo >= w.pbo /\ v.expectancy <= w.expectancy /\ v.regimes <= w.regimes
          => GateOpt(w).reasons \subseteq GateOpt(v).reasons)

(* A signature is what a genome does: the order of the predicates does not *)
(* matter, and genomes that share one decide alike on every observation    *)
(* that is not within a rounding step of a threshold, and have barriers of *)
(* one kind, within a rounding step of each other.                         *)
SignatureIsBehaviour(g, h, features) ==
  LET clear(genome) == \A i \in DOMAIN genome.predicates :
        LET p == genome.predicates[i] IN
        p.key \in DOMAIN features => AbsInt(features[p.key] - p.threshold) > 4
  IN  /\ Signature(g) = Signature([g EXCEPT !.predicates = Reverse(@)])
      /\ Signature(g) = Signature(h) /\ clear(g) /\ clear(h) =>
           g.side = h.side /\ (Fires(g, features) <=> Fires(h, features))
      /\ Signature(g) = Signature(h) =>
           /\ g.horizon = h.horizon /\ DOMAIN g.risk = DOMAIN h.risk
           /\ \A b \in DOMAIN g.risk :
                g.risk[b].kind = h.risk[b].kind /\ AbsInt(g.risk[b].by - h.risk[b].by) <= 3

(* The conviction shown for a strategy without a measured precision is the *)
(* hit rate that earns its expectancy: p b - (1 - p) = E inside [0, 1].    *)
ConvictionEarnsTheExpectancy(e, b) ==
  LET p == CohortConviction(e, b) IN
  /\ 0 <= p[1] /\ p[1] <= p[2]
  /\ b > 0 /\ 0 < p[1] /\ p[1] < p[2] => p[1] * b - (p[2] - p[1]) * 10 = e * p[2]
=============================================================================
