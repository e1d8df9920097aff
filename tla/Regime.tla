------------------------------- MODULE Regime -------------------------------
(***************************************************************************)
(* The rule-based regime classifier (se-regime): votes of the observed     *)
(* signals for six labels, a softmax over the labels voted for, and the    *)
(* two ways out, transition and out_of_distribution.  A signal is at one   *)
(* of the levels the thresholds of ClassifierConfig cut its range into.    *)
(* Evidence is in twentieths of a vote.                                    *)
(***************************************************************************)
EXTENDS Integers, Sequences, FiniteSets, FiniteSetsExt, SequencesExt

Levels == {"absent", "out", "low", "mid", "high"}

CoreSignals == {"rv_percentile", "vix_vix3m", "vvix", "rv20", "copper_gold", "dxy_trend"}

Enveloped == {"rv_percentile", "vix_vix3m", "vix9d_vix", "vvix", "rv20"}

Signals == CoreSignals \cup Enveloped \cup {"hy_oas", "gex_sign"}

(* RegimeLabel, in the order of the enum, without the two ways out.        *)
Ordered ==
  <<"short_gamma", "long_gamma", "vol_expansion", "vol_compression", "risk_off", "risk_on">>

Labels == ToSet(Ordered)

Vote(signal, level, weight) == [signal |-> signal, level |-> level, weight |-> weight]

Backwardation(weight) == Vote("vix_vix3m", "high", weight)

Contango(weight) == Vote("vix_vix3m", "low", weight)

(* The votes of classify for the volatility and risk labels.               *)
Votes ==
  [vol_expansion |-> {Vote("rv_percentile", "high", 20), Backwardation(20), Vote("vvix", "high", 10)},
   vol_compression |-> {Vote("rv_percentile", "low", 20), Contango(20), Vote("vvix", "low", 10)},
   risk_off |-> {Vote("hy_oas", "high", 30), Backwardation(15), Vote("copper_gold", "low", 15),
                 Vote("dxy_trend", "high", 10), Vote("rv_percentile", "high", 10)},
   risk_on |-> {Vote("hy_oas", "low", 30), Contango(15), Vote("copper_gold", "high", 15),
                Vote("dxy_trend", "low", 10), Vote("rv_percentile", "low", 10)}]

(* The sign of the gamma exposure when it is wired, else a proxy.          *)
Stressed(f) == (f["rv_percentile"] = "high" \/ f["vix_vix3m"] = "high") /\ f["vvix"] = "high"

Calm(f) == \A s \in {"rv_percentile", "vix_vix3m", "vvix"} : f[s] = "low"

GammaEvidence(f, label) ==
  LET short == label = "short_gamma"
      proxy == IF short THEN Stressed(f) ELSE Calm(f)
  IN  CASE f["gex_sign"] = "absent" -> IF proxy THEN 12 ELSE 0
        [] OTHER -> IF short <=> f["gex_sign"] = "low" THEN 40 ELSE 0

(* Mutant: a rising dollar counts for risk as it does against it.          *)
EvidenceDollarTwice(f, label) ==
  IF label \in DOMAIN Votes
    THEN MapThenSumSet(LAMBDA v : v.weight,
           {v \in Votes[label] : f[v.signal] \in (IF v.signal = "dxy_trend" THEN {"high"} ELSE {v.level})})
    ELSE GammaEvidence(f, label)

Evidence(f, label) ==
  IF label \in DOMAIN Votes
    THEN MapThenSumSet(LAMBDA v : v.weight, {v \in Votes[label] : f[v.signal] = v.level})
    ELSE GammaEvidence(f, label)

(* The out-of-distribution gate: min_core_inputs and out_of_bounds.        *)
OutOfDistribution(f) ==
  \/ Cardinality({s \in CoreSignals : f[s] # "absent"}) < 3
  \/ \E s \in Enveloped : f[s] = "out"

(* softmax, at the temperature 0.6: exp(-d / 12), in ten-thousandths.      *)
Exp[d \in 0..80] == IF d = 0 THEN 10000 ELSE (Exp[d - 1] * 92004) \div 100000

(* Mutant: only the labels of volatility are known to be opposed.          *)
OpposedVolatility(a, b) == {a, b} = {"vol_expansion", "vol_compression"}

Opposed(a, b) ==
  {a, b} \in {{"vol_expansion", "vol_compression"}, {"risk_off", "risk_on"},
              {"short_gamma", "long_gamma"}}

(* classify: the label with the most evidence, the first in the order of   *)
(* the enum among equals, unless the second is within 8 points of          *)
(* probability and its opposite.                                           *)
Classify(f) ==
  LET evidence == [l \in Labels |-> Evidence(f, l)]
      ranked == SortSeq(SelectSeq(Ordered, LAMBDA l : evidence[l] > 0),
                        LAMBDA a, b : evidence[a] > evidence[b])
      weight(l) == Exp[evidence[ranked[1]] - evidence[l]]
      total == MapThenSumSet(weight, ToSet(ranked))
  IN  IF OutOfDistribution(f) THEN "out_of_distribution"
      ELSE IF ranked = <<>> THEN "transition"
      ELSE IF /\ Len(ranked) >= 2
              /\ 100 * (weight(ranked[1]) - weight(ranked[2])) <= 8 * total
              /\ Opposed(ranked[1], ranked[2])
             THEN "transition"
      ELSE ranked[1]

-----------------------------------------------------------------------------
OppositeLabel ==
  [short_gamma |-> "long_gamma", long_gamma |-> "short_gamma", vol_expansion |-> "vol_compression",
   vol_compression |-> "vol_expansion", risk_off |-> "risk_on", risk_on |-> "risk_off"]

(* A coin is never flipped: no label has more evidence than the one given, *)
(* and its opposite has less, whichever labels of the other families rank  *)
(* between them.                                                           *)
LabelIsUndisputed(f) ==
  LET label == Classify(f)
  IN  label \in Labels =>
        /\ \A l \in Labels : Evidence(f, l) <= Evidence(f, label)
        /\ Evidence(f, OppositeLabel[label]) < Evidence(f, label)

Inverted(level) ==
  CASE level = "low" -> "high" [] level = "high" -> "low" [] OTHER -> level

Mirror(f) == [s \in Signals |-> Inverted(f[s])]

MirrorLabel(label) ==
  IF label \in Labels THEN OppositeLabel[label] ELSE label

(* Calm is judged as stress is: with every signal on the other side, the   *)
(* label is the opposite one, ties between families included.  (The proxy  *)
(* for short gamma asks for less than the one for long gamma.)             *)
CalmMirrorsStress(f) == Classify(Mirror(f)) = MirrorLabel(Classify(f))

=============================================================================
