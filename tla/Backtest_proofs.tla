--------------------------- MODULE Backtest_proofs ---------------------------
(***************************************************************************)
(* Proofs about the labels and the cohort a genome is judged by, for bars, *)
(* entries, risk models, ranges and holding times of every size: the label *)
(* itself, the greedy walk over the firings, the tallies of its trades and *)
(* the firewall of the reserved era.  Folds over sequences are reasoned    *)
(* about through the sets of positions folded so far.                      *)
(***************************************************************************)
EXTENDS Backtest, FiniteSetTheorems, FunctionTheorems, SequenceTheorems, WellFoundedInduction, TLAPS

PriceBar == [high : Int, low : Int, close : Int]

Fractions == Int \X (Nat \ {0})

(* StopSpec and TargetSpec: a target may also be a multiple of the stop.   *)
StopSpec == [kind : {"atr", "fixed", "pct"}, by : Fractions]
TargetSpec == [kind : {"atr", "fixed", "pct", "r"}, by : Fractions]

IsRisk(risk) == risk.stop \in StopSpec /\ risk.target1 \in TargetSpec

LEMMA TimesIsInt ==
  ASSUME NEW frac \in Fractions, NEW x \in Int
  PROVE  Times(frac, x) \in Int
BY DEF Times, Fractions

LEMMA DistanceIsNat ==
  ASSUME NEW spec \in TargetSpec, NEW entry \in Int, NEW atr \in Int, NEW risk \in Int
  PROVE  Distance(spec, entry, atr, risk) \in Nat
<1>1. /\ spec.by \in Fractions
      /\ \/ spec.kind = "atr" \/ spec.kind = "fixed" \/ spec.kind = "pct" \/ spec.kind = "r"
  BY DEF TargetSpec
<1>2. /\ Times(spec.by, atr) \in Int /\ Times(spec.by, 1) \in Int
      /\ Times(spec.by, entry) \in Int /\ Times(spec.by, risk) \in Int
  BY <1>1, TimesIsInt
<1>3. Times(spec.by, entry) \div 100 \in Int
  BY <1>2
<1>4. \A x \in Int : AbsInt(x) \in Nat
  BY DEF AbsInt
<1> QED
  BY <1>1, <1>2, <1>3, <1>4 DEF Distance

LEMMA RiskDistanceIsNat ==
  ASSUME NEW risk, IsRisk(risk), NEW entry \in Int, NEW atr \in Int
  PROVE  RiskDistance(risk, entry, atr) \in Nat
<1>1. risk.stop \in TargetSpec
  BY DEF IsRisk, StopSpec, TargetSpec
<1> QED
  BY <1>1, DistanceIsNat DEF RiskDistance

(* risk.rs: whatever stop and target forms are combined, a signal with     *)
(* some risk and some reward points the right way, and the short geometry  *)
(* mirrors the long one.                                                   *)
THEOREM EveryGeometryPointsTheRightWay ==
  ASSUME NEW risk, IsRisk(risk), NEW entry \in Int, NEW atr \in Int,
         NEW side \in {"long", "short"}
  PROVE  GeometryPointsTheRightWay(risk, entry, atr, side)
<1> DEFINE d == RiskDistance(risk, entry, atr)
<1> DEFINE r == Distance(risk.target1, entry, atr, d)
<1>1. d \in Nat
  BY RiskDistanceIsNat
<1>2. r \in Nat
  BY <1>1, DistanceIsNat DEF IsRisk
<1>3. /\ \A s : StopPrice(risk, entry, atr, s) = entry - Sign(s) * d
      /\ TargetPrice(risk.target1, risk, entry, atr, side) = entry + Sign(side) * r
  BY DEF StopPrice, TargetPrice
<1> HIDE DEF d, r
<1>4. CASE side = "long"
  <2>1. /\ StopPrice(risk, entry, atr, side) = entry - d
        /\ StopPrice(risk, entry, atr, "short") = entry + d
        /\ TargetPrice(risk.target1, risk, entry, atr, side) = entry + r
    BY <1>1, <1>2, <1>3, <1>4 DEF Sign
  <2> QED
    BY <1>1, <1>2, <1>4, <2>1 DEF GeometryPointsTheRightWay, SignalAccepts, AbsInt
<1>5. CASE side = "short"
  <2>1. /\ StopPrice(risk, entry, atr, side) = entry + d
        /\ StopPrice(risk, entry, atr, "long") = entry - d
        /\ TargetPrice(risk.target1, risk, entry, atr, side) = entry - r
    BY <1>1, <1>2, <1>3, <1>5 DEF Sign
  <2> QED
    BY <1>1, <1>2, <1>5, <2>1 DEF GeometryPointsTheRightWay, SignalAccepts, AbsInt
<1> QED
  BY <1>4, <1>5

-----------------------------------------------------------------------------
LEMMA NatIsWellFounded == IsWellFoundedOn({ss \in Nat \X Nat : ss[1] < ss[2]}, Nat)
BY NatLessThanWellFounded DEF OpToRel

LEMMA SmallestExists ==
  ASSUME NEW S \in SUBSET Nat, S # {}
  PROVE  Min(S) \in S /\ \A y \in S : Min(S) <= y
<1> DEFINE R == {ss \in Nat \X Nat : ss[1] < ss[2]}
<1>1. IsWellFoundedOn(R, Nat)
  BY NatIsWellFounded
<1>2. \A x, y \in Nat : <<y, x>> \in R <=> y < x
  OBVIOUS
<1> HIDE DEF R
<1>3. \E x \in S : \A y \in S : ~(<<y, x>> \in R)
  BY <1>1, WFMin
<1>4. PICK x \in S : \A y \in S : ~(<<y, x>> \in R)
  BY <1>3
<1>5. \A y \in S : x <= y
  <2> SUFFICES ASSUME NEW y \in S PROVE x <= y
    OBVIOUS
  <2>1. x \in Nat /\ y \in Nat
    OBVIOUS
  <2>2. ~(y < x)
    BY <1>2, <1>4, <2>1
  <2> QED
    BY <2>1, <2>2
<1> QED
  BY <1>5 DEF Min

(* What the labeler makes of bar i, for the entry it labels.               *)
StopOf(bars, entry, side, atr, risk) == StopPrice(risk, bars[entry].close, atr, side)

Reach(bars, entry, atr, risk) ==
  Distance(risk.target1, bars[entry].close, atr, RiskDistance(risk, bars[entry].close, atr))

TargetOf(bars, entry, side, atr, risk) ==
  bars[entry].close + Sign(side) * Reach(bars, entry, atr, risk)

Outcome(bars, entry, side, atr, risk, i) ==
  ResolveBar(bars[i], TargetOf(bars, entry, side, atr, risk),
             StopOf(bars, entry, side, atr, risk), side)

EventAt(bars, entry, side, atr, risk, exit, outcome, ret) ==
  [entry |-> entry, t1 |-> exit, side |-> side, entryPx |-> bars[entry].close,
   targetPx |-> TargetOf(bars, entry, side, atr, risk),
   stopPx |-> StopOf(bars, entry, side, atr, risk), outcome |-> outcome, ret |-> ret]

Dist(bars, entry, atr, risk) == RiskDistance(risk, bars[entry].close, atr)

(* The bar of the time barrier, and the first bar that touches a barrier.  *)
LastBar(bars, entry, hold) == IF entry + hold <= Len(bars) THEN entry + hold ELSE Len(bars)

FirstTouch(bars, entry, side, atr, risk, hold) ==
  SelectInSubSeq(bars, entry + 1, LastBar(bars, entry, hold),
    LAMBDA b : ResolveBar(b, TargetOf(bars, entry, side, atr, risk),
                          StopOf(bars, entry, side, atr, risk), side) # "none")

LEMMA LabelUnfolds ==
  ASSUME NEW bars, NEW entry, NEW side, NEW atr, NEW risk, NEW hold,
         ~(hold < 1 \/ entry > Len(bars) \/ atr <= 0), ~(Dist(bars, entry, atr, risk) <= 0)
  PROVE  LET j == FirstTouch(bars, entry, side, atr, risk, hold)
             last == LastBar(bars, entry, hold)
             d == Dist(bars, entry, atr, risk)
         IN  Label(bars, entry, side, atr, risk, hold) =
               IF j = 0 THEN EventAt(bars, entry, side, atr, risk, last, "time",
                               <<Sign(side) * (bars[last].close - bars[entry].close), d>>)
               ELSE IF Outcome(bars, entry, side, atr, risk, j) = "stop"
                 THEN EventAt(bars, entry, side, atr, risk, j, "stop", <<-d, d>>)
               ELSE EventAt(bars, entry, side, atr, risk, j, "target",
                            <<Reach(bars, entry, atr, risk), d>>)
BY DEF Label, FirstTouch, LastBar, Dist, Outcome, EventAt, Reach, StopOf, TargetOf,
       FirstTouchable, SelectInSubSeq

(* An entry that can be labeled.                                           *)
Labelable(bars, entry, side, atr, risk, hold) ==
  /\ bars \in Seq(PriceBar) /\ entry \in 1..Len(bars) /\ side \in {"long", "short"}
  /\ atr \in Nat \ {0} /\ hold \in Nat \ {0} /\ IsRisk(risk)
  /\ Dist(bars, entry, atr, risk) > 0

(* What has no label cannot be traded; what has one could be labeled.      *)
LEMMA LabeledIsLabelable ==
  ASSUME NEW bars \in Seq(PriceBar), NEW entry \in Nat \ {0}, NEW side \in {"long", "short"},
         NEW atr \in Int, NEW risk, IsRisk(risk), NEW hold \in Int,
         Label(bars, entry, side, atr, risk, hold) # Unlabelable
  PROVE  Labelable(bars, entry, side, atr, risk, hold)
<1>1. ~(hold < 1 \/ entry > Len(bars) \/ atr <= 0)
  BY DEF Label
<1>2. ~(Dist(bars, entry, atr, risk) <= 0)
  BY DEF Label, Dist
<1>3. Len(bars) \in Nat
  BY LenProperties
<1>4. entry \in 1..Len(bars) /\ atr \in Nat \ {0} /\ hold \in Nat \ {0}
  BY <1>1, <1>3
<1>5. bars[entry] \in PriceBar
  BY <1>4, ElementOfSeq
<1>6. Dist(bars, entry, atr, risk) \in Nat
  BY <1>5, RiskDistanceIsNat DEF PriceBar, Dist
<1> QED
  BY <1>2, <1>4, <1>6 DEF Labelable

(* The scan stops at the first bar that touches a barrier, or at none.     *)
LEMMA FirstTouchIsFirst ==
  ASSUME NEW bars, NEW entry, NEW side, NEW atr, NEW risk, NEW hold,
         Labelable(bars, entry, side, atr, risk, hold)
  PROVE  LET j == FirstTouch(bars, entry, side, atr, risk, hold)
             last == LastBar(bars, entry, hold)
         IN  /\ last \in entry..(entry + hold) /\ last <= Len(bars)
             /\ (last = entry + hold \/ last = Len(bars))
             /\ \/ /\ j = 0
                   /\ \A i \in (entry + 1)..last : Outcome(bars, entry, side, atr, risk, i) = "none"
                \/ /\ j \in (entry + 1)..last
                   /\ Outcome(bars, entry, side, atr, risk, j) # "none"
                   /\ \A i \in (entry + 1)..(j - 1) :
                        Outcome(bars, entry, side, atr, risk, i) = "none"
<1> DEFINE last == LastBar(bars, entry, hold)
<1> DEFINE I == {i \in (entry + 1)..last : Outcome(bars, entry, side, atr, risk, i) # "none"}
<1> DEFINE j == FirstTouch(bars, entry, side, atr, risk, hold)
<1>1. Len(bars) \in Nat /\ entry \in 1..Len(bars) /\ hold \in Nat \ {0}
  BY LenProperties DEF Labelable
<1>2. last \in entry..(entry + hold) /\ last <= Len(bars) /\ (last = entry + hold \/ last = Len(bars))
  BY <1>1 DEF LastBar
<1>3. j = IF I # {} THEN Min(I) ELSE 0
  BY DEF FirstTouch, SelectInSubSeq, Outcome
<1> HIDE DEF j, last
<1>4. CASE I = {}
  BY <1>2, <1>3, <1>4 DEF last, j
<1>5. CASE I # {}
  <2>1. I \in SUBSET Nat
    BY <1>1, <1>2
  <2>2. j \in I /\ \A y \in I : j <= y
    BY <1>3, <1>5, <2>1, SmallestExists
  <2>3. \A i \in (entry + 1)..(j - 1) : Outcome(bars, entry, side, atr, risk, i) = "none"
    BY <1>1, <1>2, <2>2
  <2> QED
    BY <1>2, <2>2, <2>3 DEF last, j
<1> QED
  BY <1>4, <1>5

(* A prefix that holds the entry is read alike as far as it goes.          *)
LEMMA PrefixReadsAlike ==
  ASSUME NEW bars, NEW entry, NEW side, NEW atr, NEW risk, NEW hold,
         Labelable(bars, entry, side, atr, risk, hold),
         NEW n \in entry..Len(bars)
  PROVE  LET past == SubSeq(bars, 1, n)
         IN  /\ Labelable(past, entry, side, atr, risk, hold)
             /\ Len(past) = n /\ \A i \in 1..n : past[i] = bars[i]
             /\ \A i \in 1..n : Outcome(past, entry, side, atr, risk, i)
                                 = Outcome(bars, entry, side, atr, risk, i)
             /\ \A exit, outcome, ret :
                  EventAt(past, entry, side, atr, risk, exit, outcome, ret)
                    = EventAt(bars, entry, side, atr, risk, exit, outcome, ret)
             /\ Dist(past, entry, atr, risk) = Dist(bars, entry, atr, risk)
             /\ Reach(past, entry, atr, risk) = Reach(bars, entry, atr, risk)
<1> DEFINE past == SubSeq(bars, 1, n)
<1>1. /\ bars \in Seq(PriceBar) /\ Len(bars) \in Nat /\ entry \in 1..Len(bars)
      /\ n \in Int /\ 1 <= entry /\ entry <= n /\ n <= Len(bars)
  BY LenProperties DEF Labelable
<1>2. \A i \in 1..n : bars[i] \in PriceBar
  BY <1>1, ElementOfSeq
<1>3. past \in Seq(PriceBar) /\ Len(past) = n /\ \A i \in 1..n : past[i] = bars[i]
  <2>1. /\ past \in Seq(PriceBar)
        /\ Len(past) = IF 1 <= n THEN n - 1 + 1 ELSE 0
        /\ \A i \in 1..(n - 1 + 1) : past[i] = bars[1 + i - 1]
    BY <1>1, <1>2, SubSeqProperties
  <2> HIDE DEF past
  <2> QED
    BY <1>1, <2>1
<1> HIDE DEF past
<1>4. past[entry] = bars[entry]
  BY <1>1, <1>3
<1>5. /\ Dist(past, entry, atr, risk) = Dist(bars, entry, atr, risk)
      /\ Reach(past, entry, atr, risk) = Reach(bars, entry, atr, risk)
      /\ StopOf(past, entry, side, atr, risk) = StopOf(bars, entry, side, atr, risk)
  BY <1>4 DEF Dist, Reach, StopOf
<1>6. TargetOf(past, entry, side, atr, risk) = TargetOf(bars, entry, side, atr, risk)
  BY <1>4, <1>5 DEF TargetOf
<1>7. \A i \in 1..n : Outcome(past, entry, side, atr, risk, i)
                       = Outcome(bars, entry, side, atr, risk, i)
  BY <1>3, <1>5, <1>6 DEF Outcome
<1>8. \A exit, outcome, ret :
        EventAt(past, entry, side, atr, risk, exit, outcome, ret)
          = EventAt(bars, entry, side, atr, risk, exit, outcome, ret)
  BY <1>4, <1>5, <1>6 DEF EventAt
<1>9. Labelable(past, entry, side, atr, risk, hold)
  BY <1>1, <1>3, <1>5 DEF Labelable
<1> QED
  BY <1>3, <1>5, <1>7, <1>8, <1>9 DEF past

LEMMA LabelAsScanned ==
  ASSUME NEW bars, NEW entry, NEW side, NEW atr, NEW risk, NEW hold,
         Labelable(bars, entry, side, atr, risk, hold)
  PROVE  LET j == FirstTouch(bars, entry, side, atr, risk, hold)
             last == LastBar(bars, entry, hold)
             d == Dist(bars, entry, atr, risk)
         IN  Label(bars, entry, side, atr, risk, hold) =
               IF j = 0 THEN EventAt(bars, entry, side, atr, risk, last, "time",
                               <<Sign(side) * (bars[last].close - bars[entry].close), d>>)
               ELSE IF Outcome(bars, entry, side, atr, risk, j) = "stop"
                 THEN EventAt(bars, entry, side, atr, risk, j, "stop", <<-d, d>>)
               ELSE EventAt(bars, entry, side, atr, risk, j, "target",
                            <<Reach(bars, entry, atr, risk), d>>)
<1>1. Len(bars) \in Nat /\ bars[entry] \in PriceBar
  BY LenProperties, ElementOfSeq DEF Labelable
<1>2. Dist(bars, entry, atr, risk) \in Nat
  BY <1>1, RiskDistanceIsNat DEF Labelable, Dist, PriceBar
<1>3. ~(hold < 1 \/ entry > Len(bars) \/ atr <= 0) /\ ~(Dist(bars, entry, atr, risk) <= 0)
  BY <1>1, <1>2 DEF Labelable
<1> QED
  BY <1>3, LabelUnfolds

(* triple_barrier.rs: no look-ahead.  The label of any entry of any series *)
(* is decided by the bars up to its t1, within the holding time; only a    *)
(* time exit at the end of the data can change as more bars arrive.        *)
THEOREM NoLabelLooksAhead ==
  ASSUME NEW bars \in Seq(PriceBar), NEW entry \in Nat \ {0}, NEW side \in {"long", "short"},
         NEW atr \in Int, NEW risk, IsRisk(risk), NEW hold \in Int
  PROVE  LabelNeedsNoLaterBar(bars, entry, side, atr, risk, hold)
<1> DEFINE label == Label(bars, entry, side, atr, risk, hold)
<1> DEFINE then(n) == Label(SubSeq(bars, 1, n), entry, side, atr, risk, hold)
<1> SUFFICES ASSUME label # Unlabelable
             PROVE  /\ label.t1 \in entry..(entry + hold)
                    /\ entry < Len(bars) => label.t1 > entry
                    /\ \A n \in entry..Len(bars) :
                         then(n) = label \/ (then(n).outcome = "time" /\ n < entry + hold
                                             /\ then(n).t1 = n)
  BY DEF LabelNeedsNoLaterBar
<1> DEFINE j == FirstTouch(bars, entry, side, atr, risk, hold)
<1> DEFINE last == LastBar(bars, entry, hold)
<1>1. Labelable(bars, entry, side, atr, risk, hold)
  BY LabeledIsLabelable
<1>2. Len(bars) \in Nat /\ entry \in 1..Len(bars) /\ hold \in Nat \ {0}
  BY <1>1, LenProperties DEF Labelable
<1>3. /\ last \in entry..(entry + hold) /\ last <= Len(bars)
      /\ (last = entry + hold \/ last = Len(bars))
      /\ \/ /\ j = 0
            /\ \A i \in (entry + 1)..last : Outcome(bars, entry, side, atr, risk, i) = "none"
         \/ /\ j \in (entry + 1)..last
            /\ Outcome(bars, entry, side, atr, risk, j) # "none"
            /\ \A i \in (entry + 1)..(j - 1) : Outcome(bars, entry, side, atr, risk, i) = "none"
  BY <1>1, FirstTouchIsFirst
<1>4. label = IF j = 0 THEN EventAt(bars, entry, side, atr, risk, last, "time",
                              <<Sign(side) * (bars[last].close - bars[entry].close),
                                Dist(bars, entry, atr, risk)>>)
              ELSE IF Outcome(bars, entry, side, atr, risk, j) = "stop"
                THEN EventAt(bars, entry, side, atr, risk, j, "stop",
                             <<-Dist(bars, entry, atr, risk), Dist(bars, entry, atr, risk)>>)
              ELSE EventAt(bars, entry, side, atr, risk, j, "target",
                           <<Reach(bars, entry, atr, risk), Dist(bars, entry, atr, risk)>>)
  BY <1>1, LabelAsScanned
<1> HIDE DEF label, j, last
<1>5. label.t1 = IF j = 0 THEN last ELSE j
  BY <1>4 DEF EventAt
<1>6. label.t1 \in entry..(entry + hold) /\ (entry < Len(bars) => label.t1 > entry)
  <2>1. CASE j = 0
    <3>1. label.t1 = last
      BY <1>5, <2>1
    <3>2. last = entry + hold \/ last = Len(bars)
      BY <1>3
    <3> QED
      BY <1>2, <1>3, <3>1, <3>2
  <2>2. CASE j # 0
    <3>1. label.t1 = j /\ j \in (entry + 1)..last
      BY <1>3, <1>5, <2>2
    <3>2. last \in Int /\ last <= entry + hold
      BY <1>2, <1>3
    <3> HIDE DEF label
    <3> QED
      BY <1>2, <3>1, <3>2
  <2> QED
    BY <2>1, <2>2
<1>7. ASSUME NEW n \in entry..Len(bars)
      PROVE  then(n) = label \/ (then(n).outcome = "time" /\ n < entry + hold /\ then(n).t1 = n)
  <2> DEFINE past == SubSeq(bars, 1, n)
  <2> DEFINE jn == FirstTouch(past, entry, side, atr, risk, hold)
  <2> DEFINE lastn == LastBar(past, entry, hold)
  <2>0. then(n) = Label(past, entry, side, atr, risk, hold)
    OBVIOUS
  <2>1. /\ Labelable(past, entry, side, atr, risk, hold)
        /\ Len(past) = n /\ \A i \in 1..n : past[i] = bars[i]
        /\ \A i \in 1..n : Outcome(past, entry, side, atr, risk, i)
                            = Outcome(bars, entry, side, atr, risk, i)
        /\ \A exit, outcome, ret :
             EventAt(past, entry, side, atr, risk, exit, outcome, ret)
               = EventAt(bars, entry, side, atr, risk, exit, outcome, ret)
        /\ Dist(past, entry, atr, risk) = Dist(bars, entry, atr, risk)
        /\ Reach(past, entry, atr, risk) = Reach(bars, entry, atr, risk)
    BY <1>1, PrefixReadsAlike
  <2> HIDE DEF past, then
  <2>2. /\ lastn \in entry..(entry + hold) /\ lastn <= n
        /\ (lastn = entry + hold \/ lastn = n)
        /\ \/ /\ jn = 0
              /\ \A i \in (entry + 1)..lastn : Outcome(past, entry, side, atr, risk, i) = "none"
           \/ /\ jn \in (entry + 1)..lastn
              /\ Outcome(past, entry, side, atr, risk, jn) # "none"
              /\ \A i \in (entry + 1)..(jn - 1) : Outcome(past, entry, side, atr, risk, i) = "none"
    BY <2>1, FirstTouchIsFirst
  <2>3. Label(past, entry, side, atr, risk, hold) =
          IF jn = 0 THEN EventAt(past, entry, side, atr, risk, lastn, "time",
                           <<Sign(side) * (past[lastn].close - past[entry].close),
                             Dist(past, entry, atr, risk)>>)
          ELSE IF Outcome(past, entry, side, atr, risk, jn) = "stop"
            THEN EventAt(past, entry, side, atr, risk, jn, "stop",
                         <<-Dist(past, entry, atr, risk), Dist(past, entry, atr, risk)>>)
          ELSE EventAt(past, entry, side, atr, risk, jn, "target",
                       <<Reach(past, entry, atr, risk), Dist(past, entry, atr, risk)>>)
    BY <2>1, LabelAsScanned
  <2> HIDE DEF jn, lastn
  <2>4. CASE j # 0 /\ j <= n
    <3>1. jn = j
      <4>1. j \in (entry + 1)..last /\ j \in 1..n
        BY <1>2, <1>3, <2>4
      <4>2. j <= lastn
        BY <1>2, <1>3, <2>2, <2>4
      <4>3. Outcome(past, entry, side, atr, risk, j) # "none"
        BY <1>3, <2>1, <2>4, <4>1
      <4>4. jn # 0
        BY <1>2, <2>2, <4>1, <4>2, <4>3
      <4>5. ~(j < jn)
        BY <1>2, <2>2, <4>1, <4>3, <4>4
      <4>6. ~(jn < j)
        BY <1>2, <1>3, <2>1, <2>2, <4>1, <4>4
      <4> QED
        BY <1>2, <2>2, <4>1, <4>4, <4>5, <4>6
    <3>2. Outcome(past, entry, side, atr, risk, j) = Outcome(bars, entry, side, atr, risk, j)
      BY <1>2, <1>3, <2>1, <2>4
    <3> QED
      BY <1>4, <2>0, <2>1, <2>3, <2>4, <3>1, <3>2
  <2>5. CASE j # 0 /\ j > n
    <3>1. lastn = n /\ n < entry + hold
      BY <1>2, <1>3, <2>2, <2>5
    <3>2. jn = 0
      BY <1>2, <1>3, <2>1, <2>2, <2>5, <3>1
    <3> QED
      BY <2>0, <2>3, <3>1, <3>2 DEF EventAt
  <2>6. CASE j = 0 /\ n < entry + hold
    <3>1. lastn = n
      BY <1>2, <2>2, <2>6
    <3>2. jn = 0
      BY <1>2, <1>3, <2>1, <2>2, <2>6, <3>1
    <3> QED
      BY <2>0, <2>3, <2>6, <3>1, <3>2 DEF EventAt
  <2>7. CASE j = 0 /\ n >= entry + hold
    <3>1. lastn = last /\ last = entry + hold /\ last \in 1..n /\ entry \in 1..n
      BY <1>2, <1>3, <2>2, <2>7
    <3>2. jn = 0
      BY <1>2, <1>3, <2>1, <2>2, <2>7, <3>1
    <3>3. past[last] = bars[last] /\ past[entry] = bars[entry]
      BY <2>1, <3>1
    <3> QED
      BY <1>4, <2>0, <2>1, <2>3, <2>7, <3>1, <3>2, <3>3
  <2> QED
    BY <1>2, <1>3, <2>4, <2>5, <2>6, <2>7
<1> QED
  BY <1>6, <1>7

-----------------------------------------------------------------------------
(* A multiple of the risk distance is divided by it without a remainder.   *)
LEMMA ExactRatio ==
  ASSUME NEW x \in Int, NEW d \in Nat \ {0}
  PROVE  Times(<<x, d>>, d) = x
<1>1. (x * d) \div d = x
  OBVIOUS
<1> QED
  BY <1>1 DEF Times

(* The stop of a label lies its risk distance from the entry.              *)
LEMMA StopIsOneRiskAway ==
  ASSUME NEW bars, NEW entry, NEW side, NEW atr, NEW risk, NEW hold,
         Labelable(bars, entry, side, atr, risk, hold)
  PROVE  /\ Dist(bars, entry, atr, risk) \in Nat \ {0}
         /\ Reach(bars, entry, atr, risk) \in Nat
         /\ bars[entry].close \in Int
         /\ AbsInt(bars[entry].close - StopOf(bars, entry, side, atr, risk))
              = Dist(bars, entry, atr, risk)
<1>1. bars[entry] \in PriceBar /\ bars[entry].close \in Int
  <2>1. bars[entry] \in PriceBar
    BY ElementOfSeq DEF Labelable
  <2> QED
    BY <2>1 DEF PriceBar
<1>2. Dist(bars, entry, atr, risk) \in Nat \ {0}
  BY <1>1, RiskDistanceIsNat DEF Labelable, Dist
<1>3. Reach(bars, entry, atr, risk) \in Nat
  BY <1>1, <1>2, DistanceIsNat DEF Labelable, IsRisk, Reach, Dist
<1>4. /\ StopOf(bars, entry, side, atr, risk)
           = bars[entry].close - Sign(side) * Dist(bars, entry, atr, risk)
      /\ Sign(side) = 1 \/ Sign(side) = -1
  BY DEF StopOf, StopPrice, Dist, Sign
<1>5. AbsInt(bars[entry].close - StopOf(bars, entry, side, atr, risk))
        = Dist(bars, entry, atr, risk)
  BY <1>1, <1>2, <1>4 DEF AbsInt
<1> QED
  BY <1>1, <1>2, <1>3, <1>5

(* trades.rs: the exit price of every replayed trade is the price its      *)
(* label exited at, and its R is the label's return, on either side.       *)
THEOREM ExitPricesAreTheLabels ==
  ASSUME NEW bars \in Seq(PriceBar), NEW entry \in Nat \ {0}, NEW side \in {"long", "short"},
         NEW atr \in Int, NEW risk, IsRisk(risk), NEW hold \in Int
  PROVE  ExitsAreReconstructed(bars, Label(bars, entry, side, atr, risk, hold))
<1> DEFINE label == Label(bars, entry, side, atr, risk, hold)
<1> SUFFICES ASSUME label # Unlabelable
             PROVE  LET px == ReconstructExit(label) IN
                    /\ label.outcome = "time" => px = bars[label.t1].close
                    /\ Sign(label.side) * (px - label.entryPx) * label.ret[2]
                         = label.ret[1] * AbsInt(label.entryPx - label.stopPx)
  BY DEF ExitsAreReconstructed
<1> DEFINE d == Dist(bars, entry, atr, risk)
<1> DEFINE r == Reach(bars, entry, atr, risk)
<1> DEFINE px0 == bars[entry].close
<1> DEFINE stop == StopOf(bars, entry, side, atr, risk)
<1> DEFINE last == LastBar(bars, entry, hold)
<1> DEFINE j == FirstTouch(bars, entry, side, atr, risk, hold)
<1> DEFINE s == Sign(side)
<1>1. Labelable(bars, entry, side, atr, risk, hold)
  BY LabeledIsLabelable
<1>2. d \in Nat \ {0} /\ r \in Nat /\ px0 \in Int /\ AbsInt(px0 - stop) = d
  BY <1>1, StopIsOneRiskAway
<1>3. last \in 1..Len(bars) /\ bars[last].close \in Int
  <2>1. last \in entry..(entry + hold) /\ last <= Len(bars)
    BY <1>1, FirstTouchIsFirst
  <2>2. last \in 1..Len(bars)
    BY <1>1, <2>1, LenProperties DEF Labelable
  <2>3. bars[last] \in PriceBar
    BY <2>2, ElementOfSeq
  <2> QED
    BY <2>2, <2>3 DEF PriceBar
<1>4. /\ s \in {1, -1}
      /\ stop = px0 - s * d
      /\ TargetOf(bars, entry, side, atr, risk) = px0 + s * r
  BY DEF Sign, StopOf, StopPrice, TargetOf, Dist
<1>5. label = IF j = 0 THEN EventAt(bars, entry, side, atr, risk, last, "time",
                              <<s * (bars[last].close - px0), d>>)
              ELSE IF Outcome(bars, entry, side, atr, risk, j) = "stop"
                THEN EventAt(bars, entry, side, atr, risk, j, "stop", <<-d, d>>)
              ELSE EventAt(bars, entry, side, atr, risk, j, "target", <<r, d>>)
  BY <1>1, LabelAsScanned
<1>6. label.entryPx = px0 /\ label.stopPx = stop /\ label.side = side /\ label.ret[2] = d
      /\ label.targetPx = px0 + s * r
  BY <1>4, <1>5 DEF EventAt
<1>7. CASE j = 0
  <2>1. /\ label.outcome = "time" /\ label.t1 = last
        /\ label.ret = <<s * (bars[last].close - px0), d>>
    BY <1>5, <1>7 DEF EventAt
  <2> HIDE DEF label, d, r, px0, stop, last, j, s
  <2>2. ReconstructExit(label) = px0 + Sign(side) * Times(label.ret, d)
    BY <1>2, <1>6, <2>1 DEF ReconstructExit, TimeExit
  <2>3. Times(label.ret, d) = s * (bars[last].close - px0)
    <3>1. s * (bars[last].close - px0) \in Int
      BY <1>2, <1>3, <1>4
    <3> QED
      BY <1>2, <2>1, <3>1, ExactRatio
  <2>4. ReconstructExit(label) = bars[last].close
    <3>1. ReconstructExit(label) = px0 + s * (s * (bars[last].close - px0))
      BY <2>2, <2>3 DEF s
    <3>2. s = 1 \/ s = -1
      BY <1>4
    <3> QED
      BY <1>2, <1>3, <3>1, <3>2
  <2>5. s * (bars[last].close - px0) * d = label.ret[1] * d
    BY <2>1
  <2> QED
    BY <1>2, <1>6, <2>1, <2>4, <2>5 DEF s
<1>8. CASE j # 0 /\ Outcome(bars, entry, side, atr, risk, j) = "stop"
  <2>1. label.outcome = "stop" /\ label.ret[1] = -d
    BY <1>5, <1>8 DEF EventAt
  <2>2. ReconstructExit(label) = stop
    BY <1>6, <2>1 DEF ReconstructExit
  <2> HIDE DEF label, d, r, px0, stop, last, j, s
  <2>3. s * (stop - px0) = -d
    BY <1>2, <1>4
  <2>4. s * (stop - px0) * d = label.ret[1] * d
    BY <2>1, <2>3
  <2>5. Sign(label.side) * (ReconstructExit(label) - label.entryPx) * label.ret[2]
          = s * (stop - px0) * d
    BY <1>6, <2>2 DEF s
  <2>6. label.ret[1] * AbsInt(label.entryPx - label.stopPx) = label.ret[1] * d
    BY <1>2, <1>6
  <2>7. label.outcome # "time"
    BY <2>1
  <2>8. Sign(label.side) * (ReconstructExit(label) - label.entryPx) * label.ret[2]
          = label.ret[1] * AbsInt(label.entryPx - label.stopPx)
    BY <2>4, <2>5, <2>6
  <2> QED
    BY <2>7, <2>8
<1>9. CASE j # 0 /\ Outcome(bars, entry, side, atr, risk, j) # "stop"
  <2>1. label.outcome = "target" /\ label.ret[1] = r
    BY <1>5, <1>9 DEF EventAt
  <2> DEFINE target == px0 + s * r
  <2>2. ReconstructExit(label) = target
    BY <1>6, <2>1 DEF ReconstructExit
  <2> HIDE DEF label, d, r, px0, stop, last, j, s
  <2>3. s * (target - px0) = r
    BY <1>2, <1>4
  <2> HIDE DEF target
  <2>4. s * (target - px0) * d = label.ret[1] * d
    BY <2>1, <2>3
  <2>5. Sign(label.side) * (ReconstructExit(label) - label.entryPx) * label.ret[2]
          = s * (target - px0) * d
    BY <1>6, <2>2 DEF s
  <2>6. label.ret[1] * AbsInt(label.entryPx - label.stopPx) = label.ret[1] * d
    BY <1>2, <1>6
  <2>7. label.outcome # "time"
    BY <2>1
  <2>8. Sign(label.side) * (ReconstructExit(label) - label.entryPx) * label.ret[2]
          = label.ret[1] * AbsInt(label.entryPx - label.stopPx)
    BY <2>4, <2>5, <2>6
  <2> QED
    BY <2>7, <2>8
<1> QED
  BY <1>7, <1>8, <1>9

-----------------------------------------------------------------------------
Mirrored(bars, axis) ==
  [i \in DOMAIN bars |-> [high |-> 2 * axis - bars[i].low, low |-> 2 * axis - bars[i].high,
                          close |-> 2 * axis - bars[i].close]]

Other(side) == IF side = "long" THEN "short" ELSE "long"

LEMMA MirroredIsSeries ==
  ASSUME NEW bars \in Seq(PriceBar), NEW axis \in Int
  PROVE  /\ Mirrored(bars, axis) \in Seq(PriceBar)
         /\ Len(Mirrored(bars, axis)) = Len(bars)
         /\ \A i \in 1..Len(bars) :
              /\ bars[i] \in PriceBar
              /\ Mirrored(bars, axis)[i].high = 2 * axis - bars[i].low
              /\ Mirrored(bars, axis)[i].low = 2 * axis - bars[i].high
              /\ Mirrored(bars, axis)[i].close = 2 * axis - bars[i].close
<1>1. Len(bars) \in Nat /\ DOMAIN bars = 1..Len(bars)
  BY LenProperties
<1>2. \A i \in 1..Len(bars) : bars[i] \in PriceBar
  BY ElementOfSeq
<1>3. Mirrored(bars, axis) \in [1..Len(bars) -> PriceBar]
  BY <1>1, <1>2 DEF Mirrored, PriceBar
<1>4. Mirrored(bars, axis) \in Seq(PriceBar) /\ Len(Mirrored(bars, axis)) = Len(bars)
  BY <1>1, <1>3, IsASeq, LenProperties
<1> QED
  BY <1>1, <1>2, <1>4 DEF Mirrored

(* The mirror image is labeled like the original: same distances, and each *)
(* bar meets the mirrored barriers as the bar it mirrors met its own.      *)
LEMMA MirrorReadsAlike ==
  ASSUME NEW bars, NEW entry, NEW side, NEW atr, NEW risk, NEW hold,
         Labelable(bars, entry, side, atr, risk, hold)
  PROVE  LET twin == Mirrored(bars, bars[entry].close)
         IN  /\ Labelable(twin, entry, Other(side), atr, risk, hold)
             /\ Len(twin) = Len(bars)
             /\ Dist(twin, entry, atr, risk) = Dist(bars, entry, atr, risk)
             /\ Reach(twin, entry, atr, risk) = Reach(bars, entry, atr, risk)
             /\ \A i \in 1..Len(bars) :
                  /\ Outcome(twin, entry, Other(side), atr, risk, i)
                       = Outcome(bars, entry, side, atr, risk, i)
                  /\ Sign(Other(side)) * (twin[i].close - twin[entry].close)
                       = Sign(side) * (bars[i].close - bars[entry].close)
<1> DEFINE px == bars[entry].close
<1> DEFINE twin == Mirrored(bars, px)
<1> DEFINE d == Dist(bars, entry, atr, risk)
<1> DEFINE r == Reach(bars, entry, atr, risk)
<1>1. bars \in Seq(PriceBar) /\ entry \in 1..Len(bars) /\ side \in {"long", "short"}
  BY DEF Labelable
<1>2. px \in Int /\ d \in Nat \ {0} /\ r \in Nat
  BY StopIsOneRiskAway
<1>3. /\ twin \in Seq(PriceBar) /\ Len(twin) = Len(bars)
      /\ \A i \in 1..Len(bars) :
           /\ bars[i] \in PriceBar
           /\ twin[i].high = 2 * px - bars[i].low
           /\ twin[i].low = 2 * px - bars[i].high
           /\ twin[i].close = 2 * px - bars[i].close
  BY <1>1, <1>2, MirroredIsSeries
<1> HIDE DEF twin
<1>4. twin[entry].close = px
  BY <1>1, <1>2, <1>3
<1>5. /\ Dist(twin, entry, atr, risk) = d
      /\ Reach(twin, entry, atr, risk) = r
  BY <1>4 DEF Dist, Reach
<1>6. Labelable(twin, entry, Other(side), atr, risk, hold)
  BY <1>1, <1>2, <1>3, <1>5 DEF Labelable, Other
<1>7. /\ StopOf(bars, entry, side, atr, risk) = px - Sign(side) * d
      /\ TargetOf(bars, entry, side, atr, risk) = px + Sign(side) * r
      /\ StopOf(twin, entry, Other(side), atr, risk) = px - Sign(Other(side)) * d
      /\ TargetOf(twin, entry, Other(side), atr, risk) = px + Sign(Other(side)) * r
  BY <1>4, <1>5 DEF StopOf, StopPrice, TargetOf, Dist
<1> HIDE DEF px, d, r
<1>8. ASSUME NEW i \in 1..Len(bars)
      PROVE  /\ Outcome(twin, entry, Other(side), atr, risk, i)
                  = Outcome(bars, entry, side, atr, risk, i)
             /\ Sign(Other(side)) * (twin[i].close - twin[entry].close)
                  = Sign(side) * (bars[i].close - px)
  <2>1. /\ bars[i].high \in Int /\ bars[i].low \in Int /\ bars[i].close \in Int
        /\ twin[i].high = 2 * px - bars[i].low
        /\ twin[i].low = 2 * px - bars[i].high
        /\ twin[i].close = 2 * px - bars[i].close
    BY <1>3 DEF PriceBar
  <2>0. /\ twin[i].close - twin[entry].close = px - bars[i].close
        /\ 1 * (px - bars[i].close) = (-1) * (bars[i].close - px)
        /\ (-1) * (px - bars[i].close) = 1 * (bars[i].close - px)
        /\ twin[i].high >= px + d <=> bars[i].low <= px - d
        /\ twin[i].high >= px + r <=> bars[i].low <= px - r
        /\ twin[i].low <= px - d <=> bars[i].high >= px + d
        /\ twin[i].low <= px - r <=> bars[i].high >= px + r
    <3> DEFINE high == bars[i].high
    <3> DEFINE low == bars[i].low
    <3> DEFINE close == bars[i].close
    <3>1. high \in Int /\ low \in Int /\ close \in Int /\ px \in Int /\ d \in Int /\ r \in Int
      BY <1>2, <2>1
    <3>2. /\ twin[i].high = 2 * px - low /\ twin[i].low = 2 * px - high
          /\ twin[i].close = 2 * px - close /\ twin[entry].close = px
      BY <1>4, <2>1
    <3> HIDE DEF high, low, close
    <3>3. /\ 2 * px - close - px = px - close
          /\ 1 * (px - close) = (-1) * (close - px)
          /\ (-1) * (px - close) = 1 * (close - px)
      BY <3>1
    <3>4. \A x \in Int : /\ 2 * px - low >= px + x <=> low <= px - x
                         /\ 2 * px - high <= px - x <=> high >= px + x
      BY <3>1
    <3> QED
      BY <3>1, <3>2, <3>3, <3>4 DEF high, low, close
  <2>2. CASE side = "long"
    <3>1. Other(side) = "short" /\ Sign(side) = 1 /\ Sign(Other(side)) = -1
      BY <2>2 DEF Other, Sign
    <3>2. Outcome(twin, entry, Other(side), atr, risk, i)
            = ResolveBar(twin[i], px - r, px + d, "short")
      BY <1>2, <1>7, <3>1 DEF Outcome
    <3>3. Outcome(bars, entry, side, atr, risk, i)
            = ResolveBar(bars[i], px + r, px - d, "long")
      BY <1>2, <1>7, <2>2, <3>1 DEF Outcome
    <3>4. ResolveBar(twin[i], px - r, px + d, "short")
            = ResolveBar(bars[i], px + r, px - d, "long")
      BY <2>0 DEF ResolveBar
    <3>5. Sign(Other(side)) * (twin[i].close - twin[entry].close)
            = Sign(side) * (bars[i].close - px)
      BY <2>0, <3>1
    <3> QED
      BY <3>2, <3>3, <3>4, <3>5
  <2>3. CASE side = "short"
    <3>1. Other(side) = "long" /\ Sign(side) = -1 /\ Sign(Other(side)) = 1
      BY <2>3 DEF Other, Sign
    <3>2. Outcome(twin, entry, Other(side), atr, risk, i)
            = ResolveBar(twin[i], px + r, px - d, "long")
      BY <1>2, <1>7, <3>1 DEF Outcome
    <3>3. Outcome(bars, entry, side, atr, risk, i)
            = ResolveBar(bars[i], px - r, px + d, "short")
      BY <1>2, <1>7, <2>3, <3>1 DEF Outcome
    <3>4. ResolveBar(twin[i], px + r, px - d, "long")
            = ResolveBar(bars[i], px - r, px + d, "short")
      BY <2>0 DEF ResolveBar
    <3>5. Sign(Other(side)) * (twin[i].close - twin[entry].close)
            = Sign(side) * (bars[i].close - px)
      BY <2>0, <3>1
    <3> QED
      BY <3>2, <3>3, <3>4, <3>5
  <2> QED
    BY <1>1, <2>2, <2>3
<1> QED
  BY <1>3, <1>5, <1>6, <1>8 DEF twin, px, d, r

(* triple_barrier.rs: the label is the pessimist's.  Before a target no    *)
(* bar had touched the stop, and in the mirror a short is labeled as the   *)
(* long it mirrors: same outcome, same exit bar, same return.              *)
THEOREM EveryLabelIsPessimistic ==
  ASSUME NEW bars \in Seq(PriceBar), NEW entry \in Nat \ {0}, NEW side \in {"long", "short"},
         NEW atr \in Int, NEW risk, IsRisk(risk), NEW hold \in Int, NEW axis \in Int
  PROVE  LabelIsPessimistic(bars, entry, side, atr, risk, hold, axis)
<1> DEFINE label == Label(bars, entry, side, atr, risk, hold)
<1> DEFINE mirrored == Mirrored(bars, axis)
<1> DEFINE twin == Label(mirrored, entry, Other(side), atr, risk, hold)
<1> DEFINE beyond(px, i) == IF px < bars[entry].close THEN bars[i].low <= px
                            ELSE bars[i].high >= px
<1> SUFFICES ASSUME label # Unlabelable
             PROVE  /\ label.outcome = "target" =>
                         \A i \in (entry + 1)..label.t1 : ~beyond(label.stopPx, i)
                    /\ bars[entry].close = axis =>
                         <<label.outcome, label.t1, label.ret>> = <<twin.outcome, twin.t1, twin.ret>>
  BY DEF LabelIsPessimistic, Mirrored, Other
<1> DEFINE d == Dist(bars, entry, atr, risk)
<1> DEFINE r == Reach(bars, entry, atr, risk)
<1> DEFINE last == LastBar(bars, entry, hold)
<1> DEFINE j == FirstTouch(bars, entry, side, atr, risk, hold)
<1> DEFINE seen(i) == Outcome(bars, entry, side, atr, risk, i)
<1> DEFINE stop == StopOf(bars, entry, side, atr, risk)
<1>1. Labelable(bars, entry, side, atr, risk, hold)
  BY LabeledIsLabelable
<1>2. /\ d \in Nat \ {0} /\ r \in Nat /\ bars[entry].close \in Int
      /\ Len(bars) \in Nat /\ entry \in 1..Len(bars) /\ side \in {"long", "short"}
  BY <1>1, StopIsOneRiskAway, LenProperties DEF Labelable
<1>3. /\ last \in entry..(entry + hold) /\ last <= Len(bars)
      /\ (last = entry + hold \/ last = Len(bars))
      /\ \/ j = 0 /\ \A i \in (entry + 1)..last : seen(i) = "none"
         \/ /\ j \in (entry + 1)..last
            /\ seen(j) # "none"
            /\ \A i \in (entry + 1)..(j - 1) : seen(i) = "none"
  BY <1>1, FirstTouchIsFirst
<1>4. label = IF j = 0 THEN EventAt(bars, entry, side, atr, risk, last, "time",
                              <<Sign(side) * (bars[last].close - bars[entry].close), d>>)
              ELSE IF seen(j) = "stop"
                THEN EventAt(bars, entry, side, atr, risk, j, "stop", <<-d, d>>)
              ELSE EventAt(bars, entry, side, atr, risk, j, "target", <<r, d>>)
  BY <1>1, LabelAsScanned
<1>5. ASSUME label.outcome = "target", NEW i \in (entry + 1)..label.t1
      PROVE  ~beyond(label.stopPx, i)
  <2>1. j # 0 /\ seen(j) # "stop" /\ label.t1 = j /\ label.stopPx = stop
    BY <1>4, <1>5 DEF EventAt
  <2>2. j \in (entry + 1)..last /\ seen(i) # "stop"
    <3>1. j \in (entry + 1)..last /\ \A k \in (entry + 1)..(j - 1) : seen(k) = "none"
      BY <1>2, <1>3, <2>1
    <3>2. i = j \/ i \in (entry + 1)..(j - 1)
      BY <1>2, <1>3, <2>1, <3>1
    <3> QED
      BY <2>1, <3>1, <3>2
  <2>3. stop = bars[entry].close - Sign(side) * d
    BY DEF StopOf, StopPrice, Dist
  <2>4. ~(IF side = "long" THEN bars[i].low <= stop ELSE bars[i].high >= stop)
    BY <2>2 DEF Outcome, ResolveBar
  <2> HIDE DEF label, d, r, last, j, seen, stop
  <2>5. CASE side = "long"
    <3>1. stop < bars[entry].close
      BY <1>2, <2>3, <2>5 DEF Sign
    <3> QED
      BY <2>1, <2>4, <2>5, <3>1
  <2>6. CASE side = "short"
    <3>1. ~(stop < bars[entry].close)
      BY <1>2, <2>3, <2>6 DEF Sign
    <3> QED
      BY <2>1, <2>4, <2>6, <3>1
  <2> QED
    BY <1>2, <2>5, <2>6
<1>6. ASSUME bars[entry].close = axis
      PROVE  <<label.outcome, label.t1, label.ret>> = <<twin.outcome, twin.t1, twin.ret>>
  <2> DEFINE lastt == LastBar(mirrored, entry, hold)
  <2> DEFINE jt == FirstTouch(mirrored, entry, Other(side), atr, risk, hold)
  <2> DEFINE seent(i) == Outcome(mirrored, entry, Other(side), atr, risk, i)
  <2>1. /\ Labelable(mirrored, entry, Other(side), atr, risk, hold)
        /\ Len(mirrored) = Len(bars)
        /\ Dist(mirrored, entry, atr, risk) = d
        /\ Reach(mirrored, entry, atr, risk) = r
        /\ \A i \in 1..Len(bars) :
             /\ seent(i) = seen(i)
             /\ Sign(Other(side)) * (mirrored[i].close - mirrored[entry].close)
                  = Sign(side) * (bars[i].close - bars[entry].close)
    BY <1>1, <1>6, MirrorReadsAlike
  <2> HIDE DEF mirrored
  <2>2. lastt = last
    BY <2>1 DEF LastBar
  <2>3. \/ jt = 0 /\ \A i \in (entry + 1)..last : seent(i) = "none"
        \/ /\ jt \in (entry + 1)..last
           /\ seent(jt) # "none"
           /\ \A i \in (entry + 1)..(jt - 1) : seent(i) = "none"
    BY <2>1, <2>2, FirstTouchIsFirst
  <2>4. twin = IF jt = 0
                 THEN EventAt(mirrored, entry, Other(side), atr, risk, lastt, "time",
                        <<Sign(Other(side)) * (mirrored[lastt].close - mirrored[entry].close), d>>)
               ELSE IF seent(jt) = "stop"
                 THEN EventAt(mirrored, entry, Other(side), atr, risk, jt, "stop", <<-d, d>>)
               ELSE EventAt(mirrored, entry, Other(side), atr, risk, jt, "target", <<r, d>>)
    BY <2>1, LabelAsScanned
  <2>5. last \in 1..Len(bars) /\ \A i \in (entry + 1)..last : i \in 1..Len(bars)
    BY <1>2, <1>3
  <2> HIDE DEF label, twin, d, r, last, j, seen, lastt, jt, seent
  <2>6. jt = j
    <3>1. CASE j = 0
      BY <1>2, <1>3, <2>1, <2>3, <2>5, <3>1
    <3>2. CASE j # 0
      <4>1. /\ j \in (entry + 1)..last /\ seen(j) # "none" /\ seent(j) # "none"
            /\ \A i \in (entry + 1)..(j - 1) : seen(i) = "none"
        BY <1>2, <1>3, <2>1, <2>5, <3>2
      <4>2. /\ jt \in (entry + 1)..last /\ seent(jt) # "none" /\ seen(jt) # "none"
            /\ \A i \in (entry + 1)..(jt - 1) : seent(i) = "none"
        BY <2>1, <2>3, <2>5, <4>1
      <4>3. ~(j < jt) /\ ~(jt < j)
        BY <1>2, <1>3, <4>1, <4>2
      <4> QED
        BY <1>2, <1>3, <4>1, <4>2, <4>3
    <3> QED
      BY <3>1, <3>2
  <2>7. CASE j = 0
    <3>1. label.outcome = "time" /\ label.t1 = last
          /\ label.ret = <<Sign(side) * (bars[last].close - bars[entry].close), d>>
      BY <1>4, <2>7 DEF EventAt
    <3>2. twin.outcome = "time" /\ twin.t1 = last
          /\ twin.ret = <<Sign(Other(side)) * (mirrored[last].close - mirrored[entry].close), d>>
      BY <2>2, <2>4, <2>6, <2>7 DEF EventAt
    <3>3. Sign(Other(side)) * (mirrored[last].close - mirrored[entry].close)
            = Sign(side) * (bars[last].close - bars[entry].close)
      BY <2>1, <2>5
    <3> QED
      BY <3>1, <3>2, <3>3
  <2>8. CASE j # 0
    <3>1. seent(j) = seen(j)
      BY <1>2, <1>3, <2>1, <2>5, <2>8
    <3>2. CASE seen(j) = "stop"
      BY <1>4, <2>4, <2>6, <2>8, <3>1, <3>2 DEF EventAt
    <3>3. CASE seen(j) # "stop"
      BY <1>4, <2>4, <2>6, <2>8, <3>1, <3>3 DEF EventAt
    <3> QED
      BY <3>2, <3>3
  <2> QED
    BY <2>7, <2>8
<1> QED
  BY <1>5, <1>6

-----------------------------------------------------------------------------
(* What a fold does to a sequence of any length: the library's folds are   *)
(* recursive functions over sets of indices, and the lemmas of this part   *)
(* turn one into the accumulators after each element, from the first on.   *)

(* What holds at 0 and is handed on by every step holds up to n.           *)
LEMMA InductionUpTo ==
  ASSUME NEW n \in Nat, NEW B, 0 \in B,
         \A k \in 0..(n - 1) : k \in B => k + 1 \in B
  PROVE  \A k \in 0..n : k \in B
<1> DEFINE S == {k \in 0..n : k \notin B}
<1> SUFFICES S = {}
  OBVIOUS
<1>1. ASSUME S # {} PROVE FALSE
  <2>1. S \in SUBSET Nat
    OBVIOUS
  <2> DEFINE m == Min(S)
  <2>2. m \in S /\ \A y \in S : m <= y
    BY <1>1, <2>1, SmallestExists
  <2> HIDE DEF m
  <2>3. m \in 1..n
    BY <2>2
  <2>4. m - 1 \in 0..(n - 1) /\ m - 1 \notin S
    BY <2>2, <2>3
  <2>5. m - 1 \in B
    BY <2>4
  <2>6. (m - 1) + 1 \in B
    BY <2>4, <2>5
  <2> QED
    BY <2>2, <2>3, <2>6
<1> QED
  BY <1>1

LEMMA LargestExists ==
  ASSUME NEW n \in Nat, NEW S \in SUBSET (1..n), S # {}
  PROVE  Max(S) \in S /\ \A y \in S : Max(S) >= y
<1> DEFINE T == {n - x : x \in S}
<1>1. T \in SUBSET Nat /\ T # {}
  <2>1. \A x \in S : n - x \in Nat
    OBVIOUS
  <2>2. PICK x \in S : TRUE
    OBVIOUS
  <2>3. n - x \in T
    OBVIOUS
  <2> QED
    BY <2>1, <2>3
<1>2. Min(T) \in T /\ \A y \in T : Min(T) <= y
  BY <1>1, SmallestExists
<1>3. PICK x \in S : Min(T) = n - x
  BY <1>2
<1>4. \A y \in S : x >= y
  <2> SUFFICES ASSUME NEW y \in S PROVE x >= y
    OBVIOUS
  <2>1. n - y \in T /\ x \in Int /\ y \in Int
    OBVIOUS
  <2>2. n - x <= n - y
    BY <1>2, <1>3, <2>1
  <2> QED
    BY <2>1, <2>2
<1> QED
  BY <1>4 DEF Max

(* How the library's folds over 1..n are defined: from the greatest index  *)
(* of each subset down.                                                    *)
Recurs(f, n, base, step) ==
  \A s \in SUBSET (1..n) :
    f[s] = IF s = {} THEN base ELSE step[<<Max(s), f[s \ {Max(s)}]>>]

(* The same, as far as the values of f are known to be among V.            *)
RecursWithin(f, n, V, base, step) ==
  /\ f[{}] = base
  /\ \A s \in SUBSET (1..n) :
       s # {} /\ f[s \ {Max(s)}] \in V => f[s] = step[<<Max(s), f[s \ {Max(s)}]>>]

(* The accumulators after each element, the first one being the base.      *)
Accumulates(run, n, base, step) ==
  run[0] = base /\ \A k \in 1..n : run[k] = step[<<k, run[k - 1]>>]

(* The recursion a fold is defined by, from the greatest index down, has a *)
(* solution.                                                               *)
LEMMA RecursionHasSolution ==
  ASSUME NEW n \in Nat, NEW V, NEW base \in V, NEW step \in [(1..n) \X V -> V]
  PROVE  \E f \in [SUBSET (1..n) -> V] : Recurs(f, n, base, step)
<1> DEFINE below(k) == {s \in SUBSET (1..n) : s \subseteq 1..k}
           solves(f, k) ==
             \A s \in below(k) :
               f[s] = IF s = {} THEN base ELSE step[<<Max(s), f[s \ {Max(s)}]>>]
           B == {k \in 0..n : \E f \in [SUBSET (1..n) -> V] : solves(f, k)}
<1>1. 0 \in B
  <2> DEFINE f == [s \in SUBSET (1..n) |-> base]
  <2>1. f \in [SUBSET (1..n) -> V]
    OBVIOUS
  <2>2. \A s \in below(0) : s = {}
    OBVIOUS
  <2>3. solves(f, 0)
    <3> SUFFICES ASSUME NEW s \in below(0)
                 PROVE  f[s] = IF s = {} THEN base ELSE step[<<Max(s), f[s \ {Max(s)}]>>]
      OBVIOUS
    <3>1. s = {}
      BY <2>2
    <3> QED
      BY <3>1
  <2> HIDE DEF f, solves
  <2> QED
    BY <2>1, <2>3
<1>2. ASSUME NEW k \in 0..(n - 1), k \in B
      PROVE  k + 1 \in B
  <2>1. PICK f \in [SUBSET (1..n) -> V] : solves(f, k)
    BY <1>2
  <2> DEFINE g == [s \in SUBSET (1..n) |->
                     IF s # {} /\ Max(s) = k + 1 THEN step[<<k + 1, f[s \ {k + 1}]>>] ELSE f[s]]
  <2>2. g \in [SUBSET (1..n) -> V]
    <3>1. k + 1 \in 1..n
      OBVIOUS
    <3>2. \A s \in SUBSET (1..n) : s \ {k + 1} \in SUBSET (1..n)
      OBVIOUS
    <3> QED
      BY <3>1, <3>2
  <2>3. ASSUME NEW s \in below(k + 1)
        PROVE  g[s] = IF s = {} THEN base ELSE step[<<Max(s), g[s \ {Max(s)}]>>]
    <3>1. CASE s = {}
      <4>1. s \in below(k)
        BY <3>1
      <4> QED
        BY <2>1, <3>1, <4>1
    <3>2. CASE s # {}
      <4> DEFINE m == Max(s)
                 r == s \ {m}
      <4>1. m \in s /\ \A y \in s : m >= y
        BY <3>2, LargestExists
      <4> HIDE DEF m
      <4>2. m \in 1..(k + 1) /\ r \in SUBSET (1..n) /\ r \subseteq 1..k /\ m \in Nat
        <5>1. \A y \in s : y \in 1..(k + 1)
          OBVIOUS
        <5>2. \A y \in r : y \in 1..(k + 1) /\ y <= m /\ y # m
          BY <4>1, <5>1
        <5> QED
          BY <4>1, <5>1, <5>2
      <4> HIDE DEF r
      <4>3. r # {} => Max(r) # k + 1
        <5>1. ASSUME r # {} PROVE Max(r) \in r
          BY <4>2, <5>1, LargestExists
        <5> QED
          BY <4>2, <5>1
      <4>4. g[r] = f[r]
        BY <4>2, <4>3
      <4> USE DEF r
      <4> HIDE DEF m
      <4>5. CASE m = k + 1
        BY <3>2, <4>4, <4>5 DEF m
      <4>6. CASE m # k + 1
        <5>1. s \in below(k)
          BY <4>1, <4>2, <4>6
        <5>2. g[s] = f[s]
          BY <4>6 DEF m
        <5>3. f[s] = step[<<Max(s), f[s \ {Max(s)}]>>]
          BY <2>1, <3>2, <5>1
        <5> QED
          BY <3>2, <4>4, <5>2, <5>3 DEF m
      <4> QED
        BY <4>5, <4>6
    <3> QED
      BY <3>1, <3>2
  <2> HIDE DEF g
  <2>4. solves(g, k + 1)
    BY <2>3
  <2>5. k + 1 \in 0..n
    OBVIOUS
  <2> QED
    BY <2>2, <2>4, <2>5
<1>3. n \in B
  <2> HIDE DEF B
  <2>1. \A k \in 0..n : k \in B
    BY <1>1, <1>2, InductionUpTo
  <2> QED
    BY <2>1
<1>4. \A s \in SUBSET (1..n) : s \in below(n)
  OBVIOUS
<1> QED
  BY <1>3, <1>4 DEF Recurs

(* What solves it runs through the prefixes in order.                      *)
EndsARun(f, n, V, base, step) ==
  \E run \in [0..n -> V] : Accumulates(run, n, base, step) /\ f[1..n] = run[n]

LEMMA SolutionRunsInOrder ==
  ASSUME NEW n \in Nat, NEW V, NEW base \in V, NEW step \in [(1..n) \X V -> V], NEW f,
         RecursWithin(f, n, V, base, step)
  PROVE  EndsARun(f, n, V, base, step)
<1> DEFINE run == [k \in 0..n |-> f[1..k]]
           B == {k \in 0..n : run[k] \in V /\ (k > 0 => run[k] = step[<<k, run[k - 1]>>])}
<1>1. 0 \in B /\ run[0] = base
  <2>1. 1..0 = {}
    OBVIOUS
  <2> QED
    BY <2>1 DEF RecursWithin
<1>2. ASSUME NEW k \in 0..(n - 1), k \in B
      PROVE  k + 1 \in B
  <2> DEFINE s == 1..(k + 1)
  <2>1. s \in SUBSET (1..n) /\ s # {} /\ k + 1 \in s /\ s \ {k + 1} = 1..k
    OBVIOUS
  <2>2. Max(s) = k + 1
    <3>1. Max(s) \in s /\ \A y \in s : Max(s) >= y
      BY <2>1, LargestExists
    <3> QED
      BY <2>1, <3>1
  <2>3. f[1..k] \in V /\ run[k] = f[1..k] /\ run[k + 1] = f[s]
    BY <1>2
  <2>4. f[s] = step[<<k + 1, f[1..k]>>]
    <3> HIDE DEF s
    <3> QED
      BY <2>1, <2>2, <2>3 DEF RecursWithin
  <2>5. step[<<k + 1, f[1..k]>>] \in V
    BY <2>3
  <2>6. (k + 1) - 1 = k /\ k + 1 \in 0..n
    OBVIOUS
  <2> HIDE DEF run
  <2> QED
    BY <2>3, <2>4, <2>5, <2>6
<1>3. \A k \in 0..n : k \in B
  <2> HIDE DEF B
  <2> QED
    BY <1>1, <1>2, InductionUpTo
<1>4. run \in [0..n -> V] /\ f[1..n] = run[n]
  <2>1. \A k \in 0..n : run[k] \in V
    BY <1>3
  <2> QED
    BY <2>1
<1>5. \A k \in 1..n : run[k] = step[<<k, run[k - 1]>>]
  BY <1>3
<1> QED
  BY <1>1, <1>4, <1>5 DEF Accumulates, EndsARun

(* The sum of a sequence, as Features and Detectors take it.               *)
Summed(xs) == FoldLeft(LAMBDA a, b : a + b, 0, xs)

IsSumming(run, xs) ==
  run[0] = 0 /\ \A k \in 1..Len(xs) : run[k] = run[k - 1] + xs[k]

LEMMA SummedRuns ==
  ASSUME NEW xs \in Seq(Int)
  PROVE  \E run \in [0..Len(xs) -> Int] : IsSumming(run, xs) /\ Summed(xs) = run[Len(xs)]
<1> DEFINE n == Len(xs)
           step == [p \in (1..n) \X Int |-> p[2] + xs[p[1]]]
           rule(f, s) == IF s = {} THEN 0 ELSE f[s \ {Max(s)}] + xs[Max(s)]
           iter == CHOOSE f : f = [s \in SUBSET (DOMAIN xs) |-> rule(f, s)]
<1>1. n \in Nat /\ DOMAIN xs = 1..n /\ \A i \in 1..n : xs[i] \in Int
  OBVIOUS
<1>2. Summed(xs) = iter[DOMAIN xs]
  BY Zenon DEF Summed, FoldLeft, MapThenFoldSet
<1>3. step \in [(1..n) \X Int -> Int] /\ 0 \in Int
  BY <1>1
<1> HIDE DEF n
<1>4. \A k \in 1..n : \A v \in Int : step[<<k, v>>] = v + xs[k]
  OBVIOUS
<1> HIDE DEF step
<1>5. PICK f \in [SUBSET (1..n) -> Int] : Recurs(f, n, 0, step)
  BY <1>1, <1>3, RecursionHasSolution
<1>6. \A s \in SUBSET (1..n) : s # {} => Max(s) \in 1..n /\ s \ {Max(s)} \in SUBSET (1..n)
  BY <1>1, LargestExists
<1>7. f = [s \in SUBSET (DOMAIN xs) |-> rule(f, s)]
  <2>1. \A s \in SUBSET (1..n) : f[s] = rule(f, s)
    BY <1>4, <1>5, <1>6 DEF Recurs
  <2> QED
    BY <1>1, <2>1
<1>8. iter = [s \in SUBSET (DOMAIN xs) |-> rule(iter, s)]
  BY <1>7
<1> HIDE DEF iter
<1>9. RecursWithin(iter, n, Int, 0, step)
  BY <1>1, <1>4, <1>6, <1>8 DEF RecursWithin
<1>10. EndsARun(iter, n, Int, 0, step)
  <2> HIDE DEF rule
  <2> QED
    BY ONLY <1>1, <1>3, <1>9, SolutionRunsInOrder
<1>11. PICK run \in [0..n -> Int] : Accumulates(run, n, 0, step) /\ iter[1..n] = run[n]
  BY <1>10 DEF EndsARun
<1>12. \A k \in 1..n : run[k] = run[k - 1] + xs[k]
  <2> SUFFICES ASSUME NEW k \in 1..n PROVE run[k] = run[k - 1] + xs[k]
    OBVIOUS
  <2>1. run[k - 1] \in Int
    BY <1>1
  <2> QED
    BY <1>4, <1>11, <2>1 DEF Accumulates
<1> QED
  BY <1>1, <1>2, <1>11, <1>12 DEF n, Accumulates, IsSumming

(* Two runs over the same elements are one.                                *)
LEMMA OneRunSums ==
  ASSUME NEW xs \in Seq(Int), NEW run, \A k \in 0..Len(xs) : run[k] \in Int, IsSumming(run, xs)
  PROVE  Summed(xs) = run[Len(xs)]
<1> DEFINE n == Len(xs)
<1>1. n \in Nat
  OBVIOUS
<1>2. PICK sums \in [0..n -> Int] : IsSumming(sums, xs) /\ Summed(xs) = sums[n]
  BY SummedRuns
<1> HIDE DEF n
<1> DEFINE B == {k \in 0..n : run[k] = sums[k]}
<1>3. 0 \in B
  BY <1>1, <1>2 DEF IsSumming
<1>4. ASSUME NEW k \in 0..(n - 1), k \in B
      PROVE  k + 1 \in B
  <2>1. k + 1 \in 1..n /\ (k + 1) - 1 = k /\ k + 1 \in 0..n
    BY <1>1
  <2> QED
    BY <1>2, <1>4, <2>1 DEF IsSumming, n
<1>5. n \in B
  <2> HIDE DEF B
  <2>1. \A k \in 0..n : k \in B
    BY <1>1, <1>3, <1>4, InductionUpTo
  <2> QED
    BY <1>1, <2>1
<1> QED
  BY <1>2, <1>5 DEF n

LEMMA SummedIsInt ==
  ASSUME NEW xs \in Seq(Int)
  PROVE  Summed(xs) \in Int
<1>1. Len(xs) \in 0..Len(xs)
  OBVIOUS
<1> QED
  BY <1>1, SummedRuns

(* The sums of a joined sequence are those of its parts, one after another.*)
LEMMA SummedJoins ==
  ASSUME NEW xs \in Seq(Int), NEW ys \in Seq(Int)
  PROVE  Summed(xs \o ys) = Summed(xs) + Summed(ys)
<1> DEFINE n == Len(xs)
           m == Len(ys)
<1>1. n \in Nat /\ m \in Nat /\ xs \o ys \in Seq(Int) /\ Len(xs \o ys) = n + m
      /\ \A i \in 1..(n + m) : (xs \o ys)[i] = IF i <= n THEN xs[i] ELSE ys[i - n]
  OBVIOUS
<1>2. PICK a \in [0..n -> Int] : IsSumming(a, xs) /\ Summed(xs) = a[n]
  BY SummedRuns
<1>3. PICK b \in [0..m -> Int] : IsSumming(b, ys) /\ Summed(ys) = b[m]
  BY SummedRuns
<1> DEFINE run == [k \in 0..(n + m) |-> IF k <= n THEN a[k] ELSE a[n] + b[k - n]]
<1>4. \A k \in 0..(n + m) : run[k] \in Int
  <2> SUFFICES ASSUME NEW k \in 0..(n + m) PROVE (IF k <= n THEN a[k] ELSE a[n] + b[k - n]) \in Int
    OBVIOUS
  <2>1. k <= n => k \in 0..n
    OBVIOUS
  <2>2. ~(k <= n) => k - n \in 0..m
    BY <1>1
  <2>3. n \in 0..n
    BY <1>1
  <2> HIDE DEF n, m
  <2>4. CASE k <= n
    <3>1. a[k] \in Int
      BY <2>1, <2>4
    <3> QED
      BY <2>4, <3>1
  <2>5. CASE ~(k <= n)
    <3>1. b[k - n] \in Int /\ a[n] \in Int
      BY <2>2, <2>3, <2>5
    <3> QED
      BY <2>5, <3>1
  <2> QED
    BY <2>4, <2>5
<1>5. IsSumming(run, xs \o ys)
  <2>1. run[0] = 0
    BY <1>1, <1>2 DEF IsSumming
  <2>2. ASSUME NEW k \in 1..(n + m)
        PROVE  run[k] = run[k - 1] + (xs \o ys)[k]
    <3>1. k - 1 \in 0..(n + m) /\ k \in 0..(n + m) /\ k \in Int
      BY <1>1
    <3>2. CASE k <= n
      <4>1. k \in 1..n /\ k - 1 <= n
        BY <1>1, <3>2
      <4> QED
        BY <1>1, <1>2, <3>1, <3>2, <4>1 DEF IsSumming
    <3>3. CASE k = n + 1
      <4>1. 1 \in 1..m /\ k - n = 1 /\ k - 1 = n /\ 0 \in 0..m /\ 1 - 1 = 0
        BY <1>1, <3>3
      <4>2. b[1] = 0 + ys[1] /\ ys[1] \in Int
        BY <1>3, <4>1 DEF IsSumming
      <4>3. run[k] = a[n] + b[1] /\ run[k - 1] = a[n] /\ (xs \o ys)[k] = ys[1]
        BY <1>1, <3>1, <3>3, <4>1
      <4>4. b[1] = ys[1]
        BY <4>2
      <4> QED
        BY <4>3, <4>4
    <3>4. CASE k > n + 1
      <4> DEFINE j == k - n
      <4>1. j \in 1..m /\ j - 1 \in 0..m /\ (k - 1) - n = j - 1 /\ n \in 0..n
        BY <1>1, <3>4
      <4>2. b[j] = b[j - 1] + ys[j]
        BY <1>3, <4>1 DEF IsSumming
      <4>3. run[k] = a[n] + b[j] /\ run[k - 1] = a[n] + b[j - 1] /\ (xs \o ys)[k] = ys[j]
        BY <1>1, <3>1, <3>4, <4>1
      <4>4. a[n] \in Int /\ b[j - 1] \in Int /\ ys[j] \in Int
        <5>1. ys[j] \in Int
          BY <4>1
        <5> HIDE DEF j, n, m
        <5> QED
          BY <4>1, <5>1
      <4> QED
        BY <4>2, <4>3, <4>4
    <3> QED
      BY <1>1, <3>1, <3>2, <3>3, <3>4
  <2> HIDE DEF run
  <2> QED
    BY <1>1, <2>1, <2>2 DEF IsSumming
<1>6. run[n + m] = a[n] + b[m]
  <2>1. CASE m = 0
    <3>1. b[m] = 0 /\ a[n] \in Int
      BY <1>1, <1>3, <2>1 DEF IsSumming
    <3> QED
      BY <1>1, <2>1, <3>1
  <2>2. CASE m # 0
    BY <1>1, <2>2
  <2> QED
    BY <2>1, <2>2
<1> HIDE DEF run, n, m
<1>7. Summed(xs \o ys) = run[Len(xs \o ys)]
  BY <1>1, <1>4, <1>5, OneRunSums
<1> QED
  BY <1>1, <1>2, <1>3, <1>6, <1>7

LEMMA Distributes == \A c, x, y \in Int : c * (x + y) = c * x + c * y /\ c * x \in Int
OBVIOUS

LEMMA AddsWithin ==
  ASSUME NEW lo \in Int, NEW hi \in Int, NEW a \in Int, NEW b \in Int, NEW x \in Int, NEW w \in Int,
         lo * b <= a, a <= hi * b, lo * w <= x, x <= hi * w
  PROVE  lo * (b + w) <= a + x /\ a + x <= hi * (b + w)
<1>1. lo * (b + w) = lo * b + lo * w /\ hi * (b + w) = hi * b + hi * w
  BY Distributes
<1>2. lo * b \in Int /\ lo * w \in Int /\ hi * b \in Int /\ hi * w \in Int
  OBVIOUS
<1> QED
  BY <1>1, <1>2

LEMMA SummedWithin ==
  ASSUME NEW xs \in Seq(Int), NEW ws \in Seq(Int), Len(xs) = Len(ws), NEW lo \in Int, NEW hi \in Int,
         \A i \in 1..Len(ws) : lo * ws[i] <= xs[i] /\ xs[i] <= hi * ws[i]
  PROVE  lo * Summed(ws) <= Summed(xs) /\ Summed(xs) <= hi * Summed(ws)
<1> DEFINE n == Len(xs)
<1>1. n \in Nat /\ n = Len(ws)
  OBVIOUS
<1>2. PICK a \in [0..n -> Int] : IsSumming(a, xs) /\ Summed(xs) = a[n]
  BY SummedRuns
<1>3. PICK b \in [0..n -> Int] : IsSumming(b, ws) /\ Summed(ws) = b[n]
  BY <1>1, SummedRuns
<1> DEFINE B == {k \in 0..n : lo * b[k] <= a[k] /\ a[k] <= hi * b[k]}
<1>4. 0 \in B
  BY <1>1, <1>2, <1>3 DEF IsSumming
<1>5. ASSUME NEW k \in 0..(n - 1), k \in B
      PROVE  k + 1 \in B
  <2> DEFINE x == xs[k + 1]
             w == ws[k + 1]
  <2>1. k + 1 \in 1..n /\ (k + 1) - 1 = k /\ k + 1 \in 0..n /\ k \in 0..n
    BY <1>1
  <2>2. a[k + 1] = a[k] + x /\ b[k + 1] = b[k] + w
    BY <1>1, <1>2, <1>3, <2>1 DEF IsSumming
  <2>3. a[k] \in Int /\ b[k] \in Int /\ x \in Int /\ w \in Int
    <3>1. k + 1 \in 1..Len(xs) /\ k + 1 \in 1..Len(ws)
      BY <1>1, <2>1
    <3>2. x \in Int /\ w \in Int
      BY <3>1
    <3> HIDE DEF x, w, n
    <3> QED
      BY <2>1, <3>2
  <2>4. lo * w <= x /\ x <= hi * w /\ lo * b[k] <= a[k] /\ a[k] <= hi * b[k]
    BY <1>1, <1>5, <2>1
  <2> HIDE DEF x, w
  <2>7. lo * (b[k] + w) <= a[k] + x /\ a[k] + x <= hi * (b[k] + w)
    BY <2>3, <2>4, AddsWithin
  <2> QED
    BY <2>1, <2>2, <2>7
<1>6. n \in B
  <2> HIDE DEF B
  <2>1. \A k \in 0..n : k \in B
    BY <1>1, <1>4, <1>5, InductionUpTo
  <2> QED
    BY <1>1, <2>1
<1> QED
  BY <1>2, <1>3, <1>6

-----------------------------------------------------------------------------
Walks(n) == [last : 0..n, entries : SUBSET (1..n), regime : Nat, unlabelable : Nat]

NoEntries == [last |-> 0, entries |-> {}, regime |-> 0, unlabelable |-> 0]

Cooldown(minHold) == IF minHold < 1 THEN 1 ELSE minHold

(* One turn of the walk.                                                   *)
Turn(points, cooldown, walk, i) ==
  IF (walk.last # 0 /\ i <= walk.last + cooldown) \/ points[i] = "quiet" THEN walk
  ELSE IF points[i] = "regime" THEN [walk EXCEPT !.regime = @ + 1]
  ELSE IF points[i] = "no_atr" \/ i + 1 > Len(points) THEN SkipUnlabelable(walk, i)
  ELSE [walk EXCEPT !.entries = @ \cup {i}, !.last = i]

LEMMA TurnIsWalk ==
  ASSUME NEW points \in Seq(PointKinds), NEW cooldown \in Nat,
         NEW walk \in Walks(Len(points)), NEW i \in 1..Len(points)
  PROVE  Turn(points, cooldown, walk, i) \in Walks(Len(points))
<1>1. points[i] \in PointKinds
  OBVIOUS
<1>2. \/ Turn(points, cooldown, walk, i) = walk
      \/ Turn(points, cooldown, walk, i) = [walk EXCEPT !.regime = @ + 1]
      \/ Turn(points, cooldown, walk, i) = [walk EXCEPT !.unlabelable = @ + 1]
      \/ Turn(points, cooldown, walk, i) = [walk EXCEPT !.entries = @ \cup {i}, !.last = i]
  BY <1>1 DEF Turn, PointKinds, SkipUnlabelable
<1> HIDE DEF Turn
<1>3. /\ walk = [last |-> walk.last, entries |-> walk.entries,
                regime |-> walk.regime, unlabelable |-> walk.unlabelable]
      /\ walk.last \in 0..Len(points) /\ walk.entries \in SUBSET (1..Len(points))
      /\ walk.regime \in Nat /\ walk.unlabelable \in Nat /\ i \in 0..Len(points)
  BY DEF Walks
<1>4. walk.regime + 1 \in Nat /\ walk.unlabelable + 1 \in Nat
      /\ walk.entries \cup {i} \in SUBSET (1..Len(points))
  BY <1>3
<1>5. [walk EXCEPT !.regime = @ + 1] \in Walks(Len(points))
  BY <1>3, <1>4 DEF Walks
<1>6. [walk EXCEPT !.unlabelable = @ + 1] \in Walks(Len(points))
  BY <1>3, <1>4 DEF Walks
<1>7. [walk EXCEPT !.entries = @ \cup {i}, !.last = i] \in Walks(Len(points))
  BY <1>3, <1>4 DEF Walks
<1> QED
  BY <1>2, <1>5, <1>6, <1>7

LEMMA WalkRuns ==
  ASSUME NEW points \in Seq(PointKinds), NEW minHold \in Int
  PROVE  \E run \in [0..Len(points) -> Walks(Len(points))] :
           /\ run[0] = NoEntries /\ Walk(points, minHold) = run[Len(points)]
           /\ \A k \in 1..Len(points) :
                run[k] = Turn(points, Cooldown(minHold), run[k - 1], k)
<1> DEFINE n == Len(points)
           c == Cooldown(minHold)
           V == Walks(n)
           order == [i \in DOMAIN points |-> i]
           step == [p \in (1..n) \X V |-> Turn(points, c, p[2], p[1])]
           rule(f, s) == IF s = {} THEN NoEntries
                         ELSE Turn(points, c, f[s \ {Max(s)}], order[Max(s)])
           iter == CHOOSE f : f = [s \in SUBSET (DOMAIN order) |-> rule(f, s)]
<1>1. n \in Nat /\ DOMAIN points = 1..n /\ c \in Nat /\ DOMAIN order = 1..n
  BY DEF Cooldown
<1>2. Walk(points, minHold) = iter[DOMAIN order]
  BY Zenon DEF Walk, FoldLeftDomain, FoldLeft, MapThenFoldSet, Turn, NoEntries, Cooldown
<1>3. step \in [(1..n) \X V -> V] /\ NoEntries \in V
  <2>1. \A p \in (1..n) \X V : Turn(points, c, p[2], p[1]) \in V
    BY <1>1, TurnIsWalk
  <2>2. NoEntries \in V
    BY <1>1 DEF NoEntries, Walks
  <2> QED
    BY <2>1, <2>2
<1>4. \A k \in 1..n : \A v \in V : step[<<k, v>>] = Turn(points, c, v, order[k])
  BY <1>1
<1> HIDE DEF n, c, V, order, step
<1>5. PICK f \in [SUBSET (1..n) -> V] : Recurs(f, n, NoEntries, step)
  BY <1>1, <1>3, RecursionHasSolution
<1>6. \A s \in SUBSET (1..n) : s # {} => Max(s) \in 1..n /\ s \ {Max(s)} \in SUBSET (1..n)
  BY <1>1, LargestExists
<1>7. f = [s \in SUBSET (DOMAIN order) |-> rule(f, s)]
  <2>1. \A s \in SUBSET (1..n) : f[s] = rule(f, s)
    BY <1>4, <1>5, <1>6 DEF Recurs
  <2> QED
    BY <1>1, <2>1
<1>8. iter = [s \in SUBSET (DOMAIN order) |-> rule(iter, s)]
  BY <1>7
<1> HIDE DEF iter
<1>9. RecursWithin(iter, n, V, NoEntries, step)
  BY <1>1, <1>4, <1>6, <1>8 DEF RecursWithin
<1>10. EndsARun(iter, n, V, NoEntries, step)
  <2> HIDE DEF rule
  <2> QED
    BY ONLY <1>1, <1>3, <1>9, SolutionRunsInOrder
<1>11. PICK run \in [0..n -> V] : Accumulates(run, n, NoEntries, step) /\ iter[1..n] = run[n]
  BY <1>10 DEF EndsARun
<1>12. \A k \in 1..n : run[k] = Turn(points, c, run[k - 1], k)
  <2> SUFFICES ASSUME NEW k \in 1..n PROVE run[k] = Turn(points, c, run[k - 1], k)
    OBVIOUS
  <2>1. run[k - 1] \in V /\ order[k] = k
    BY <1>1 DEF order
  <2> QED
    BY <1>4, <1>11, <2>1 DEF Accumulates
<1> QED
  BY <1>1, <1>2, <1>11, <1>12 DEF n, c, V, Accumulates

(* Outside the cooldown of every entry before it.                          *)
IsFree(i, entries, cooldown) == \A e \in entries : e < i => i > e + cooldown

(* What the walk has done after k points.                                  *)
Walked(points, cooldown, walk, k) ==
  /\ walk.entries \in SUBSET (1..k)
  /\ walk.last = 0 => walk.entries = {}
  /\ walk.last # 0 => walk.last \in walk.entries /\ \A e \in walk.entries : e <= walk.last
  /\ walk.entries = {i \in 1..k : /\ IsFree(i, walk.entries, cooldown)
                                  /\ points[i] = "ok" /\ i < Len(points)}
  /\ Cardinality({i \in 1..k : IsFree(i, walk.entries, cooldown) /\ points[i] # "quiet"})
       = Cardinality(walk.entries) + walk.regime + walk.unlabelable

LEMMA OneMoreThan ==
  ASSUME NEW k \in Nat, NEW S \in SUBSET (1..k)
  PROVE  /\ Cardinality(S) \in Nat
         /\ Cardinality(S \cup {k + 1}) = Cardinality(S) + 1
<1>1. IsFiniteSet(S)
  <2>1. IsFiniteSet(1..k)
    BY FS_Interval
  <2> QED
    BY <2>1, FS_Subset
<1>2. k + 1 \notin S
  OBVIOUS
<1> QED
  BY <1>1, <1>2, FS_AddElement, FS_CardinalityType

LEMMA TurnKeepsWalked ==
  ASSUME NEW points \in Seq(PointKinds), NEW cooldown \in Nat, NEW walk \in Walks(Len(points)),
         NEW k \in 0..(Len(points) - 1), Walked(points, cooldown, walk, k)
  PROVE  Walked(points, cooldown, Turn(points, cooldown, walk, k + 1), k + 1)
<1> DEFINE n == Len(points)
           i == k + 1
           next == Turn(points, cooldown, walk, i)
           E == walk.entries
           fires(S, m) == {j \in 1..m : IsFree(j, S, cooldown) /\ points[j] # "quiet"}
           good(S, m) == {j \in 1..m : IsFree(j, S, cooldown) /\ points[j] = "ok" /\ j < n}
<1>1. /\ k \in Nat /\ n \in Nat /\ i \in 1..n /\ i \notin 1..k /\ 1..i = (1..k) \cup {i}
      /\ points[i] \in PointKinds
  OBVIOUS
<1>2. /\ walk.last \in Nat /\ walk.regime \in Nat /\ walk.unlabelable \in Nat
      /\ E \in SUBSET (1..k) /\ E = good(E, k)
      /\ walk.last = 0 => E = {}
      /\ walk.last # 0 => walk.last \in E /\ \A e \in E : e <= walk.last
      /\ Cardinality(fires(E, k)) = Cardinality(E) + walk.regime + walk.unlabelable
  BY DEF Walks, Walked
<1>3. IsFree(i, E, cooldown) <=> ~(walk.last # 0 /\ i <= walk.last + cooldown)
  <2>1. \A e \in E : e \in Int /\ e < i
    BY <1>1, <1>2
  <2>2. CASE walk.last = 0
    BY <1>2, <2>2 DEF IsFree
  <2>3. CASE walk.last # 0
    <3>1. i > walk.last + cooldown => \A e \in E : i > e + cooldown
      BY <1>1, <1>2, <2>1, <2>3
    <3>2. walk.last \in E /\ walk.last < i
      BY <1>2, <2>1, <2>3
    <3>3. IsFree(i, E, cooldown) => i > walk.last + cooldown
      BY <3>2 DEF IsFree
    <3>4. i > walk.last + cooldown <=> ~(i <= walk.last + cooldown)
      BY <1>1, <1>2
    <3> QED
      BY <2>3, <3>1, <3>3, <3>4 DEF IsFree
  <2> QED
    BY <2>2, <2>3
<1>4. \A j \in 1..i : IsFree(j, E \cup {i}, cooldown) <=> IsFree(j, E, cooldown)
  BY <1>1 DEF IsFree
<1>5. /\ fires(E \cup {i}, i) = fires(E, i) /\ good(E \cup {i}, i) = good(E, i)
  BY <1>4
<1>6. /\ fires(E, i) = fires(E, k) \cup (IF IsFree(i, E, cooldown) /\ points[i] # "quiet"
                                        THEN {i} ELSE {})
      /\ good(E, i) = E \cup (IF IsFree(i, E, cooldown) /\ points[i] = "ok" /\ i < n
                              THEN {i} ELSE {})
  BY <1>1, <1>2
<1>7. /\ fires(E, k) \in SUBSET (1..k)
      /\ Cardinality(fires(E, k)) \in Nat /\ Cardinality(E) \in Nat
      /\ Cardinality(fires(E, k) \cup {i}) = Cardinality(fires(E, k)) + 1
      /\ Cardinality(E \cup {i}) = Cardinality(E) + 1
  <2>1. fires(E, k) \in SUBSET (1..k)
    OBVIOUS
  <2> QED
    BY <1>1, <1>2, <2>1, OneMoreThan
<1> SUFFICES /\ next.entries \in SUBSET (1..i)
             /\ next.last = 0 => next.entries = {}
             /\ next.last # 0 => next.last \in next.entries
                                   /\ \A e \in next.entries : e <= next.last
             /\ next.entries = good(next.entries, i)
             /\ Cardinality(fires(next.entries, i))
                  = Cardinality(next.entries) + next.regime + next.unlabelable
  BY DEF Walked
<1> HIDE DEF fires, good, n, i, next
<1>75. walk \in [last : Nat, entries : SUBSET (1..k), regime : Nat, unlabelable : Nat]
  BY <1>2 DEF Walks
<1>8. CASE ~IsFree(i, E, cooldown) \/ points[i] = "quiet"
  <2>1. next = walk
    <3>1. CASE ~IsFree(i, E, cooldown)
      BY <1>3, <3>1 DEF Turn, next
    <3>2. CASE IsFree(i, E, cooldown) /\ points[i] = "quiet"
      BY <1>3, <3>2 DEF Turn, next
    <3> QED
      BY <1>8, <3>1, <3>2
  <2>2. fires(E, i) = fires(E, k) /\ good(E, i) = E
    BY <1>6, <1>8
  <2>3. next.last = walk.last /\ next.entries = E /\ next.regime = walk.regime
        /\ next.unlabelable = walk.unlabelable
    BY <2>1
  <2>4. E \in SUBSET (1..i)
    BY <1>1, <1>2
  <2> QED
    BY <1>2, <2>2, <2>3, <2>4
<1>9. CASE IsFree(i, E, cooldown) /\ points[i] # "quiet" /\ ~(points[i] = "ok" /\ i < n)
  <2>1. \/ next = [walk EXCEPT !.regime = @ + 1]
        \/ next = [walk EXCEPT !.unlabelable = @ + 1]
    BY <1>1, <1>3, <1>9 DEF Turn, next, PointKinds, SkipUnlabelable, n
  <2>2. /\ next.last = walk.last /\ next.entries = E
        /\ next.regime + next.unlabelable = walk.regime + walk.unlabelable + 1
        /\ next.regime \in Nat /\ next.unlabelable \in Nat
    <3>1. CASE next = [walk EXCEPT !.regime = @ + 1]
      BY <1>2, <1>75, <3>1
    <3>2. CASE next = [walk EXCEPT !.unlabelable = @ + 1]
      BY <1>2, <1>75, <3>2
    <3> QED
      BY <2>1, <3>1, <3>2
  <2>3. fires(E, i) = fires(E, k) \cup {i} /\ good(E, i) = E
    BY <1>6, <1>9
  <2>4. Cardinality(fires(E, i)) = Cardinality(E) + next.regime + next.unlabelable
    <3>1. Cardinality(fires(E, i)) = Cardinality(fires(E, k)) + 1
      BY <1>7, <2>3
    <3>2. /\ Cardinality(fires(E, k)) = Cardinality(E) + walk.regime + walk.unlabelable
          /\ Cardinality(fires(E, k)) \in Nat /\ Cardinality(E) \in Nat
          /\ walk.regime \in Nat /\ walk.unlabelable \in Nat
      BY <1>2, <1>7
    <3>3. next.regime + next.unlabelable = walk.regime + walk.unlabelable + 1
          /\ next.regime \in Nat /\ next.unlabelable \in Nat
      BY <1>7, <2>2
    <3> HIDE DEF E
    <3>4. Cardinality(E) + next.regime + next.unlabelable
            = Cardinality(E) + (next.regime + next.unlabelable)
      BY ONLY <3>2, <3>3
    <3>5. Cardinality(E) + (next.regime + next.unlabelable)
            = Cardinality(E) + (walk.regime + walk.unlabelable + 1)
      BY ONLY <3>2, <3>3
    <3>6. Cardinality(fires(E, i)) = Cardinality(E) + (walk.regime + walk.unlabelable + 1)
      BY ONLY <3>1, <3>2
    <3> QED
      BY ONLY <3>4, <3>5, <3>6
  <2>5. E \in SUBSET (1..i)
    BY <1>1, <1>2
  <2> QED
    BY <1>2, <2>2, <2>3, <2>4, <2>5
<1>10. CASE IsFree(i, E, cooldown) /\ points[i] = "ok" /\ i < n
  <2>1. next = [walk EXCEPT !.entries = @ \cup {i}, !.last = i]
    BY <1>1, <1>3, <1>10 DEF Turn, next, PointKinds, SkipUnlabelable, n
  <2>2. /\ next.last = i /\ next.entries = E \cup {i}
        /\ next.regime = walk.regime /\ next.unlabelable = walk.unlabelable
    BY <1>75, <2>1
  <2>3. /\ fires(E \cup {i}, i) = fires(E, k) \cup {i}
        /\ good(E \cup {i}, i) = E \cup {i}
    BY <1>5, <1>6, <1>10
  <2>4. Cardinality(fires(E \cup {i}, i))
          = Cardinality(E \cup {i}) + next.regime + next.unlabelable
    <3>1. Cardinality(fires(E \cup {i}, i)) = Cardinality(fires(E, k)) + 1
      BY <1>7, <2>3
    <3>2. /\ Cardinality(fires(E, k)) = Cardinality(E) + walk.regime + walk.unlabelable
          /\ Cardinality(fires(E, k)) \in Nat /\ Cardinality(E) \in Nat
          /\ walk.regime \in Nat /\ walk.unlabelable \in Nat
      BY <1>2, <1>7
    <3>3. next.regime = walk.regime /\ next.unlabelable = walk.unlabelable
          /\ Cardinality(E \cup {i}) = Cardinality(E) + 1
      BY <1>7, <2>2
    <3> HIDE DEF E
    <3> QED
      BY ONLY <3>1, <3>2, <3>3
  <2>5. \A e \in E \cup {i} : e <= i /\ e \in 1..i
    BY <1>1, <1>2
  <2>6. i # 0
    BY <1>1
  <2> QED
    BY <2>2, <2>3, <2>4, <2>5, <2>6
<1> QED
  BY <1>8, <1>9, <1>10

(* backtest.rs: the walk enters wherever it may, holds its cooldown, and   *)
(* accounts once for every firing it does not enter, over any number of    *)
(* decision points and with any minimum holding time.                      *)
THEOREM EveryWalkIsGreedy ==
  ASSUME NEW points \in Seq(PointKinds), NEW minHold \in Int
  PROVE  WalkIsGreedy(points, minHold)
<1> DEFINE n == Len(points)
           c == Cooldown(minHold)
<1>1. n \in Nat /\ DOMAIN points = 1..n /\ c \in Nat
  BY DEF Cooldown
<1>2. PICK run \in [0..n -> Walks(n)] :
        /\ run[0] = NoEntries /\ Walk(points, minHold) = run[n]
        /\ \A k \in 1..n : run[k] = Turn(points, c, run[k - 1], k)
  BY WalkRuns
<1> HIDE DEF c
<1> DEFINE B == {k \in 0..n : Walked(points, c, run[k], k)}
<1>3. 0 \in B
  <2>1. 1..0 = {} /\ Cardinality({}) = 0
    BY FS_EmptySet
  <2>2. \A P : {i \in 1..0 : P} = {}
    BY <2>1
  <2>3. /\ NoEntries.entries = {} /\ NoEntries.last = 0
        /\ NoEntries.regime = 0 /\ NoEntries.unlabelable = 0
    BY DEF NoEntries
  <2>4. {i \in 1..0 : IsFree(i, {}, c) /\ points[i] # "quiet"} = {}
    BY <2>1
  <2>5. {i \in 1..0 : IsFree(i, {}, c) /\ points[i] = "ok" /\ i < Len(points)} = {}
    BY <2>1
  <2>6. Walked(points, c, NoEntries, 0)
    BY <2>1, <2>3, <2>4, <2>5 DEF Walked
  <2> QED
    BY <1>1, <1>2, <2>6
<1>4. ASSUME NEW k \in 0..(n - 1), k \in B
      PROVE  k + 1 \in B
  <2>1. k + 1 \in 1..n /\ (k + 1) - 1 = k /\ k \in 0..n /\ k + 1 \in 0..n
    BY <1>1
  <2>2. run[k + 1] = Turn(points, c, run[k], k + 1) /\ run[k] \in Walks(n)
    BY <1>2, <2>1
  <2>3. Walked(points, c, run[k + 1], k + 1)
    BY <1>1, <1>4, <2>2, TurnKeepsWalked
  <2> QED
    BY <2>1, <2>3
<1>5. Walked(points, c, Walk(points, minHold), n)
  <2> HIDE DEF B
  <2>1. \A k \in 0..n : k \in B
    BY <1>1, <1>3, <1>4, InductionUpTo
  <2>2. n \in B
    BY <1>1, <2>1
  <2> QED
    BY <1>2, <2>2 DEF B
<1> DEFINE walk == Walk(points, minHold)
           free == {i \in DOMAIN points : \A e \in walk.entries : e < i => i > e + c}
<1> HIDE DEF walk
<1>6. /\ {i \in free : points[i] = "ok" /\ i < n}
           = {i \in 1..n : IsFree(i, walk.entries, c) /\ points[i] = "ok" /\ i < n}
      /\ {i \in free : points[i] # "quiet"}
           = {i \in 1..n : IsFree(i, walk.entries, c) /\ points[i] # "quiet"}
  BY <1>1 DEF IsFree
<1>7. /\ walk.entries = {i \in free : points[i] = "ok" /\ i < n}
      /\ Cardinality({i \in free : points[i] # "quiet"})
           = Cardinality(walk.entries) + walk.regime + walk.unlabelable
  BY <1>5, <1>6 DEF Walked, walk
<1> QED
  BY <1>7 DEF WalkIsGreedy, walk, c, Cooldown

-----------------------------------------------------------------------------
Tallies == [total : Nat, wins : Nat, grossWin : Int, grossLoss : Int, sum : Int]

(* The tally after each trade.                                             *)
Pushed(stats, ret) ==
  [total |-> stats.total + 1,
   wins |-> stats.wins + (IF ret > 0 THEN 1 ELSE 0),
   grossWin |-> stats.grossWin + (IF ret > 0 THEN ret ELSE 0),
   grossLoss |-> stats.grossLoss + (IF ret > 0 THEN 0 ELSE -ret),
   sum |-> stats.sum + ret]

NoTrades == [total |-> 0, wins |-> 0, grossWin |-> 0, grossLoss |-> 0, sum |-> 0]

LEMMA TallyRuns ==
  ASSUME NEW rets \in Seq(Int)
  PROVE  \E run \in [0..Len(rets) -> Tallies] :
           /\ run[0] = NoTrades /\ TradeStats(rets) = run[Len(rets)]
           /\ \A k \in 1..Len(rets) : run[k] = Pushed(run[k - 1], rets[k])
<1> DEFINE n == Len(rets)
           step == [p \in (1..n) \X Tallies |-> Pushed(p[2], rets[p[1]])]
           rule(f, s) == IF s = {} THEN NoTrades ELSE Pushed(f[s \ {Max(s)}], rets[Max(s)])
           iter == CHOOSE f : f = [s \in SUBSET (1..n) |-> rule(f, s)]
<1>1. n \in Nat /\ DOMAIN rets = 1..n /\ \A i \in 1..n : rets[i] \in Int
  OBVIOUS
<1>2. TradeStats(rets) = iter[1..n]
  <2>1. TradeStats(rets) = iter[DOMAIN rets]
    BY Zenon, <1>1 DEF TradeStats, FoldLeft, MapThenFoldSet, Pushed, NoTrades, LossOf
  <2> QED
    BY <1>1, <2>1
<1>3. step \in [(1..n) \X Tallies -> Tallies] /\ NoTrades \in Tallies
  <2>1. ASSUME NEW v \in Tallies, NEW ret \in Int
        PROVE  Pushed(v, ret) \in Tallies
    <3>1. /\ v.total + 1 \in Nat /\ v.wins \in Nat /\ v.wins + 1 \in Nat
          /\ v.grossWin \in Int /\ v.grossWin + ret \in Int
          /\ v.grossLoss \in Int /\ v.grossLoss + -ret \in Int
          /\ v.sum + ret \in Int
      BY <2>1 DEF Tallies
    <3>2. /\ v.wins + 0 = v.wins /\ v.grossWin + 0 = v.grossWin
          /\ v.grossLoss + 0 = v.grossLoss
      BY <3>1
    <3>3. CASE ret > 0
      BY <3>1, <3>2, <3>3 DEF Tallies, Pushed
    <3>4. CASE ~(ret > 0)
      BY <3>1, <3>2, <3>4 DEF Tallies, Pushed
    <3> QED
      BY <3>3, <3>4
  <2>2. NoTrades \in Tallies
    BY DEF NoTrades, Tallies
  <2> HIDE DEF Pushed, Tallies, NoTrades, n
  <2>3. \A p \in (1..n) \X Tallies : Pushed(p[2], rets[p[1]]) \in Tallies
    BY <1>1, <2>1
  <2> QED
    BY <2>2, <2>3
<1> HIDE DEF n
<1>34. \A k \in 1..n : \A v \in Tallies : step[<<k, v>>] = Pushed(v, rets[k])
  OBVIOUS
<1> HIDE DEF step
<1>4. PICK f \in [SUBSET (1..n) -> Tallies] : Recurs(f, n, NoTrades, step)
  BY <1>1, <1>3, RecursionHasSolution
<1>5. \A s \in SUBSET (1..n) : s # {} => Max(s) \in 1..n /\ s \ {Max(s)} \in SUBSET (1..n)
  BY <1>1, LargestExists
<1>6. f = [s \in SUBSET (1..n) |-> rule(f, s)]
  <2>1. \A s \in SUBSET (1..n) : f[s] = rule(f, s)
    BY <1>34, <1>4, <1>5 DEF Recurs
  <2> QED
    BY <2>1
<1>7. iter = [s \in SUBSET (1..n) |-> rule(iter, s)]
  BY <1>6
<1> HIDE DEF iter
<1>8. RecursWithin(iter, n, Tallies, NoTrades, step)
  BY <1>34, <1>5, <1>7 DEF RecursWithin
<1>9. PICK run \in [0..n -> Tallies] : Accumulates(run, n, NoTrades, step) /\ iter[1..n] = run[n]
  <2>1. n \in Nat /\ NoTrades \in Tallies /\ step \in [(1..n) \X Tallies -> Tallies]
    BY <1>1, <1>3
  <2> HIDE DEF rule
  <2>2. EndsARun(iter, n, Tallies, NoTrades, step)
    BY ONLY <2>1, <1>8, SolutionRunsInOrder
  <2> QED
    BY <2>2 DEF EndsARun
<1>10. \A k \in 1..n : run[k] = Pushed(run[k - 1], rets[k])
  <2> SUFFICES ASSUME NEW k \in 1..n PROVE run[k] = Pushed(run[k - 1], rets[k])
    OBVIOUS
  <2>1. run[k - 1] \in Tallies
    BY <1>1
  <2> QED
    BY <1>34, <1>9, <2>1 DEF Accumulates
<1> QED
  BY <1>2, <1>9, <1>10 DEF n, Accumulates

(* trades.rs: the printed tally is one of the replayed trades, for any     *)
(* number of trades.                                                       *)
THEOREM EveryTallyAddsUp ==
  ASSUME NEW rets \in Seq(Int)
  PROVE  TallyAddsUp(rets)
<1> DEFINE n == Len(rets)
<1>1. n \in Nat /\ DOMAIN rets = 1..n /\ \A i \in 1..n : rets[i] \in Int
  OBVIOUS
<1>2. PICK run \in [0..n -> Tallies] :
        /\ run[0] = NoTrades /\ TradeStats(rets) = run[n]
        /\ \A k \in 1..n : run[k] = Pushed(run[k - 1], rets[k])
  BY TallyRuns
<1> HIDE DEF n
<1> DEFINE B == {k \in 0..n :
                   /\ run[k].grossWin - run[k].grossLoss = run[k].sum
                   /\ run[k].grossWin >= 0 /\ run[k].grossLoss >= 0
                   /\ run[k].grossLoss <= 0 => \A i \in 1..k : rets[i] >= 0}
<1>3. 0 \in B
  BY <1>1, <1>2 DEF NoTrades
<1>4. ASSUME NEW k \in 0..(n - 1), k \in B
      PROVE  k + 1 \in B
  <2>1. k + 1 \in 1..n /\ (k + 1) - 1 = k /\ k \in 0..n /\ k + 1 \in 0..n
    BY <1>1
  <2>2. run[k + 1] = Pushed(run[k], rets[k + 1]) /\ run[k] \in Tallies /\ rets[k + 1] \in Int
    BY <1>1, <1>2, <2>1
  <2>3. /\ run[k + 1].grossWin = run[k].grossWin + (IF rets[k + 1] > 0 THEN rets[k + 1] ELSE 0)
        /\ run[k + 1].grossLoss = run[k].grossLoss + (IF rets[k + 1] > 0 THEN 0 ELSE -rets[k + 1])
        /\ run[k + 1].sum = run[k].sum + rets[k + 1]
        /\ run[k].grossWin \in Int /\ run[k].grossLoss \in Int /\ run[k].sum \in Int
    BY <2>2 DEF Pushed, Tallies
  <2>4. \A i \in 1..(k + 1) : i \in 1..k \/ i = k + 1
    BY <2>1
  <2>5. \A i \in 1..(k + 1) : rets[i] \in Int
    BY <1>1, <2>1
  <2>6. /\ run[k].grossWin - run[k].grossLoss = run[k].sum
        /\ run[k].grossWin >= 0 /\ run[k].grossLoss >= 0
        /\ run[k].grossLoss <= 0 => \A i \in 1..k : rets[i] >= 0
    BY <1>4
  <2>7. /\ run[k + 1].grossWin - run[k + 1].grossLoss = run[k + 1].sum
        /\ run[k + 1].grossWin >= 0 /\ run[k + 1].grossLoss >= 0
    <3> HIDE DEF B
    <3> QED
      BY <1>1, <2>1, <2>2, <2>3, <2>6
  <2>8. run[k + 1].grossLoss <= 0 => \A i \in 1..(k + 1) : rets[i] >= 0
    <3> SUFFICES ASSUME run[k + 1].grossLoss <= 0
                 PROVE  \A i \in 1..(k + 1) : rets[i] >= 0
      OBVIOUS
    <3> HIDE DEF B
    <3>1. CASE rets[k + 1] > 0
      <4>1. run[k].grossLoss <= 0 /\ rets[k + 1] >= 0
        BY <2>2, <2>3, <3>1
      <4> QED
        BY <2>4, <2>6, <4>1
    <3>2. CASE ~(rets[k + 1] > 0)
      <4>1. run[k].grossLoss <= 0 /\ rets[k + 1] >= 0
        BY <2>2, <2>3, <2>6, <3>2
      <4> QED
        BY <2>4, <2>6, <4>1
    <3> QED
      BY <3>1, <3>2
  <2> QED
    BY <2>1, <2>7, <2>8
<1>5. n \in B
  <2> HIDE DEF B
  <2>1. \A k \in 0..n : k \in B
    BY <1>1, <1>3, <1>4, InductionUpTo
  <2> QED
    BY <1>1, <2>1
<1> DEFINE stats == TradeStats(rets)
<1>6. stats \in Tallies
  BY <1>1, <1>2
<1>7. /\ stats.grossWin - stats.grossLoss = stats.sum
      /\ stats.grossWin >= 0 /\ stats.grossLoss >= 0
      /\ stats.grossLoss <= 0 => \A i \in 1..n : rets[i] >= 0
  BY <1>2, <1>5
<1> HIDE DEF stats
<1>8. ProfitFactor(stats) = IF stats.grossLoss > 0 THEN <<stats.grossWin, stats.grossLoss>>
                            ELSE <<1, 0>>
  BY DEF ProfitFactor
<1>9. stats.grossWin \in Int /\ stats.grossLoss \in Int /\ stats.sum \in Int
  BY <1>6 DEF Tallies
<1>10. CASE stats.grossLoss > 0
  <2>1. ProfitFactor(stats)[1] = stats.grossWin /\ ProfitFactor(stats)[2] = stats.grossLoss
    BY <1>8, <1>10
  <2> QED
    BY <1>7, <1>9, <1>10, <2>1 DEF TallyAddsUp, stats
<1>11. CASE stats.grossLoss <= 0
  <2>1. ProfitFactor(stats)[2] = 0
    BY <1>8, <1>9, <1>11
  <2> QED
    BY <1>1, <1>7, <1>11, <2>1 DEF TallyAddsUp, stats
<1> QED
  BY <1>9, <1>10, <1>11
-----------------------------------------------------------------------------
(* The firewall, row by row.                                               *)
LabelRow == [ts : Int, t1 : Int]

Sifted == [kept : Seq(LabelRow), purged : Nat]

Sift(out, row, era) ==
  IF OverlapsEra(row, era) THEN [out EXCEPT !.purged = @ + 1]
  ELSE [out EXCEPT !.kept = Append(@, row)]

NothingSifted == [kept |-> <<>>, purged |-> 0]

LEMMA SiftIsSifted ==
  ASSUME NEW out \in Sifted, NEW row \in LabelRow, NEW era
  PROVE  /\ Sift(out, row, era) \in Sifted
         /\ OverlapsEra(row, era) =>
              /\ Sift(out, row, era).kept = out.kept
              /\ Sift(out, row, era).purged = out.purged + 1
         /\ ~OverlapsEra(row, era) =>
              /\ Sift(out, row, era).kept = Append(out.kept, row)
              /\ Sift(out, row, era).purged = out.purged
<1>1. out.kept \in Seq(LabelRow) /\ out.purged \in Nat
  BY DEF Sifted
<1>2. Append(out.kept, row) \in Seq(LabelRow)
  BY <1>1
<1>3. /\ [out EXCEPT !.purged = @ + 1] \in Sifted
      /\ [out EXCEPT !.kept = Append(@, row)] \in Sifted
  BY <1>1, <1>2 DEF Sifted
<1>4. /\ [out EXCEPT !.purged = @ + 1].kept = out.kept
      /\ [out EXCEPT !.purged = @ + 1].purged = out.purged + 1
      /\ [out EXCEPT !.kept = Append(@, row)].kept = Append(out.kept, row)
      /\ [out EXCEPT !.kept = Append(@, row)].purged = out.purged
  BY DEF Sifted
<1> QED
  BY <1>3, <1>4 DEF Sift

LEMMA FirewallRuns ==
  ASSUME NEW rows \in Seq(LabelRow), NEW era
  PROVE  \E run \in [0..Len(rows) -> Sifted] :
           /\ run[0] = NothingSifted /\ Firewall(rows, era) = run[Len(rows)]
           /\ \A k \in 1..Len(rows) : run[k] = Sift(run[k - 1], rows[k], era)
<1> DEFINE n == Len(rows)
           step == [p \in (1..n) \X Sifted |-> Sift(p[2], rows[p[1]], era)]
           rule(f, s) == IF s = {} THEN NothingSifted ELSE Sift(f[s \ {Max(s)}], rows[Max(s)], era)
           iter == CHOOSE f : f = [s \in SUBSET (DOMAIN rows) |-> rule(f, s)]
<1>1. n \in Nat /\ DOMAIN rows = 1..n /\ \A i \in 1..n : rows[i] \in LabelRow
  OBVIOUS
<1>2. Firewall(rows, era) = iter[DOMAIN rows]
  BY Zenon DEF Firewall, FoldLeft, MapThenFoldSet, Sift, NothingSifted
<1> HIDE DEF n
<1>3. step \in [(1..n) \X Sifted -> Sifted] /\ NothingSifted \in Sifted
  <2>1. \A k \in 1..n : \A s \in Sifted : Sift(s, rows[k], era) \in Sifted
    BY <1>1, SiftIsSifted
  <2>2. \A p \in (1..n) \X Sifted : Sift(p[2], rows[p[1]], era) \in Sifted
    BY <2>1
  <2>3. NothingSifted \in Sifted
    <3>1. <<>> \in Seq(LabelRow)
      OBVIOUS
    <3> QED
      BY <3>1 DEF NothingSifted, Sifted
  <2> QED
    BY <2>2, <2>3
<1>4. \A k \in 1..n : \A v \in Sifted : step[<<k, v>>] = Sift(v, rows[k], era)
  OBVIOUS
<1> HIDE DEF step
<1>5. PICK f \in [SUBSET (1..n) -> Sifted] : Recurs(f, n, NothingSifted, step)
  BY <1>1, <1>3, RecursionHasSolution
<1>6. \A s \in SUBSET (1..n) : s # {} => Max(s) \in 1..n /\ s \ {Max(s)} \in SUBSET (1..n)
  BY <1>1, LargestExists
<1>7. f = [s \in SUBSET (DOMAIN rows) |-> rule(f, s)]
  <2>1. \A s \in SUBSET (1..n) : f[s] = rule(f, s)
    BY <1>4, <1>5, <1>6 DEF Recurs
  <2> HIDE DEF rule
  <2> QED
    BY <1>1, <2>1
<1>8. iter = [s \in SUBSET (DOMAIN rows) |-> rule(iter, s)]
  BY <1>7
<1> HIDE DEF iter
<1>9. RecursWithin(iter, n, Sifted, NothingSifted, step)
  BY <1>1, <1>4, <1>6, <1>8 DEF RecursWithin
<1>10. EndsARun(iter, n, Sifted, NothingSifted, step)
  <2> HIDE DEF rule
  <2> QED
    BY ONLY <1>1, <1>3, <1>9, SolutionRunsInOrder
<1>11. PICK run \in [0..n -> Sifted] : Accumulates(run, n, NothingSifted, step) /\ iter[1..n] = run[n]
  BY <1>10 DEF EndsARun
<1>12. \A k \in 1..n : run[k] = Sift(run[k - 1], rows[k], era)
  <2> SUFFICES ASSUME NEW k \in 1..n PROVE run[k] = Sift(run[k - 1], rows[k], era)
    OBVIOUS
  <2>1. run[k - 1] \in Sifted
    BY <1>1
  <2> QED
    BY <1>4, <1>11, <2>1 DEF Accumulates
<1> QED
  BY <1>1, <1>2, <1>11, <1>12 DEF n, Accumulates

(* Over a label that ends no earlier than it begins, and an era likewise,  *)
(* to overlap is to have a day in common.                                  *)
LEMMA OverlapIsADay ==
  ASSUME NEW row \in LabelRow, row.ts <= row.t1, NEW from \in Int, NEW to \in Int, from <= to,
         NEW era, era = <<from, to>>
  PROVE  OverlapsEra(row, era) <=> \E d \in era[1]..era[2] : row.ts <= d /\ d <= row.t1
<1>1. row.ts \in Int /\ row.t1 \in Int /\ era[1] = from /\ era[2] = to
  BY DEF LabelRow
<1>2. ASSUME OverlapsEra(row, era)
      PROVE  \E d \in from..to : row.ts <= d /\ d <= row.t1
  <2>1. row.ts <= to /\ row.t1 >= from
    BY <1>1, <1>2 DEF OverlapsEra
  <2>2. CASE row.ts <= from
    <3>1. from \in from..to /\ row.ts <= from /\ from <= row.t1
      BY <1>1, <2>1, <2>2
    <3> QED
      BY <3>1
  <2>3. CASE ~(row.ts <= from)
    <3>1. row.ts \in from..to /\ row.ts <= row.ts /\ row.ts <= row.t1
      BY <1>1, <2>1, <2>3
    <3> QED
      BY <3>1
  <2> QED
    BY <2>2, <2>3
<1>3. ASSUME NEW d \in from..to, row.ts <= d, d <= row.t1
      PROVE  OverlapsEra(row, era)
  BY <1>1, <1>3 DEF OverlapsEra
<1> QED
  BY <1>1, <1>2, <1>3

LEMMA SpanOverlaps ==
  ASSUME NEW row \in LabelRow, NEW from \in Int, NEW to \in Int, NEW era, era = <<from, to>>,
         ~OverlapsEra(row, era)
  PROVE  ~ \E d \in era[1]..era[2] : row.ts <= d /\ d <= row.t1
<1>1. row.ts \in Int /\ row.t1 \in Int /\ era[1] = from /\ era[2] = to
  BY DEF LabelRow
<1> QED
  BY <1>1 DEF OverlapsEra

(* population.rs: however many rows and whatever the era, the firewall     *)
(* keeps the labels that span no reserved day, all of them, and counts the *)
(* others.                                                                 *)
THEOREM EveryReservedDayIsUntouched ==
  ASSUME NEW rows \in Seq(LabelRow), \A i \in 1..Len(rows) : rows[i].ts <= rows[i].t1,
         NEW from \in Int, NEW to \in Int, from <= to
  PROVE  EraStaysUntouched(rows, <<from, to>>)
<1> DEFINE n == Len(rows)
           era == <<from, to>>
           spans(row) == \E d \in era[1]..era[2] : row.ts <= d /\ d <= row.t1
<1>1. n \in Nat /\ DOMAIN rows = 1..n /\ \A i \in 1..n : rows[i] \in LabelRow
  OBVIOUS
<1>2. PICK run \in [0..n -> Sifted] :
        /\ run[0] = NothingSifted /\ Firewall(rows, era) = run[n]
        /\ \A k \in 1..n : run[k] = Sift(run[k - 1], rows[k], era)
  BY FirewallRuns
<1>3. \A i \in 1..n : OverlapsEra(rows[i], era) <=> spans(rows[i])
  BY <1>1, OverlapIsADay
<1> HIDE DEF n, era, spans
<1> DEFINE B == {k \in 0..n :
                   /\ \A i \in 1..Len(run[k].kept) : ~OverlapsEra(run[k].kept[i], era)
                   /\ \A j \in 1..k : OverlapsEra(rows[j], era)
                                      \/ \E i \in 1..Len(run[k].kept) : run[k].kept[i] = rows[j]
                   /\ run[k].purged + Len(run[k].kept) = k}
<1>4. 0 \in B
  <2>1. run[0].kept = <<>> /\ run[0].purged = 0 /\ Len(<<>>) = 0 /\ 0 \in 0..n
    BY <1>1, <1>2 DEF NothingSifted
  <2>2. \A i \in 1..0 : FALSE
    OBVIOUS
  <2> QED
    BY <2>1, <2>2
<1>5. ASSUME NEW k \in 0..(n - 1), k \in B
      PROVE  k + 1 \in B
  <2> DEFINE row == rows[k + 1]
             kept == run[k].kept
             new == run[k + 1].kept
  <2>1. k + 1 \in 1..n /\ (k + 1) - 1 = k /\ k \in 0..n /\ k + 1 \in 0..n /\ k \in Nat
    BY <1>1
  <2>2. run[k] \in Sifted /\ row \in LabelRow /\ run[k + 1] = Sift(run[k], row, era)
    BY <1>1, <1>2, <2>1
  <2>3. kept \in Seq(LabelRow) /\ run[k].purged \in Nat /\ Len(kept) \in Nat
    <3>1. kept \in Seq(LabelRow) /\ run[k].purged \in Nat
      BY <2>2 DEF Sifted
    <3> QED
      BY <3>1
  <2>4. /\ \A i \in 1..Len(kept) : ~OverlapsEra(kept[i], era)
        /\ \A j \in 1..k : OverlapsEra(rows[j], era) \/ \E i \in 1..Len(kept) : kept[i] = rows[j]
        /\ run[k].purged + Len(kept) = k
    BY <1>5
  <2>5. \A j \in 1..(k + 1) : j \in 1..k \/ j = k + 1
    BY <2>1
  <2>6. /\ OverlapsEra(row, era) => new = kept /\ run[k + 1].purged = run[k].purged + 1
        /\ ~OverlapsEra(row, era) => new = Append(kept, row) /\ run[k + 1].purged = run[k].purged
    BY <2>2, SiftIsSifted
  <2> HIDE DEF B, new, kept, row
  <2>7. CASE OverlapsEra(row, era)
    <3>1. new = kept /\ run[k + 1].purged = run[k].purged + 1
      BY <2>6, <2>7
    <3>2. \A j \in 1..(k + 1) : OverlapsEra(rows[j], era) \/ \E i \in 1..Len(new) : new[i] = rows[j]
      BY <2>4, <2>5, <2>7, <3>1 DEF row
    <3>3. run[k + 1].purged + Len(new) = k + 1
      <4>1. (run[k].purged + 1) + Len(kept) = k + 1
        <5> DEFINE a == run[k].purged
                   b == Len(kept)
        <5>1. a \in Int /\ b \in Int /\ k \in Int /\ a + b = k
          BY <2>1, <2>3, <2>4
        <5> HIDE DEF a, b
        <5>2. (a + 1) + b = k + 1
          BY ONLY <5>1
        <5> QED
          BY <5>2 DEF a, b
      <4> QED
        BY <3>1, <4>1
    <3> QED
      BY <2>1, <2>4, <3>1, <3>2, <3>3 DEF B, new
  <2>8. CASE ~OverlapsEra(row, era)
    <3>1. new = Append(kept, row) /\ run[k + 1].purged = run[k].purged
      BY <2>6, <2>8
    <3>2. /\ Len(new) = Len(kept) + 1 /\ new[Len(kept) + 1] = row
          /\ \A i \in 1..Len(kept) : new[i] = kept[i]
      BY <2>2, <2>3, <3>1
    <3>3. \A i \in 1..Len(new) : i \in 1..Len(kept) \/ i = Len(kept) + 1
      BY <2>3, <3>2
    <3>4. \A i \in 1..Len(kept) : i \in 1..Len(new)
      BY <2>3, <3>2
    <3>5. \A i \in 1..Len(new) : ~OverlapsEra(new[i], era)
      BY <2>4, <2>8, <3>2, <3>3
    <3>6. Len(kept) + 1 \in 1..Len(new)
      BY <2>3, <3>2
    <3>7. \A j \in 1..(k + 1) : OverlapsEra(rows[j], era) \/ \E i \in 1..Len(new) : new[i] = rows[j]
      <4> SUFFICES ASSUME NEW j \in 1..(k + 1), ~OverlapsEra(rows[j], era)
                   PROVE  \E i \in 1..Len(new) : new[i] = rows[j]
        OBVIOUS
      <4>1. CASE j \in 1..k
        <5>1. PICK i \in 1..Len(kept) : kept[i] = rows[j]
          BY <2>4, <4>1
        <5> QED
          BY <3>2, <3>4, <5>1
      <4>2. CASE j = k + 1
        BY <3>2, <3>6, <4>2 DEF row
      <4> QED
        BY <2>5, <4>1, <4>2
    <3>8. run[k + 1].purged + Len(new) = k + 1
      <4>1. run[k].purged + (Len(kept) + 1) = k + 1
        <5> DEFINE a == run[k].purged
                   b == Len(kept)
        <5>1. a \in Int /\ b \in Int /\ k \in Int /\ a + b = k
          BY <2>1, <2>3, <2>4
        <5> HIDE DEF a, b
        <5>2. a + (b + 1) = k + 1
          BY ONLY <5>1
        <5> QED
          BY <5>2 DEF a, b
      <4> QED
        BY <3>1, <3>2, <4>1
    <3> QED
      BY <2>1, <3>5, <3>7, <3>8 DEF B, new
  <2> QED
    BY <2>7, <2>8
<1>6. n \in B
  <2> HIDE DEF B
  <2>1. \A k \in 0..n : k \in B
    BY <1>1, <1>4, <1>5, InductionUpTo
  <2> QED
    BY <1>1, <2>1
<1> DEFINE result == Firewall(rows, era)
<1>7. result \in Sifted /\ result = run[n]
  BY <1>1, <1>2
<1>8. result.kept \in Seq(LabelRow)
  BY <1>7 DEF Sifted
<1>9. DOMAIN result.kept = 1..Len(result.kept)
  BY <1>8
<1>10. /\ \A i \in 1..Len(result.kept) : ~OverlapsEra(result.kept[i], era)
       /\ \A j \in 1..n : OverlapsEra(rows[j], era)
                          \/ \E i \in 1..Len(result.kept) : result.kept[i] = rows[j]
       /\ result.purged + Len(result.kept) = n
  BY <1>6, <1>7
<1> HIDE DEF result
<1>11. \A j \in 1..n : ~spans(rows[j]) => Contains(result.kept, rows[j])
  BY <1>3, <1>9, <1>10 DEF Contains
<1>12. \A i \in 1..Len(result.kept) : ~spans(result.kept[i])
  <2> SUFFICES ASSUME NEW i \in 1..Len(result.kept) PROVE ~spans(result.kept[i])
    OBVIOUS
  <2>1. result.kept[i] \in LabelRow /\ ~OverlapsEra(result.kept[i], era)
    BY <1>8, <1>10
  <2> QED
    BY <2>1, SpanOverlaps DEF spans, era
<1> QED
  BY <1>1, <1>9, <1>10, <1>11, <1>12 DEF EraStaysUntouched, n, era, spans, result
=============================================================================
