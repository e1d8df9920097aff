--------------------------- MODULE Monitor_proofs ---------------------------
(***************************************************************************)
(* Proofs about Monitor, for any strategies, trade histories, sources,     *)
(* weeks and nights that end early.  MonitorInvariant is inductive; what   *)
(* the night promises is read off it.                                      *)
(***************************************************************************)
EXTENDS Monitor, SequenceTheorems, TLAPS

-----------------------------------------------------------------------------
(* The writes of a night.                                                  *)
Flip(x) == x.op = "status"

IsReason(e, x, demotedBy) ==
  /\ e.subject = x.id
  /\ e.action \in Condemnations /\ StatusOf(e.action) = x.status
  /\ e.action = "demote" => e.detector = demotedBy

LEMMA ReasonsUnfolded ==
  ASSUME NEW w \in Seq(Write), NEW log, NEW by
  PROVE  ReasonsComeFirst(w, log, by) <=>
           \A i \in 1..Len(w) : Flip(w[i]) =>
             \/ \E e \in log : IsReason(e, w[i], by)
             \/ \E j \in 1..(i - 1) : w[j].op = "event" /\ IsReason(w[j].event, w[i], by)
<1>1. DOMAIN w = 1..Len(w)
  OBVIOUS
<1>2. ASSUME NEW i \in 1..Len(w)
      PROVE  (\E e \in log \cup {w[j].event : j \in {k \in 1..(i - 1) : w[k].op = "event"}} :
                IsReason(e, w[i], by)) <=>
             \/ \E e \in log : IsReason(e, w[i], by)
             \/ \E j \in 1..(i - 1) : w[j].op = "event" /\ IsReason(w[j].event, w[i], by)
  OBVIOUS
<1> QED
  BY <1>1, <1>2 DEF ReasonsComeFirst, IsReason, Flip

(* One detector's share of the writes owed for a strategy.                 *)
Share(w, id, lo, hi, by) ==
  /\ w \in Seq(Write)
  /\ ReasonsComeFirst(w, {}, by)
  /\ CondemnationsTakeEffect(w)
  /\ FlipsAreOrdered(w)
  /\ \A i \in 1..Len(w) : Flip(w[i]) => w[i].id = id /\ Turn[w[i].status] \in lo..hi

LEMMA TurnIsNat == \A st \in {"quarantined", "retired", "demoted"} : Turn[st] \in Nat
BY DEF Turn

LEMMA JoinFacts ==
  ASSUME NEW S, NEW u \in Seq(S), NEW v \in Seq(S)
  PROVE  /\ u \o v \in Seq(S) /\ Len(u \o v) = Len(u) + Len(v)
         /\ \A i \in 1..Len(u) : (u \o v)[i] = u[i]
         /\ \A i \in 1..Len(v) : (u \o v)[Len(u) + i] = v[i]
         /\ \A i \in 1..Len(u \o v) :
              i \in 1..Len(u) \/ (i - Len(u) \in 1..Len(v) /\ (u \o v)[i] = v[i - Len(u)])
OBVIOUS

LEMMA ShareFacts ==
  ASSUME NEW w, NEW id, NEW lo, NEW hi, NEW by, Share(w, id, lo, hi, by)
  PROVE  /\ \A i \in 1..Len(w) : Flip(w[i]) =>
              \E j \in 1..(i - 1) : w[j].op = "event" /\ IsReason(w[j].event, w[i], by)
         /\ \A i, j \in 1..Len(w) : i < j /\ Flip(w[i]) /\ Flip(w[j]) =>
              w[i].id = w[j].id /\ Turn[w[i].status] < Turn[w[j].status]
<1>1. w \in Seq(Write) /\ DOMAIN w = 1..Len(w)
  BY DEF Share
<1>2. ReasonsComeFirst(w, {}, by) /\ FlipsAreOrdered(w)
  BY DEF Share
<1> QED
  BY <1>1, <1>2, ReasonsUnfolded DEF FlipsAreOrdered, Flip

(* Shares whose turns follow each other make up a share.                   *)
LEMMA SharesAdd ==
  ASSUME NEW u, NEW v, NEW id, NEW by,
         NEW a \in Nat, NEW b \in Nat, NEW c \in Nat, NEW d \in Nat,
         b < c, a <= c, b <= d,
         Share(u, id, a, b, by), Share(v, id, c, d, by)
  PROVE  Share(u \o v, id, a, d, by)
<1> DEFINE w == u \o v
<1> DEFINE m == Len(u)
<1>1. /\ u \in Seq(Write) /\ v \in Seq(Write) /\ w \in Seq(Write)
      /\ Len(u) \in Nat /\ Len(v) \in Nat /\ Len(w) = m + Len(v)
      /\ \A i \in 1..m : w[i] = u[i]
      /\ \A i \in 1..Len(v) : w[m + i] = v[i]
      /\ \A i \in 1..Len(w) : i \in 1..m \/ (i - m \in 1..Len(v) /\ w[i] = v[i - m])
      /\ DOMAIN w = 1..Len(w) /\ DOMAIN u = 1..m /\ DOMAIN v = 1..Len(v)
  BY JoinFacts DEF Share
<1> HIDE DEF w
<1>2. ReasonsComeFirst(w, {}, by)
  <2>1. ASSUME NEW i \in 1..Len(w), Flip(w[i])
        PROVE  \E j \in 1..(i - 1) : w[j].op = "event" /\ IsReason(w[j].event, w[i], by)
    <3>1. CASE i \in 1..m
      <4>1. PICK j \in 1..(i - 1) : u[j].op = "event" /\ IsReason(u[j].event, u[i], by)
        BY <1>1, <2>1, <3>1, ShareFacts
      <4>2. w[j] = u[j] /\ w[i] = u[i]
        BY <1>1, <3>1
      <4> QED
        BY <4>1, <4>2
    <3>2. CASE i - m \in 1..Len(v) /\ w[i] = v[i - m]
      <4>1. PICK j \in 1..((i - m) - 1) :
               v[j].op = "event" /\ IsReason(v[j].event, v[i - m], by)
        BY <1>1, <2>1, <3>2, ShareFacts
      <4>2. w[m + j] = v[j] /\ m + j \in 1..(i - 1)
        BY <1>1, <3>2
      <4> QED
        BY <3>2, <4>1, <4>2
    <3> QED
      BY <1>1, <3>1, <3>2
  <2> QED
    BY <1>1, <2>1, ReasonsUnfolded
<1>3. CondemnationsTakeEffect(w)
  <2>1. ASSUME NEW i \in 1..Len(w), w[i].op = "event", w[i].event.action \in Condemnations
        PROVE  \E j \in (i + 1)..Len(w) : w[j].op = "status" /\ w[j].id = w[i].event.subject
    <3>1. CASE i \in 1..m
      <4>1. PICK j \in (i + 1)..m : u[j].op = "status" /\ u[j].id = u[i].event.subject
        BY <1>1, <2>1, <3>1 DEF Share, CondemnationsTakeEffect
      <4>2. w[j] = u[j] /\ w[i] = u[i] /\ j \in (i + 1)..Len(w)
        BY <1>1, <3>1
      <4> QED
        BY <4>1, <4>2
    <3>2. CASE i - m \in 1..Len(v) /\ w[i] = v[i - m]
      <4>1. PICK j \in ((i - m) + 1)..Len(v) :
               v[j].op = "status" /\ v[j].id = v[i - m].event.subject
        BY <1>1, <2>1, <3>2 DEF Share, CondemnationsTakeEffect
      <4>2. w[m + j] = v[j] /\ m + j \in (i + 1)..Len(w)
        BY <1>1, <3>2
      <4> QED
        BY <3>2, <4>1, <4>2
    <3> QED
      BY <1>1, <3>1, <3>2
  <2> QED
    BY <1>1, <2>1 DEF CondemnationsTakeEffect
<1>4. ASSUME NEW i \in 1..Len(w), Flip(w[i])
      PROVE  /\ w[i].id = id /\ Turn[w[i].status] \in a..d
             /\ i \in 1..m => Turn[w[i].status] \in a..b
             /\ i \notin 1..m => Turn[w[i].status] \in c..d
  BY <1>1, <1>4 DEF Share
<1>5. FlipsAreOrdered(w)
  <2>1. ASSUME NEW i \in 1..Len(w), NEW j \in 1..Len(w), i < j, Flip(w[i]), Flip(w[j])
        PROVE  w[i].id = w[j].id /\ Turn[w[i].status] < Turn[w[j].status]
    <3>1. CASE j \in 1..m
      <4>1. i \in 1..m /\ w[i] = u[i] /\ w[j] = u[j]
        BY <1>1, <2>1, <3>1
      <4> QED
        BY <2>1, <3>1, <4>1, ShareFacts
    <3>2. CASE i \in 1..m /\ j \notin 1..m
      BY <1>4, <2>1, <3>2
    <3>3. CASE i \notin 1..m /\ j \notin 1..m
      <4>1. /\ i - m \in 1..Len(v) /\ w[i] = v[i - m]
            /\ j - m \in 1..Len(v) /\ w[j] = v[j - m]
            /\ i - m < j - m
        BY <1>1, <2>1, <3>3
      <4> QED
        BY <2>1, <4>1, ShareFacts
    <3> QED
      BY <1>1, <2>1, <3>1, <3>2, <3>3
  <2> QED
    BY <1>1, <2>1 DEF FlipsAreOrdered, Flip
<1> QED
  BY <1>1, <1>2, <1>3, <1>4, <1>5 DEF Share, w

LEMMA EmptyShare ==
  ASSUME NEW id, NEW lo, NEW hi, NEW by
  PROVE  Share(<<>>, id, lo, hi, by)
<1>1. <<>> \in Seq(Write) /\ Len(<<>>) = 0 /\ DOMAIN <<>> = {}
  OBVIOUS
<1> QED
  BY <1>1 DEF Share, ReasonsComeFirst, CondemnationsTakeEffect, FlipsAreOrdered

(* An event that condemns nobody is a share by itself.                     *)
LEMMA NoticeShare ==
  ASSUME NEW id, NEW lo, NEW hi, NEW by, NEW x \in Write,
         x.op = "event", x.event.action \notin Condemnations
  PROVE  Share(<<x>>, id, lo, hi, by)
<1>1. /\ <<x>> \in Seq(Write) /\ Len(<<x>>) = 1 /\ DOMAIN <<x>> = 1..1
      /\ \A i \in 1..1 : <<x>>[i] = x
  OBVIOUS
<1> QED
  BY <1>1 DEF Share, ReasonsComeFirst, CondemnationsTakeEffect, FlipsAreOrdered, Flip

(* An event and the flip it is the reason for.                             *)
LEMMA CondemnationShare ==
  ASSUME NEW id, NEW t, NEW by, NEW x \in Write, NEW y \in Write,
         x.op = "event", Flip(y), IsReason(x.event, y, by), y.id = id, Turn[y.status] = t,
         t \in Nat
  PROVE  Share(<<x, y>>, id, t, t, by)
<1> DEFINE w == <<x, y>>
<1>1. /\ w \in Seq(Write) /\ Len(w) = 2 /\ DOMAIN w = 1..2
      /\ w[1] = x /\ w[2] = y
      /\ \A i \in 1..2 : i = 1 \/ i = 2
      /\ y.op # "event"
  BY DEF Flip
<1> HIDE DEF w
<1>2. ReasonsComeFirst(w, {}, by)
  <2>1. ASSUME NEW i \in 1..Len(w), Flip(w[i])
        PROVE  \E j \in 1..(i - 1) : w[j].op = "event" /\ IsReason(w[j].event, w[i], by)
    <3>1. i = 2
      BY <1>1, <2>1 DEF Flip
    <3>2. 1 \in 1..(i - 1)
      BY <3>1
    <3> QED
      BY <1>1, <3>1, <3>2
  <2> QED
    BY <1>1, <2>1, ReasonsUnfolded
<1>3. CondemnationsTakeEffect(w)
  <2>1. ASSUME NEW i \in DOMAIN w, w[i].op = "event"
        PROVE  \E j \in (i + 1)..Len(w) : w[j].op = "status" /\ w[j].id = w[i].event.subject
    <3>1. i = 1 /\ 2 \in (i + 1)..Len(w)
      BY <1>1, <2>1
    <3> QED
      BY <1>1, <3>1 DEF Flip, IsReason
  <2> QED
    BY <2>1 DEF CondemnationsTakeEffect
<1>4. FlipsAreOrdered(w)
  BY <1>1 DEF FlipsAreOrdered
<1>5. \A i \in 1..Len(w) : Flip(w[i]) => w[i].id = id /\ Turn[w[i].status] \in t..t
  BY <1>1 DEF Flip
<1> QED
  BY <1>1, <1>2, <1>3, <1>4, <1>5 DEF Share, w

LEMMA EventWriteIs ==
  ASSUME NEW subject \in Ids \cup Sources \cup {"regimes"}, NEW detector \in Detectors,
         NEW action \in Actions, nowWeek \in 1..MaxWeek
  PROVE  LET x == EventWrite(subject, detector, action) IN
         /\ x \in Write /\ x.op = "event"
         /\ x.event.subject = subject /\ x.event.detector = detector /\ x.event.action = action
BY DEF EventWrite, Write, Event

LEMMA TwoElements == \A a, b : <<a>> \o <<b>> = <<a, b>>
<1> SUFFICES ASSUME NEW a, NEW b PROVE <<a>> \o <<b>> = <<a, b>>
  OBVIOUS
<1> DEFINE u == <<a>> \o <<b>>
<1> DEFINE v == <<a, b>>
<1>1. <<a>> \in Seq({a, b}) /\ <<b>> \in Seq({a, b}) /\ Len(<<a>>) = 1 /\ Len(<<b>>) = 1
      /\ <<a>>[1] = a /\ <<b>>[1] = b
  OBVIOUS
<1>2. u \in Seq({a, b}) /\ Len(u) = 2 /\ u[1] = a /\ u[1 + 1] = b
  BY <1>1, JoinFacts
<1>3. v \in Seq({a, b}) /\ Len(v) = 2 /\ v[1] = a /\ v[2] = b
  OBVIOUS
<1> HIDE DEF u, v
<1>4. \A i \in 1..Len(u) : u[i] = v[i]
  BY <1>2, <1>3
<1>5. u = v
  BY <1>2, <1>3, <1>4, SeqEqual
<1> QED
  BY <1>5 DEF u, v

LEMMA OneElement == \A a : <<a>> \o <<>> = <<a>>
<1> SUFFICES ASSUME NEW a PROVE <<a>> \o <<>> = <<a>>
  OBVIOUS
<1> QED
  OBVIOUS

LEMMA DecisionShares ==
  ASSUME NEW id \in Ids, NEW detector \in Detectors, NEW action \in Actions, NEW by,
         nowWeek \in 1..MaxWeek, action = "demote" => detector = by
  PROVE  /\ action \in Condemnations =>
              Share(Decision(id, detector, action), id, Turn[StatusOf(action)],
                    Turn[StatusOf(action)], by)
         /\ action \notin Condemnations =>
              \A lo, hi \in Nat : Share(Decision(id, detector, action), id, lo, hi, by)
<1> DEFINE x == EventWrite(id, detector, action)
<1> DEFINE y == StatusWrite(id, StatusOf(action))
<1>1. /\ x \in Write /\ x.op = "event"
      /\ x.event.subject = id /\ x.event.detector = detector /\ x.event.action = action
  BY EventWriteIs
<1>2. CASE action \in Condemnations
  <2>1. StatusOf(action) \in {"quarantined", "retired", "demoted"}
    BY <1>2 DEF StatusOf, Condemnations
  <2>2. y \in Write /\ y.op = "status" /\ y.id = id /\ y.status = StatusOf(action)
    BY <2>1 DEF StatusWrite, Write, Status
  <2>3. Decision(id, detector, action) = <<x, y>>
    BY <1>2, TwoElements DEF Decision
  <2>4. IsReason(x.event, y, by) /\ Turn[StatusOf(action)] \in Nat
    BY <1>1, <1>2, <2>1, <2>2, TurnIsNat DEF IsReason
  <2> HIDE DEF x, y
  <2> QED
    BY <1>1, <1>2, <2>2, <2>3, <2>4, CondemnationShare DEF Flip
<1>3. CASE action \notin Condemnations
  <2>1. Decision(id, detector, action) = <<x>>
    BY <1>3, OneElement DEF Decision
  <2> HIDE DEF x
  <2> QED
    BY <1>1, <1>3, <2>1, NoticeShare
<1> QED
  BY <1>2, <1>3

(* The writes one strategy may be owed: sound, and in the order of the     *)
(* detectors.                                                              *)
LEMMA StrategyWritesShare ==
  ASSUME NEW s, s.id \in Ids, nowWeek \in 1..MaxWeek
  PROVE  Share(StrategyWrites(s), s.id, 1, 3, "decay")
<1>1. /\ {"quarantine", "shrink_size", "disable", "alert", "recalibrate", "demote"} \subseteq Actions
      /\ {"backtest_vs_live_divergence", "drawdown_breach", "calibration_break", "decay"}
           \subseteq Detectors
      /\ {"quarantine", "disable", "demote"} \subseteq Condemnations
      /\ "shrink_size" \notin Condemnations /\ "alert" \notin Condemnations
      /\ "recalibrate" \notin Condemnations
      /\ Turn[StatusOf("quarantine")] = 1 /\ Turn[StatusOf("disable")] = 2
      /\ Turn[StatusOf("demote")] = 3
      /\ "quarantine" # "demote" /\ "disable" # "demote" /\ "shrink_size" # "demote"
      /\ "recalibrate" # "demote"
  BY DEF Actions, Detectors, Condemnations, Turn, StatusOf
<1>2. Share(DivergenceWrites(s), s.id, 1, 1, "decay")
  <2>1. Share(Decision(s.id, "backtest_vs_live_divergence", "quarantine"), s.id, 1, 1, "decay")
    BY <1>1, DecisionShares
  <2>2. Share(Decision(s.id, "backtest_vs_live_divergence", "shrink_size"), s.id, 1, 1, "decay")
    BY <1>1, DecisionShares
  <2> QED
    BY <2>1, <2>2, EmptyShare DEF DivergenceWrites
<1>3. Share(DrawdownWrites(s), s.id, 2, 2, "decay")
  <2>1. Share(Decision(s.id, "drawdown_breach", "disable"), s.id, 2, 2, "decay")
    BY <1>1, DecisionShares
  <2>2. Share(<<EventWrite(s.id, "drawdown_breach", "alert")>>, s.id, 3, 2, "decay")
    <3> DEFINE x == EventWrite(s.id, "drawdown_breach", "alert")
    <3>1. x \in Write /\ x.op = "event" /\ x.event.action \notin Condemnations
      BY <1>1, EventWriteIs
    <3> HIDE DEF x
    <3>2. Share(<<x>>, s.id, 3, 2, "decay")
      BY <3>1, NoticeShare
    <3> QED
      BY <3>2 DEF x
  <2>3. Share(Decision(s.id, "drawdown_breach", "disable")
                \o <<EventWrite(s.id, "drawdown_breach", "alert")>>, s.id, 2, 2, "decay")
    <3>1. 2 < 3 /\ 2 <= 3 /\ 2 <= 2 /\ 2 \in Nat /\ 3 \in Nat
      OBVIOUS
    <3> QED
      BY <2>1, <2>2, <3>1, SharesAdd
  <2> QED
    BY <2>3, EmptyShare DEF DrawdownWrites
<1>4. Share(CalibrationWrites(s), s.id, 3, 2, "decay")
  <2>1. Share(Decision(s.id, "calibration_break", "recalibrate"), s.id, 3, 2, "decay")
    BY <1>1, DecisionShares
  <2> QED
    BY <2>1, EmptyShare DEF CalibrationWrites
<1>5. Share(DecayWrites(s), s.id, 3, 3, "decay")
  <2>1. Share(Decision(s.id, "decay", "demote"), s.id, 3, 3, "decay")
    BY <1>1, DecisionShares
  <2> QED
    BY <2>1, EmptyShare DEF DecayWrites
<1> DEFINE A == DivergenceWrites(s)
<1> DEFINE B == DrawdownWrites(s)
<1> DEFINE C == CalibrationWrites(s)
<1> DEFINE D == DecayWrites(s)
<1>6. Share(A, s.id, 1, 1, "decay") /\ Share(B, s.id, 2, 2, "decay")
      /\ Share(C, s.id, 3, 2, "decay") /\ Share(D, s.id, 3, 3, "decay")
      /\ StrategyWrites(s) = A \o B \o C \o D
  BY <1>2, <1>3, <1>4, <1>5 DEF StrategyWrites
<1> HIDE DEF A, B, C, D
<1>7. Share(A \o B, s.id, 1, 2, "decay")
  BY <1>6, SharesAdd
<1>8. Share((A \o B) \o C, s.id, 1, 2, "decay")
  BY <1>6, <1>7, SharesAdd
<1>9. Share(((A \o B) \o C) \o D, s.id, 1, 3, "decay")
  BY <1>6, <1>8, SharesAdd
<1> QED
  BY <1>6, <1>9

LEMMA StalenessWritesAre ==
  ASSUME NEW source \in Ids \cup Sources, nowWeek \in 1..MaxWeek
  PROVE  /\ StalenessWrites(source) \in Seq(Write)
         /\ \A i \in 1..Len(StalenessWrites(source)) :
              LET x == StalenessWrites(source)[i] IN
              x.op = "event" /\ x.event.action \notin Condemnations
<1> DEFINE x == EventWrite(source, "data_staleness", "skip_degraded")
<1> DEFINE y == EventWrite(source, "data_staleness", "alert")
<1>1. /\ x \in Write /\ x.op = "event" /\ x.event.action = "skip_degraded"
      /\ y \in Write /\ y.op = "event" /\ y.event.action = "alert"
  BY EventWriteIs DEF Detectors, Actions
<1>2. StalenessWrites(source) = <<x, y>>
  BY DEF StalenessWrites
<1> HIDE DEF x, y
<1>3. <<x, y>> \in Seq(Write) /\ \A i \in 1..Len(<<x, y>>) : <<x, y>>[i] \in {x, y}
  BY <1>1
<1> QED
  BY <1>1, <1>2, <1>3 DEF Condemnations

-----------------------------------------------------------------------------
(* A night writes the head of what it owes and goes on with the tail.      *)
LEMMA TailFacts ==
  ASSUME NEW w \in Seq(Write), w # <<>>
  PROVE  /\ Len(w) \in Nat \ {0} /\ Head(w) = w[1] /\ w[1] \in Write /\ 1 \in 1..Len(w)
         /\ Tail(w) \in Seq(Write) /\ Len(Tail(w)) = Len(w) - 1
         /\ DOMAIN w = 1..Len(w) /\ DOMAIN Tail(w) = 1..Len(Tail(w))
         /\ \A i \in 1..Len(Tail(w)) : Tail(w)[i] = w[i + 1] /\ i + 1 \in 1..Len(w)
         /\ \A i \in 1..Len(w) : i # 1 => i - 1 \in 1..Len(Tail(w)) /\ Tail(w)[i - 1] = w[i]
OBVIOUS

LEMMA ReasonsSurviveTheHead ==
  ASSUME NEW w \in Seq(Write), w # <<>>, NEW log, NEW more, NEW by,
         ReasonsComeFirst(w, log, by),
         log \subseteq more, w[1].op = "event" => w[1].event \in more
  PROVE  ReasonsComeFirst(Tail(w), more, by)
<1> DEFINE t == Tail(w)
<1>1. /\ t \in Seq(Write) /\ Len(t) = Len(w) - 1 /\ Len(w) \in Nat
      /\ \A i \in 1..Len(t) : t[i] = w[i + 1] /\ i + 1 \in 1..Len(w)
      /\ \A i \in 1..Len(w) : i # 1 => i - 1 \in 1..Len(t) /\ t[i - 1] = w[i]
  BY TailFacts
<1>2. \A i \in 1..Len(w) : Flip(w[i]) =>
             \/ \E e \in log : IsReason(e, w[i], by)
             \/ \E j \in 1..(i - 1) : w[j].op = "event" /\ IsReason(w[j].event, w[i], by)
  BY ReasonsUnfolded
<1> HIDE DEF t
<1>3. ASSUME NEW i \in 1..Len(t), Flip(t[i])
      PROVE  \/ \E e \in more : IsReason(e, t[i], by)
             \/ \E j \in 1..(i - 1) : t[j].op = "event" /\ IsReason(t[j].event, t[i], by)
  <2>1. i + 1 \in 1..Len(w) /\ t[i] = w[i + 1] /\ (i + 1) - 1 = i
    BY <1>1
  <2>2. \/ \E e \in log : IsReason(e, t[i], by)
        \/ \E j \in 1..i : w[j].op = "event" /\ IsReason(w[j].event, t[i], by)
    BY <1>2, <1>3, <2>1
  <2>3. ASSUME NEW j \in 1..i, w[j].op = "event", IsReason(w[j].event, t[i], by), j # 1
        PROVE  \E k \in 1..(i - 1) : t[k].op = "event" /\ IsReason(t[k].event, t[i], by)
    <3>1. j \in 1..Len(w) /\ j - 1 \in 1..(i - 1) /\ t[j - 1] = w[j]
      BY <1>1, <2>1, <2>3
    <3> QED
      BY <2>3, <3>1
  <2> QED
    BY <2>2, <2>3
<1>4. ReasonsComeFirst(t, more, by)
  BY <1>1, <1>3, ReasonsUnfolded
<1> QED
  BY <1>4 DEF t

LEMMA ShareSurvivesTheHead ==
  ASSUME NEW w \in Seq(Write), w # <<>>
  PROVE  /\ CondemnationsTakeEffect(w) => CondemnationsTakeEffect(Tail(w))
         /\ FlipsAreOrdered(w) => FlipsAreOrdered(Tail(w))
<1> DEFINE t == Tail(w)
<1>1. /\ t \in Seq(Write) /\ Len(t) = Len(w) - 1 /\ Len(w) \in Nat
      /\ DOMAIN w = 1..Len(w) /\ DOMAIN t = 1..Len(t)
      /\ \A i \in 1..Len(t) : t[i] = w[i + 1] /\ i + 1 \in 1..Len(w)
      /\ \A i \in 1..Len(w) : i # 1 => i - 1 \in 1..Len(t) /\ t[i - 1] = w[i]
  BY TailFacts
<1> HIDE DEF t
<1>2. ASSUME CondemnationsTakeEffect(w), NEW i \in DOMAIN t, t[i].op = "event",
             t[i].event.action \in Condemnations
      PROVE  \E j \in (i + 1)..Len(t) : t[j].op = "status" /\ t[j].id = t[i].event.subject
  <2>1. t[i] = w[i + 1] /\ i + 1 \in DOMAIN w
    BY <1>1, <1>2
  <2>2. PICK j \in ((i + 1) + 1)..Len(w) : w[j].op = "status" /\ w[j].id = t[i].event.subject
    BY <1>2, <2>1 DEF CondemnationsTakeEffect
  <2>3. j - 1 \in (i + 1)..Len(t) /\ t[j - 1] = w[j]
    BY <1>1, <2>2, <1>2
  <2> QED
    BY <2>2, <2>3
<1>3. ASSUME FlipsAreOrdered(w), NEW i \in DOMAIN t, NEW j \in DOMAIN t, i < j,
             t[i].op = "status", t[j].op = "status"
      PROVE  t[i].id = t[j].id /\ Turn[t[i].status] < Turn[t[j].status]
  <2>1. /\ i + 1 \in DOMAIN w /\ j + 1 \in DOMAIN w /\ i + 1 < j + 1
        /\ t[i] = w[i + 1] /\ t[j] = w[j + 1]
    BY <1>1, <1>3
  <2> QED
    BY <1>3, <2>1 DEF FlipsAreOrdered
<1>4. /\ CondemnationsTakeEffect(w) => CondemnationsTakeEffect(t)
      /\ FlipsAreOrdered(w) => FlipsAreOrdered(t)
  BY <1>2, <1>3 DEF CondemnationsTakeEffect, FlipsAreOrdered
<1> QED
  BY <1>4 DEF t

LEMMA NothingOwed ==
  /\ \A log, by : ReasonsComeFirst(<<>>, log, by)
  /\ CondemnationsTakeEffect(<<>>) /\ FlipsAreOrdered(<<>>)
  /\ <<>> \in Seq(Write) /\ DOMAIN <<>> = {}
<1>1. <<>> \in Seq(Write) /\ DOMAIN <<>> = {}
  OBVIOUS
<1> QED
  BY <1>1 DEF ReasonsComeFirst, CondemnationsTakeEffect, FlipsAreOrdered

LEMMA LongerLog ==
  ASSUME NEW w \in Seq(Write), NEW log, NEW by, ReasonsComeFirst(w, {}, by)
  PROVE  ReasonsComeFirst(w, log, by)
BY ReasonsUnfolded

-----------------------------------------------------------------------------
(* The inductive invariant: MonitorInvariant without what follows from it. *)
NightInvariant ==
  /\ MonitorTypeOK
  /\ CondemnationIsOnRecord
  /\ OwedWritesAreSound
  /\ QueueIsUntouched
  /\ RetiredInHandIsTonights
  /\ CondemnedTonightIsDue
  /\ RemovedAreCondemned

LEMMA NightTypes ==
  ASSUME MonitorTypeOK
  PROVE  /\ strategies \in [Ids -> Row \cup {NoRow}]
         /\ \A id \in Stored : strategies[id] \in Row /\ strategies[id].status \in Status
         /\ todo \in Seq(Write) /\ nowWeek \in 1..MaxWeek /\ week \in 1..MaxWeek
         /\ PromotedIds \subseteq Stored /\ Stored \subseteq Ids
         /\ DOMAIN todo = 1..Len(todo)
BY DEF MonitorTypeOK, TableTypeOK, Stored, Row, PromotedIds, HasStatus

LEMMA QueueEntries ==
  \A a \in Ids \cup Sources, b \in BOOLEAN :
    [id |-> a, scored |-> b] \in [id : Ids \cup Sources, scored : BOOLEAN]
OBVIOUS

(* What a night loads: every row that is not retired, once.                *)
LEMMA WatchedFacts ==
  \A s \in Watched :
    /\ s \in [id : Ids \cup Sources, scored : BOOLEAN]
    /\ s.id \in Stored /\ strategies[s.id].status # "retired"
    /\ \A s2 \in Watched : s.id = s2.id => s = s2
<1>1. ASSUME NEW s \in Watched
      PROVE  /\ s.id \in Stored /\ strategies[s.id].status # "retired"
             /\ s = [id |-> s.id, scored |-> oosLatest[s.id] # NoScore]
  BY DEF Watched
<1>2. Stored \subseteq Ids
  BY DEF Stored
<1>3. ASSUME NEW s \in Watched
      PROVE  s \in [id : Ids \cup Sources, scored : BOOLEAN]
  <2> DEFINE scored == oosLatest[s.id] # NoScore
  <2>1. s.id \in Ids \cup Sources /\ scored \in BOOLEAN /\ s = [id |-> s.id, scored |-> scored]
    BY <1>1, <1>2
  <2> HIDE DEF scored
  <2> QED
    BY <2>1, QueueEntries, Zenon
<1>4. ASSUME NEW s \in Watched, NEW s2 \in Watched, s.id = s2.id
      PROVE  s = s2
  BY <1>1, <1>4
<1> QED
  BY <1>1, <1>3, <1>4

LEMMA BeginNightKeeps ==
  ASSUME NightInvariant, BeginNight
  PROVE  NightInvariant'
<1>1. /\ UNCHANGED <<strategies, oosLatest, touched, todo, events, week, breach, changelog,
                     crashes, removed>>
      /\ mpc = "idle" /\ mpc' = "strategies" /\ nightLog' = {} /\ nowWeek' = week
      /\ queue' = Watched
  BY DEF BeginNight, tableVars
<1>2. \A s \in Watched :
        /\ s \in [id : Ids \cup Sources, scored : BOOLEAN]
        /\ s.id \in Stored /\ strategies[s.id].status # "retired"
        /\ \A s2 \in Watched : s.id = s2.id => s = s2
  BY WatchedFacts
<1>3. \A i \in DOMAIN todo : todo[i].op = "event" /\ todo[i].event.action \notin Condemnations
  BY <1>1 DEF NightInvariant, OwedWritesAreSound
<1>4. MonitorTypeOK'
  BY <1>1, <1>2 DEF NightInvariant, MonitorTypeOK, TableTypeOK, Phases
<1>5. OwedWritesAreSound'
  <2>1. ReasonsComeFirst(todo', nightLog', DemotedBy') /\ CondemnationsTakeEffect(todo')
        /\ FlipsAreOrdered(todo')
    BY <1>1, <1>3 DEF ReasonsComeFirst, CondemnationsTakeEffect, FlipsAreOrdered
  <2> QED
    BY <1>1, <2>1 DEF OwedWritesAreSound
<1>6. QueueIsUntouched'
  BY <1>1, <1>2, <1>3 DEF QueueIsUntouched, Stored
<1>7. RetiredInHandIsTonights'
  BY <1>1, <1>3 DEF RetiredInHandIsTonights
<1>8. CondemnedTonightIsDue'
  BY <1>1 DEF CondemnedTonightIsDue
<1> QED
  BY <1>1, <1>4, <1>5, <1>6, <1>7, <1>8
  DEF NightInvariant, CondemnationIsOnRecord, RemovedAreCondemned, HasStatus, Stored

(* A share of writes is taken on for a row that is not retired.            *)
LEMMA TakingOnAShare ==
  ASSUME NightInvariant, NEW s \in queue, todo = <<>>,
         mpc \in {"strategies", "regate"},
         Share(todo', s.id, 1, 3, DemotedBy), queue' = queue \ {s},
         mpc = "regate" => \A i \in 1..Len(todo') : Flip(todo'[i]) => todo'[i].status = "demoted",
         UNCHANGED <<tableVars, mpc, nowWeek, nightLog, events, week, breach, changelog, crashes,
                     removed>>
  PROVE  NightInvariant'
<1>1. /\ todo' \in Seq(Write) /\ DOMAIN todo' = 1..Len(todo')
      /\ ReasonsComeFirst(todo', {}, DemotedBy) /\ CondemnationsTakeEffect(todo')
      /\ FlipsAreOrdered(todo')
      /\ \A i \in DOMAIN todo' : todo'[i].op = "status" => todo'[i].id = s.id
  BY DEF Share, Flip
<1>2. s.id \in Stored /\ strategies[s.id].status # "retired"
  BY DEF NightInvariant, QueueIsUntouched, PromotedIds, HasStatus
<1>3. UNCHANGED <<strategies, oosLatest, touched>>
  BY DEF tableVars
<1>4. MonitorTypeOK'
  BY <1>1, <1>3 DEF NightInvariant, MonitorTypeOK, TableTypeOK
<1>5. OwedWritesAreSound'
  BY <1>1, LongerLog DEF NightInvariant, OwedWritesAreSound, DemotedBy, Flip
<1>6. QueueIsUntouched'
  BY <1>1, <1>3 DEF NightInvariant, QueueIsUntouched, Stored, PromotedIds, HasStatus
<1>7. RetiredInHandIsTonights'
  BY <1>1, <1>2, <1>3 DEF RetiredInHandIsTonights, HasStatus
<1>8. CondemnedTonightIsDue'
  <2>1. \A e \in nightLog : e.action \in Condemnations => e.subject \notin PromotedIds
    BY NothingOwed DEF NightInvariant, CondemnedTonightIsDue
  <2> QED
    BY <1>3, <2>1 DEF CondemnedTonightIsDue, PromotedIds, HasStatus, Stored
<1> QED
  BY <1>3, <1>4, <1>5, <1>6, <1>7, <1>8
  DEF NightInvariant, CondemnationIsOnRecord, RemovedAreCondemned, HasStatus, Stored

LEMMA JudgeStrategyKeeps ==
  ASSUME NightInvariant, JudgeStrategy
  PROVE  NightInvariant'
<1>1. PICK s \in queue : todo' = StrategyWrites(s) /\ queue' = queue \ {s}
  BY DEF JudgeStrategy
<1>2. s.id \in Ids /\ nowWeek \in 1..MaxWeek
  BY DEF NightInvariant, QueueIsUntouched, JudgeStrategy, Stored, MonitorTypeOK
<1>3. Share(todo', s.id, 1, 3, DemotedBy)
  BY <1>1, <1>2, StrategyWritesShare DEF DemotedBy, JudgeStrategy
<1> QED
  BY <1>1, <1>3, TakingOnAShare DEF JudgeStrategy

LEMMA RegateKeeps ==
  ASSUME NightInvariant, Regate
  PROVE  NightInvariant'
<1>1. PICK s \in queue :
        todo' = Decision(s.id, "regate_failed", "demote") /\ queue' = queue \ {s}
  BY DEF Regate
<1>2. s.id \in Ids /\ nowWeek \in 1..MaxWeek
  BY DEF NightInvariant, QueueIsUntouched, Regate, PromotedIds, MonitorTypeOK
<1>3. Share(todo', s.id, 3, 3, "regate_failed")
  BY <1>1, <1>2, DecisionShares
  DEF Detectors, Actions, Condemnations, Turn, StatusOf
<1>4. Share(todo', s.id, 1, 3, DemotedBy)
  BY <1>3 DEF Share, DemotedBy, Regate
<1>5. ASSUME NEW i \in 1..Len(todo'), Flip(todo'[i])
      PROVE  todo'[i].status = "demoted"
  <2>1. \E e : IsReason(e, todo'[i], "regate_failed")
    BY <1>3, <1>5, ShareFacts
  <2>2. todo'[i].status \in {"quarantined", "retired", "demoted"}
    BY <2>1 DEF IsReason, Condemnations, StatusOf
  <2>3. Turn[todo'[i].status] \in 3..3
    BY <1>3, <1>5 DEF Share
  <2> QED
    BY <2>2, <2>3 DEF Turn
<1> QED
  BY <1>1, <1>4, <1>5, TakingOnAShare DEF Regate

LEMMA WriteEventKeeps ==
  ASSUME NightInvariant, WriteEvent
  PROVE  NightInvariant'
<1> DEFINE e == todo[1].event
<1>1. /\ todo \in Seq(Write) /\ todo # <<>> /\ todo[1].op = "event" /\ todo[1] \in Write
      /\ DOMAIN todo = 1..Len(todo) /\ DOMAIN todo' = 1..Len(todo')
      /\ todo' = Tail(todo) /\ todo' \in Seq(Write) /\ 1 \in DOMAIN todo /\ Len(todo) \in Nat
      /\ Len(todo') = Len(todo) - 1
      /\ \A i \in DOMAIN todo' : todo'[i] = todo[i + 1] /\ i + 1 \in DOMAIN todo
      /\ \A i \in DOMAIN todo : i # 1 => i - 1 \in DOMAIN todo' /\ todo'[i - 1] = todo[i]
      /\ events' = events \cup {e} /\ nightLog' = nightLog \cup {e}
      /\ UNCHANGED <<strategies, oosLatest, touched, mpc, queue, nowWeek, week, breach,
                     changelog, crashes, removed>>
  BY NightTypes, TailFacts DEF WriteEvent, NightInvariant, tableVars
<1>2. e \in Event
  BY <1>1 DEF Write
<1> HIDE DEF e
<1>3. MonitorTypeOK'
  BY <1>1, <1>2 DEF NightInvariant, MonitorTypeOK, TableTypeOK
<1>4. CondemnationIsOnRecord'
  BY <1>1 DEF NightInvariant, CondemnationIsOnRecord, HasStatus, Stored
<1>5. OwedWritesAreSound'
  <2>1. nightLog' \subseteq events'
    BY <1>1 DEF NightInvariant, OwedWritesAreSound
  <2>2. ASSUME mpc \in {"strategies", "regate"}
        PROVE  /\ ReasonsComeFirst(todo', nightLog', DemotedBy')
               /\ CondemnationsTakeEffect(todo') /\ FlipsAreOrdered(todo')
    <3>1. /\ ReasonsComeFirst(todo, nightLog, DemotedBy)
          /\ CondemnationsTakeEffect(todo) /\ FlipsAreOrdered(todo)
      BY <2>2 DEF NightInvariant, OwedWritesAreSound
    <3>2. DemotedBy' = DemotedBy
      BY <1>1 DEF DemotedBy
    <3>3. nightLog \subseteq nightLog' /\ todo[1].event \in nightLog'
      BY <1>1 DEF e
    <3> QED
      BY <1>1, <3>1, <3>2, <3>3, ReasonsSurviveTheHead, ShareSurvivesTheHead
  <2>3. ASSUME mpc \in {"idle", "sources", "ood"}, NEW i \in DOMAIN todo'
        PROVE  todo'[i].op = "event" /\ todo'[i].event.action \notin Condemnations
    BY <1>1, <2>3 DEF NightInvariant, OwedWritesAreSound
  <2>4. ASSUME mpc = "regate", NEW i \in DOMAIN todo', todo'[i].op = "status"
        PROVE  todo'[i].status = "demoted"
    BY <1>1, <2>4 DEF NightInvariant, OwedWritesAreSound
  <2> QED
    BY <1>1, <2>1, <2>2, <2>3, <2>4 DEF OwedWritesAreSound
<1>6. QueueIsUntouched'
  BY <1>1 DEF NightInvariant, QueueIsUntouched, Stored, PromotedIds, HasStatus
<1>7. RetiredInHandIsTonights'
  BY <1>1 DEF NightInvariant, RetiredInHandIsTonights, Stored, HasStatus
<1>8. CondemnedTonightIsDue'
  <2>1. ASSUME mpc # "idle", NEW x \in nightLog', x.action \in Condemnations,
               x.subject \in PromotedIds
        PROVE  \E i \in DOMAIN todo' : todo'[i].op = "status" /\ todo'[i].id = x.subject
    <3>1. CASE x \in nightLog
      <4>1. PICK i \in DOMAIN todo : todo[i].op = "status" /\ todo[i].id = x.subject
        BY <2>1, <3>1 DEF NightInvariant, CondemnedTonightIsDue
      <4> QED
        BY <1>1, <4>1
    <3>2. CASE x = e
      <4>1. CondemnationsTakeEffect(todo)
        BY <1>1, <2>1, <3>2
        DEF NightInvariant, OwedWritesAreSound, e, MonitorTypeOK, Phases
      <4>2. PICK j \in (1 + 1)..Len(todo) : todo[j].op = "status" /\ todo[j].id = x.subject
        BY <1>1, <2>1, <3>2, <4>1 DEF CondemnationsTakeEffect, e
      <4>3. j \in DOMAIN todo /\ j # 1
        BY <1>1
      <4>4. j - 1 \in DOMAIN todo' /\ todo'[j - 1] = todo[j]
        BY <1>1, <4>3
      <4> QED
        BY <4>2, <4>4
    <3> QED
      BY <1>1, <2>1, <3>1, <3>2
  <2> QED
    BY <1>1, <2>1 DEF CondemnedTonightIsDue, PromotedIds, HasStatus, Stored
<1> QED
  BY <1>1, <1>3, <1>4, <1>5, <1>6, <1>7, <1>8
  DEF NightInvariant, RemovedAreCondemned, HasStatus, Stored

(* An update by key: that row's status, nothing else of any row.           *)
LEMMA UpdateStatusEffect ==
  ASSUME strategies \in [Ids -> Row \cup {NoRow}], touched \subseteq Ids,
         NEW id \in Ids, NEW st \in Status, UpdateStatus(id, st)
  PROVE  /\ strategies' \in [Ids -> Row \cup {NoRow}] /\ Stored' = Stored
         /\ \A i \in Ids : i # id => strategies'[i] = strategies[i]
         /\ id \in Stored =>
              /\ strategies'[id].status = st /\ strategies'[id].genome = strategies[id].genome
              /\ id \in touched'
         /\ id \notin Stored => strategies' = strategies
         /\ touched \subseteq touched' /\ touched' \subseteq Ids
<1>1. CASE id \in Stored
  <2>1. strategies[id] \in Row /\ strategies[id] # NoRow
    BY <1>1 DEF Stored
  <2>2. strategies' = [strategies EXCEPT ![id] = [strategies[id] EXCEPT !.status = st]]
        /\ touched' = touched \cup {id}
    BY <1>1 DEF UpdateStatus
  <2>3. /\ [strategies[id] EXCEPT !.status = st] \in Row
        /\ [strategies[id] EXCEPT !.status = st].status = st
        /\ [strategies[id] EXCEPT !.status = st].genome = strategies[id].genome
    BY <2>1 DEF Row
  <2>4. [strategies[id] EXCEPT !.status = st] # NoRow
    BY <2>3, RowAssumption
  <2>5. Stored' = Stored
    BY <1>1, <2>2, <2>4 DEF Stored
  <2> QED
    BY <1>1, <2>2, <2>3, <2>5
<1>2. CASE id \notin Stored
  BY <1>2 DEF UpdateStatus, Stored
<1> QED
  BY <1>1, <1>2

LEMMA ReasonInHand ==
  ASSUME NightInvariant, todo # <<>>, todo[1].op = "status"
  PROVE  /\ mpc \in {"strategies", "regate"}
         /\ \E e \in nightLog : IsReason(e, todo[1], DemotedBy)
         /\ todo[1].id \in Ids /\ todo[1].status \in {"quarantined", "retired", "demoted"}
<1>1. /\ todo \in Seq(Write) /\ DOMAIN todo = 1..Len(todo) /\ 1 \in 1..Len(todo)
      /\ todo[1] \in Write /\ mpc \in Phases
  BY NightTypes, TailFacts DEF NightInvariant, MonitorTypeOK
<1>2. mpc \in {"strategies", "regate"}
  <2>1. "event" # "status"
    OBVIOUS
  <2> QED
    BY <1>1, <2>1 DEF NightInvariant, OwedWritesAreSound, Phases
<1>3. ReasonsComeFirst(todo, nightLog, DemotedBy)
  BY <1>2 DEF NightInvariant, OwedWritesAreSound
<1>4. \/ \E e \in nightLog : IsReason(e, todo[1], DemotedBy)
      \/ \E j \in 1..(1 - 1) : todo[j].op = "event" /\ IsReason(todo[j].event, todo[1], DemotedBy)
  BY <1>1, <1>3, ReasonsUnfolded DEF Flip
<1>5. \E e \in nightLog : IsReason(e, todo[1], DemotedBy)
  BY <1>4
<1>6. todo[1].id \in Ids
  BY <1>1 DEF Write
<1>7. todo[1].status \in {"quarantined", "retired", "demoted"}
  BY <1>5 DEF IsReason, Condemnations, StatusOf
<1> QED
  BY <1>2, <1>5, <1>6, <1>7

LEMMA SetStatusKeeps ==
  ASSUME NightInvariant, SetStatus
  PROVE  NightInvariant'
<1> DEFINE id == todo[1].id
<1> DEFINE st == todo[1].status
<1>1. /\ todo \in Seq(Write) /\ todo # <<>> /\ todo[1].op = "status" /\ 1 \in DOMAIN todo
      /\ DOMAIN todo = 1..Len(todo) /\ DOMAIN todo' = 1..Len(todo')
      /\ todo' = Tail(todo) /\ todo' \in Seq(Write) /\ Len(todo) \in Nat
      /\ \A i \in DOMAIN todo' : todo'[i] = todo[i + 1] /\ i + 1 \in DOMAIN todo /\ 1 < i + 1
      /\ \A i \in DOMAIN todo : i # 1 => i - 1 \in DOMAIN todo' /\ todo'[i - 1] = todo[i]
      /\ UpdateStatus(id, st) /\ removed' = removed \cup Lost
      /\ UNCHANGED <<oosLatest, mpc, queue, nowWeek, nightLog, events, week, breach,
                     changelog, crashes>>
  BY NightTypes, TailFacts DEF SetStatus, NightInvariant
<1>2. /\ mpc \in {"strategies", "regate"}
      /\ id \in Ids /\ st \in {"quarantined", "retired", "demoted"} /\ st \in Status
  BY <1>1, ReasonInHand DEF Status
<1>3. PICK e \in nightLog : IsReason(e, todo[1], DemotedBy)
  BY <1>1, ReasonInHand
<1>4. strategies \in [Ids -> Row \cup {NoRow}] /\ touched \subseteq Ids
  BY DEF NightInvariant, MonitorTypeOK, TableTypeOK
<1> HIDE DEF id, st
<1>5. /\ strategies' \in [Ids -> Row \cup {NoRow}] /\ Stored' = Stored
      /\ \A i \in Ids : i # id => strategies'[i] = strategies[i]
      /\ id \in Stored => strategies'[id].status = st /\ id \in touched'
      /\ id \notin Stored => strategies' = strategies
      /\ touched \subseteq touched' /\ touched' \subseteq Ids
  BY <1>1, <1>2, <1>4, UpdateStatusEffect
<1>6. MonitorTypeOK'
  <2>1. removed' \subseteq Ids
    BY <1>1 DEF Lost, PromotedIds, NightInvariant, MonitorTypeOK
  <2> QED
    BY <1>1, <1>5, <2>1 DEF NightInvariant, MonitorTypeOK, TableTypeOK
<1>7. CondemnationIsOnRecord'
  <2>1. ASSUME NEW i \in Ids, NEW action \in {"quarantine", "demote"},
               i \in Stored, strategies'[i].status = StatusOf(action)
        PROVE  \E x \in events : x.subject = i /\ x.action = action
    <3>1. CASE i # id
      BY <1>5, <2>1, <3>1 DEF NightInvariant, CondemnationIsOnRecord, HasStatus
    <3>2. CASE i = id
      <4>1. StatusOf(e.action) = StatusOf(action) /\ e.action \in Condemnations /\ e.subject = id
        BY <1>3, <1>5, <2>1, <3>2 DEF IsReason, id, st
      <4>2. e.action = action
        BY <4>1 DEF StatusOf, Condemnations
      <4>3. e \in events
        BY DEF NightInvariant, OwedWritesAreSound
      <4> QED
        BY <3>2, <4>1, <4>2, <4>3
    <3> QED
      BY <3>1, <3>2
  <2> QED
    BY <1>1, <1>5, <2>1 DEF CondemnationIsOnRecord, HasStatus
<1>8. OwedWritesAreSound'
  <2>1. /\ ReasonsComeFirst(todo, nightLog, DemotedBy)
        /\ CondemnationsTakeEffect(todo) /\ FlipsAreOrdered(todo)
    BY <1>2 DEF NightInvariant, OwedWritesAreSound
  <2>2. DemotedBy' = DemotedBy
    BY <1>1 DEF DemotedBy
  <2>3. ReasonsComeFirst(todo', nightLog, DemotedBy)
    BY <1>1, <2>1, ReasonsSurviveTheHead
  <2> QED
    BY <1>1, <1>2, <2>1, <2>2, <2>3, ShareSurvivesTheHead
    DEF NightInvariant, OwedWritesAreSound
<1>9. QueueIsUntouched'
  <2>1. \A s \in queue : s.id # id
    BY <1>1, <1>2 DEF NightInvariant, QueueIsUntouched, id
  <2>2. \A s \in queue : \A i \in DOMAIN todo' : todo'[i].op = "status" => todo'[i].id # s.id
    BY <1>1, <1>2 DEF NightInvariant, QueueIsUntouched
  <2>3. mpc = "strategies" => \A s \in queue : s.id \in Stored' /\ strategies'[s.id].status # "retired"
    BY <1>5, <2>1, NightTypes DEF NightInvariant, QueueIsUntouched
  <2>4. mpc = "regate" => \A s \in queue : s.id \in PromotedIds'
    BY <1>5, <2>1 DEF NightInvariant, QueueIsUntouched, PromotedIds, HasStatus
  <2>5. mpc \in {"strategies", "regate"} => \A s \in queue : \A s2 \in queue : s.id = s2.id => s = s2
    BY DEF NightInvariant, QueueIsUntouched
  <2> QED
    BY <1>1, <2>2, <2>3, <2>4, <2>5 DEF QueueIsUntouched
<1>10. RetiredInHandIsTonights'
  <2>1. ASSUME NEW i \in DOMAIN todo', todo'[i].op = "status",
               todo'[i].id \in Stored, strategies'[todo'[i].id].status = "retired"
        PROVE  /\ mpc = "strategies" /\ todo'[i].status = "demoted"
               /\ \E x \in nightLog : x.subject = todo'[i].id /\ x.action = "disable"
    <3>1. i + 1 \in DOMAIN todo /\ 1 < i + 1 /\ todo'[i] = todo[i + 1]
      BY <1>1
    <3>2. todo[i + 1].id = id /\ Turn[st] < Turn[todo[i + 1].status]
      BY <1>1, <1>2, <2>1, <3>1
      DEF NightInvariant, OwedWritesAreSound, FlipsAreOrdered, id, st
    <3>3. st = "retired"
      BY <1>5, <2>1, <3>1, <3>2
    <3>4. todo[i + 1].status = "demoted"
      <4>1. todo[i + 1].status \in {"quarantined", "retired", "demoted"}
        <5>1. \/ \E x \in nightLog : IsReason(x, todo[i + 1], DemotedBy)
              \/ \E j \in 1..((i + 1) - 1) :
                   todo[j].op = "event" /\ IsReason(todo[j].event, todo[i + 1], DemotedBy)
          BY <1>1, <1>2, <2>1, <3>1, ReasonsUnfolded
          DEF NightInvariant, OwedWritesAreSound, Flip
        <5>2. \E x : IsReason(x, todo[i + 1], DemotedBy)
          BY <5>1
        <5> QED
          BY <5>2 DEF IsReason, Condemnations, StatusOf
      <4> QED
        BY <3>2, <3>3, <4>1 DEF Turn
    <3>5. e.subject = id /\ e.action = "disable"
      BY <1>3, <3>3 DEF IsReason, id, st, Condemnations, StatusOf
    <3>6. mpc = "strategies"
      <4>1. mpc = "regate" => st = "demoted"
        BY <1>1 DEF NightInvariant, OwedWritesAreSound, st
      <4> QED
        BY <1>2, <3>3, <4>1
    <3> QED
      BY <3>1, <3>2, <3>4, <3>5, <3>6
  <2> QED
    BY <1>1, <1>5, <2>1 DEF RetiredInHandIsTonights, HasStatus
<1>11. CondemnedTonightIsDue'
  <2>1. ASSUME NEW x \in nightLog, x.action \in Condemnations, x.subject \in PromotedIds'
        PROVE  \E i \in DOMAIN todo' : todo'[i].op = "status" /\ todo'[i].id = x.subject
    <3>1. x.subject # id
      BY <1>2, <1>5, <2>1 DEF PromotedIds, HasStatus
    <3>2. x.subject \in PromotedIds
      BY <1>5, <2>1, <3>1 DEF PromotedIds, HasStatus
    <3>3. PICK i \in DOMAIN todo : todo[i].op = "status" /\ todo[i].id = x.subject
      BY <1>2, <2>1, <3>2 DEF NightInvariant, CondemnedTonightIsDue
    <3>4. i - 1 \in DOMAIN todo' /\ todo'[i - 1] = todo[i]
      BY <1>1, <3>1, <3>3 DEF id
    <3> QED
      BY <3>3, <3>4
  <2> QED
    BY <1>1, <2>1 DEF CondemnedTonightIsDue
<1>12. RemovedAreCondemned'
  <2>1. Lost \subseteq {id} \cap Stored
    BY <1>5 DEF Lost, PromotedIds, HasStatus
  <2>2. \A i \in removed : i \in Ids /\ i \in touched /\ i \in Stored
                            /\ strategies[i].status \in {"quarantined", "demoted", "retired"}
    BY DEF NightInvariant, RemovedAreCondemned, MonitorTypeOK
  <2> QED
    BY <1>1, <1>2, <1>5, <2>1, <2>2 DEF RemovedAreCondemned
<1> QED
  BY <1>6, <1>7, <1>8, <1>9, <1>10, <1>11, <1>12 DEF NightInvariant

LEMMA LoadRegateKeeps ==
  ASSUME NightInvariant, LoadRegate
  PROVE  NightInvariant'
<1>1. /\ UNCHANGED <<strategies, oosLatest, touched, todo, nowWeek, nightLog, events, week,
                     breach, changelog, crashes, removed>>
      /\ mpc = "strategies" /\ mpc' = "regate" /\ todo = <<>> /\ todo' = <<>>
      /\ queue' = GateFailures
  BY DEF LoadRegate, tableVars
<1>2. ASSUME NEW s \in GateFailures
      PROVE  /\ s = [id |-> s.id, scored |-> TRUE] /\ s.id \in PromotedIds /\ s.id \in Ids
             /\ s \in [id : Ids \cup Sources, scored : BOOLEAN]
  <2>1. PICK i \in PromotedIds : s = [id |-> i, scored |-> TRUE]
    BY DEF GateFailures
  <2>2. i \in Ids
    BY DEF PromotedIds
  <2> QED
    BY <2>1, <2>2, QueueEntries
<1>3. MonitorTypeOK'
  BY <1>1, <1>2 DEF NightInvariant, MonitorTypeOK, TableTypeOK, Phases
<1>4. OwedWritesAreSound'
  BY <1>1, NothingOwed DEF NightInvariant, OwedWritesAreSound
<1>5. QueueIsUntouched'
  <2>1. \A s \in queue' : s.id \in PromotedIds' /\ \A s2 \in queue' : s.id = s2.id => s = s2
    BY <1>1, <1>2 DEF PromotedIds, HasStatus, Stored
  <2> QED
    BY <1>1, <2>1, NothingOwed DEF QueueIsUntouched
<1>6. RetiredInHandIsTonights'
  BY <1>1, NothingOwed DEF RetiredInHandIsTonights
<1>7. CondemnedTonightIsDue'
  BY <1>1 DEF NightInvariant, CondemnedTonightIsDue, PromotedIds, HasStatus, Stored
<1> QED
  BY <1>1, <1>3, <1>4, <1>5, <1>6, <1>7
  DEF NightInvariant, CondemnationIsOnRecord, RemovedAreCondemned, HasStatus, Stored

(* Past the strategies, only notices are owed.                             *)
LEMMA NoticesKeep ==
  ASSUME NightInvariant, todo = <<>>, mpc # "idle",
         mpc' \in {"idle", "sources", "ood"}, todo' \in Seq(Write),
         \A i \in 1..Len(todo') :
           todo'[i].op = "event" /\ todo'[i].event.action \notin Condemnations,
         queue' \subseteq [id : Ids \cup Sources, scored : BOOLEAN],
         changelog' \in Changelogs \cup {NoRow},
         UNCHANGED <<tableVars, nowWeek, nightLog, events, week, breach, crashes, removed>>
  PROVE  NightInvariant'
<1>1. UNCHANGED <<strategies, oosLatest, touched>> /\ DOMAIN todo' = 1..Len(todo')
  BY DEF tableVars
<1>2. MonitorTypeOK'
  BY <1>1 DEF NightInvariant, MonitorTypeOK, TableTypeOK, Phases
<1>3. OwedWritesAreSound'
  BY <1>1 DEF NightInvariant, OwedWritesAreSound
<1>4. QueueIsUntouched'
  BY DEF QueueIsUntouched
<1>5. RetiredInHandIsTonights'
  BY <1>1 DEF RetiredInHandIsTonights
<1>6. CondemnedTonightIsDue'
  BY <1>1, NothingOwed DEF NightInvariant, CondemnedTonightIsDue, PromotedIds, HasStatus, Stored
<1> QED
  BY <1>1, <1>2, <1>3, <1>4, <1>5, <1>6
  DEF NightInvariant, CondemnationIsOnRecord, RemovedAreCondemned, HasStatus, Stored

LEMMA LoadFreshnessKeeps ==
  ASSUME NightInvariant, LoadFreshness
  PROVE  NightInvariant'
<1>1. PICK stale \in SUBSET Sources :
        queue' = {[id |-> source, scored |-> FALSE] : source \in stale}
  BY DEF LoadFreshness
<1>2. queue' \subseteq [id : Ids \cup Sources, scored : BOOLEAN]
  BY <1>1, QueueEntries
<1>3. todo' \in Seq(Write) /\ Len(todo') = 0
  BY DEF LoadFreshness
<1>4. changelog' \in Changelogs \cup {NoRow}
  BY DEF LoadFreshness, NightInvariant, MonitorTypeOK
<1> QED
  BY <1>2, <1>3, <1>4, NoticesKeep DEF LoadFreshness

LEMMA StalenessKeeps ==
  ASSUME NightInvariant, Staleness
  PROVE  NightInvariant'
<1>1. PICK s \in queue : todo' = StalenessWrites(s.id) /\ queue' = queue \ {s}
  BY DEF Staleness
<1>2. s.id \in Ids \cup Sources /\ nowWeek \in 1..MaxWeek
      /\ queue' \subseteq [id : Ids \cup Sources, scored : BOOLEAN]
  BY <1>1 DEF NightInvariant, MonitorTypeOK
<1>3. /\ todo' \in Seq(Write)
      /\ \A i \in 1..Len(todo') :
           todo'[i].op = "event" /\ todo'[i].event.action \notin Condemnations
  BY <1>1, <1>2, StalenessWritesAre
<1>4. changelog' \in Changelogs \cup {NoRow}
  BY DEF Staleness, NightInvariant, MonitorTypeOK
<1> QED
  BY <1>2, <1>3, <1>4, NoticesKeep DEF Staleness

LEMMA OodWritesAre ==
  ASSUME nowWeek \in 1..MaxWeek, CountOod
  PROVE  /\ todo' \in Seq(Write)
         /\ \A i \in 1..Len(todo') :
              todo'[i].op = "event" /\ todo'[i].event.action \notin Condemnations
<1> DEFINE x == EventWrite("regimes", "regime_ood", "suppress")
<1>1. x \in Write /\ x.op = "event" /\ x.event.action \notin Condemnations
  BY EventWriteIs DEF Detectors, Actions, Condemnations
<1>2. todo' = <<>> \/ todo' = <<x>>
  BY DEF CountOod
<1> HIDE DEF x
<1>3. <<x>> \in Seq(Write) /\ Len(<<x>>) = 1 /\ \A i \in 1..1 : <<x>>[i] = x
  BY <1>1
<1>4. CASE todo' = <<>>
  BY <1>4
<1>5. CASE todo' = <<x>>
  BY <1>1, <1>3, <1>5
<1> QED
  BY <1>2, <1>4, <1>5

LEMMA CountOodKeeps ==
  ASSUME NightInvariant, CountOod
  PROVE  NightInvariant'
<1>1. nowWeek \in 1..MaxWeek
  BY DEF NightInvariant, MonitorTypeOK
<1>2. /\ todo' \in Seq(Write)
      /\ \A i \in 1..Len(todo') :
           todo'[i].op = "event" /\ todo'[i].event.action \notin Condemnations
  BY <1>1, OodWritesAre
<1>3. /\ changelog' \in Changelogs \cup {NoRow}
      /\ queue' \subseteq [id : Ids \cup Sources, scored : BOOLEAN]
  BY DEF CountOod, NightInvariant, MonitorTypeOK
<1> QED
  BY <1>2, <1>3, NoticesKeep DEF CountOod

LEMMA WriteChangelogKeeps ==
  ASSUME NightInvariant, WriteChangelog
  PROVE  NightInvariant'
<1>1. changelog' \in Changelogs
  <2>1. /\ week \in 1..MaxWeek /\ touched \subseteq Ids /\ events \subseteq Event
    BY DEF NightInvariant, MonitorTypeOK, TableTypeOK
  <2> QED
    BY <2>1 DEF WriteChangelog, Changelogs
<1>2. /\ todo' \in Seq(Write) /\ Len(todo') = 0
      /\ queue' \subseteq [id : Ids \cup Sources, scored : BOOLEAN]
  BY DEF WriteChangelog, NightInvariant, MonitorTypeOK
<1> QED
  BY <1>1, <1>2, NoticesKeep DEF WriteChangelog

LEMMA EndEarlyKeeps ==
  ASSUME NightInvariant, EndEarly
  PROVE  NightInvariant'
<1>1. /\ UNCHANGED <<strategies, oosLatest, touched, nowWeek, nightLog, events, week, breach,
                     changelog, removed>>
      /\ mpc' = "idle" /\ queue' = {} /\ todo' = <<>>
      /\ crashes < MaxCrash /\ crashes' = crashes + 1
  BY DEF EndEarly, tableVars
<1>2. MonitorTypeOK'
  <2>1. crashes' \in 0..MaxCrash
    BY <1>1, MonitorAssumption DEF NightInvariant, MonitorTypeOK
  <2> QED
    BY <1>1, <2>1, NothingOwed DEF NightInvariant, MonitorTypeOK, TableTypeOK, Phases
<1>3. OwedWritesAreSound' /\ RetiredInHandIsTonights'
  BY <1>1, NothingOwed DEF NightInvariant, OwedWritesAreSound, RetiredInHandIsTonights
<1> QED
  BY <1>1, <1>2, <1>3
  DEF NightInvariant, CondemnationIsOnRecord, RemovedAreCondemned, HasStatus, Stored,
      QueueIsUntouched, CondemnedTonightIsDue

LEMMA OutsideTheNightKeeps ==
  ASSUME NightInvariant, NewWeek \/ \E id \in Ids : TradesMove(id)
  PROVE  NightInvariant'
<1>1. UNCHANGED <<strategies, oosLatest, mpc, queue, todo, nowWeek, nightLog, events,
                  changelog, crashes>>
  BY DEF NewWeek, TradesMove, tableVars, nightVars
<1>2. MonitorTypeOK' /\ RemovedAreCondemned'
  <2>1. CASE NewWeek
    BY <1>1, <2>1, MonitorAssumption
    DEF NewWeek, NightInvariant, MonitorTypeOK, TableTypeOK, RemovedAreCondemned
  <2>2. CASE \E id \in Ids : TradesMove(id)
    <3>1. PICK id \in Ids : TradesMove(id)
      BY <2>2
    <3> QED
      BY <1>1, <3>1
      DEF TradesMove, tableVars, NightInvariant, MonitorTypeOK, TableTypeOK,
          RemovedAreCondemned, Stored
  <2> QED
    BY <2>1, <2>2
<1> QED
  BY <1>1, <1>2
  DEF NightInvariant, CondemnationIsOnRecord, OwedWritesAreSound, QueueIsUntouched,
      RetiredInHandIsTonights, CondemnedTonightIsDue, DemotedBy, HasStatus, Stored, PromotedIds

-----------------------------------------------------------------------------
LEMMA InitSatisfiesNightInvariant == MonitorInit => NightInvariant
<1> SUFFICES ASSUME MonitorInit
             PROVE  NightInvariant
  OBVIOUS
<1>1. MonitorTypeOK
  <2>1. strategies \in [Ids -> Row \cup {NoRow}]
    BY DEF MonitorInit, MonitorTableInit, Row, Status
  <2>2. 1 \in 1..MaxWeek /\ 0 \in 0..MaxCrash /\ {} \in BreachSpace
    BY MonitorAssumption
  <2> QED
    BY <2>1, <2>2, NothingOwed
    DEF MonitorInit, MonitorTableInit, MonitorLocalInit, MonitorTypeOK, TableTypeOK, Phases
<1>2. CondemnationIsOnRecord
  <2>1. \A id \in Ids : strategies[id].status \in {"candidate", "promoted", "retired"}
    BY DEF MonitorInit, MonitorTableInit
  <2> QED
    BY <2>1 DEF CondemnationIsOnRecord, HasStatus, Stored, StatusOf
<1>3. OwedWritesAreSound /\ RetiredInHandIsTonights
  BY NothingOwed DEF MonitorInit, MonitorLocalInit, OwedWritesAreSound, RetiredInHandIsTonights
<1> QED
  BY <1>1, <1>2, <1>3
  DEF MonitorInit, MonitorLocalInit, NightInvariant, QueueIsUntouched, CondemnedTonightIsDue,
      RemovedAreCondemned

LEMMA StepKeepsNightInvariant ==
  NightInvariant /\ [MonitorNext]_monitorVars => NightInvariant'
<1> SUFFICES ASSUME NightInvariant, [MonitorNext]_monitorVars
             PROVE  NightInvariant'
  OBVIOUS
<1>1. CASE UNCHANGED monitorVars
  BY <1>1
  DEF monitorVars, tableVars, nightVars, NightInvariant, MonitorTypeOK, TableTypeOK,
      CondemnationIsOnRecord, OwedWritesAreSound, QueueIsUntouched, RetiredInHandIsTonights,
      CondemnedTonightIsDue, RemovedAreCondemned, DemotedBy, HasStatus, Stored, PromotedIds
<1> QED
  BY <1>1, BeginNightKeeps, JudgeStrategyKeeps, WriteEventKeeps, SetStatusKeeps,
     LoadRegateKeeps, RegateKeeps, LoadFreshnessKeeps, StalenessKeeps, CountOodKeeps,
     WriteChangelogKeeps, EndEarlyKeeps, OutsideTheNightKeeps
  DEF MonitorNext, Night

LEMMA NightInvariantHolds == MonitorSpec => []NightInvariant
<1>1. MonitorInit => NightInvariant
  BY InitSatisfiesNightInvariant
<1>2. NightInvariant /\ [MonitorNext]_monitorVars => NightInvariant'
  BY StepKeepsNightInvariant
<1> QED
  BY <1>1, <1>2, PTL DEF MonitorSpec

(* Nobody is condemned without a reason on record, and whom a detector     *)
(* condemned tonight is out of the live set when the pass is over, for any *)
(* trade histories and wherever nights end early.                          *)
THEOREM MonitorIsInvariant == MonitorSpec => []MonitorInvariant
<1>1. NightInvariant => MonitorInvariant
  <2> SUFFICES ASSUME NightInvariant
               PROVE  CondemnedTonightIsNotPromoted
    BY DEF NightInvariant, MonitorInvariant
  <2>1. CASE todo = <<>> /\ mpc # "idle"
    BY <2>1, NothingOwed DEF NightInvariant, CondemnedTonightIsDue, CondemnedTonightIsNotPromoted
  <2>2. CASE mpc \in {"sources", "ood"}
    <3>1. \A i \in DOMAIN todo : todo[i].op = "event"
      BY <2>2 DEF NightInvariant, OwedWritesAreSound
    <3>2. \A i \in DOMAIN todo : todo[i].op # "status"
      BY <3>1
    <3> QED
      BY <2>2, <3>2 DEF NightInvariant, CondemnedTonightIsDue, CondemnedTonightIsNotPromoted
  <2> QED
    BY <2>1, <2>2 DEF CondemnedTonightIsNotPromoted
<1> QED
  BY <1>1, NightInvariantHolds, PTL

(* Retirement is undone only by the demotion that follows tonight's        *)
(* disable: a row retired before tonight is never written again.           *)
THEOREM OnlyTonightsDisableIsEverUndone == MonitorSpec => OnlyTonightsDisableIsUndone
<1>1. NightInvariant /\ [MonitorNext]_monitorVars =>
        [\A id \in Ids : HasStatus(id, "retired") /\ strategies'[id].status # "retired" =>
           /\ \E e \in nightLog : e.subject = id /\ e.action = "disable"
           /\ \E e \in nightLog : e.subject = id /\ e.detector = "decay"]_monitorVars
  <2> SUFFICES ASSUME NightInvariant, MonitorNext, NEW id \in Ids,
                      HasStatus(id, "retired"), strategies'[id].status # "retired"
               PROVE  /\ \E e \in nightLog : e.subject = id /\ e.action = "disable"
                      /\ \E e \in nightLog : e.subject = id /\ e.detector = "decay"
    BY Zenon
  <2>1. strategies' # strategies
    BY DEF HasStatus
  <2>2. SetStatus
    BY <2>1
    DEF MonitorNext, Night, BeginNight, JudgeStrategy, WriteEvent, LoadRegate, Regate,
        LoadFreshness, Staleness, CountOod, WriteChangelog, EndEarly, NewWeek, TradesMove,
        tableVars
  <2>3. /\ todo # <<>> /\ todo[1].op = "status" /\ 1 \in DOMAIN todo
        /\ UpdateStatus(todo[1].id, todo[1].status)
    BY <2>2, NightTypes, TailFacts DEF SetStatus, NightInvariant
  <2>4. /\ todo[1].id \in Ids /\ todo[1].status \in Status
        /\ \E e \in nightLog : IsReason(e, todo[1], DemotedBy)
    BY <2>3, ReasonInHand DEF Status
  <2>5. todo[1].id = id
    BY <2>1, <2>3, <2>4, UpdateStatusEffect
    DEF HasStatus, NightInvariant, MonitorTypeOK, TableTypeOK
  <2>6. /\ mpc = "strategies" /\ todo[1].status = "demoted"
        /\ \E e \in nightLog : e.subject = id /\ e.action = "disable"
    BY <2>3, <2>5 DEF NightInvariant, RetiredInHandIsTonights
  <2>7. PICK e \in nightLog : IsReason(e, todo[1], "decay")
    BY <2>4, <2>6 DEF DemotedBy
  <2>8. e.subject = id /\ e.detector = "decay"
    BY <2>5, <2>6, <2>7 DEF IsReason, Condemnations, StatusOf
  <2> QED
    BY <2>6, <2>8
<1> QED
  BY <1>1, NightInvariantHolds, PTL DEF MonitorSpec, OnlyTonightsDisableIsUndone

(* Whoever lost promotion this week is named by the report of the week.    *)
THEOREM RemovalsAreAllReported == MonitorSpec => RemovalsAreReported
<1>1. NightInvariant /\ [MonitorNext]_monitorVars =>
        [WriteChangelog =>
           \A id \in removed : id \in changelog'.decayed \cup changelog'.retired]_monitorVars
  BY DEF NightInvariant, RemovedAreCondemned, WriteChangelog, HasStatus
<1> QED
  BY <1>1, NightInvariantHolds, PTL DEF MonitorSpec, RemovalsAreReported
=============================================================================
