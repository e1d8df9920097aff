-------------------------- MODULE MCSignalJournal --------------------------
(* Earnings calendars for checking SignalJournal, and the casts one run    *)
(* plays in turn: one strategy with the night and an operator, or every    *)
(* strategy in nights of their own, over fewer days.                       *)
EXTENDS SignalJournal, TLC

OneRelease == Tickers \X {2}

NoRelease == {}

VARIABLE cast

Casts ==
  {[ops |-> Operators, strategies |-> {s}, days |-> MaxDay] : s \in Strategies}
    \cup {[ops |-> {}, strategies |-> Strategies, days |-> MaxDay - 1]}

CastInit == JournalInit /\ cast \in Casts

CastNext ==
  /\ JournalNext
  /\ UNCHANGED cast
  /\ day' <= cast.days
  /\ \A p \in Operators \ cast.ops : run'[p] = Idle
  /\ promoted' \cup scored' \subseteq cast.strategies
  /\ {pair[1] : pair \in setup'} \subseteq cast.strategies

CastSpec == CastInit /\ [][CastNext]_<<journalVars, cast>>

(* The nightly loop alone plays one cast.                                  *)
LoopCast == [ops |-> {}, strategies |-> Strategies, days |-> MaxDay]

LoopCastSpec ==
  /\ JournalInit /\ cast = LoopCast
  /\ [][LoopNext /\ UNCHANGED cast]_<<journalVars, cast>>

JournalSymmetry == Permutations(Strategies)
=============================================================================
