------------------------ MODULE SignalJournal_proofs ------------------------
(***************************************************************************)
(* Proofs about SignalJournal, for any strategies, tickers, operators,     *)
(* calendar, horizon and number of signals.  JournalInvariant is           *)
(* inductive; the properties are read off it.                              *)
(***************************************************************************)
EXTENDS SignalJournal, FiniteSetTheorems, TLAPS

(* The parameters are what they are named for.                             *)
LEMMA ParametersAreNumbers ==
  /\ Hold \in Nat \ {0} /\ Blackout \in Nat \ {0}
  /\ MaxDay \in Nat \ {0} /\ MaxSignals \in Nat \ {0}
BY JournalAssumption

LEMMA IdleIsTyped == Idle \in RunState /\ Unwatched \in WatchState
BY DEF Idle, Unwatched, RunState, WatchState

(* Watching changes no type, and leaves what an idle process has.          *)
LEMMA WatchEffect ==
  ASSUME JournalTypeOK, promoted' \subseteq Strategies, Watch
  PROVE  /\ watch' \in [Procs -> WatchState]
         /\ \A p \in Procs : run[p].pc # "idle" =>
              /\ watch'[p].ever = watch[p].ever \cup promoted'
              /\ watch'[p].always = watch[p].always \cap Eligible'
<1>1. ASSUME NEW p \in Procs
      PROVE  watch[p] \in WatchState
  BY DEF JournalTypeOK
<1>2. ASSUME NEW p \in Procs
      PROVE  [ever |-> watch[p].ever \cup promoted', always |-> watch[p].always \cap Eligible']
               \in WatchState
  BY <1>1 DEF WatchState
<1> QED
  BY <1>1, <1>2 DEF Watch

-----------------------------------------------------------------------------
(* What the statements of run_signals do to the state of their process.    *)
RunOnly(p) == \A q \in Procs \ {p} : run'[q] = run[q]

LEMMA LoadEffect ==
  ASSUME JournalTypeOK, NEW p \in Procs, Load(p)
  PROVE  /\ run' \in [Procs -> RunState] /\ RunOnly(p)
         /\ run[p].pc = "load" /\ run'[p].pc = "build"
         /\ run'[p].todo = Loaded
         /\ run'[p].held = run[p].held /\ run'[p].out = run[p].out
<1>1. run \in [Procs -> RunState] /\ run[p] \in RunState /\ Loaded \subseteq Pairs
  BY DEF JournalTypeOK, Loaded, Pairs
<1>2. run' = [run EXCEPT ![p] = [run[p] EXCEPT !.pc = "build", !.todo = Loaded]]
  BY <1>1 DEF Load
<1>3. [run[p] EXCEPT !.pc = "build", !.todo = Loaded] \in RunState
  BY <1>1 DEF RunState
<1> QED
  BY <1>1, <1>2, <1>3 DEF RunOnly, Load, RunState

LEMMA BeginEffect ==
  ASSUME JournalTypeOK, NEW p \in Procs, Begin(p)
  PROVE  /\ run' \in [Procs -> RunState] /\ RunOnly(p)
         /\ run[p].pc = "idle" /\ run'[p].pc = "load"
         /\ run'[p].todo = run[p].todo
         /\ run'[p].held = run[p].held /\ run'[p].out = run[p].out
         /\ watch' \in [Procs -> WatchState]
         /\ watch'[p].ever = promoted /\ watch'[p].always = Eligible
         /\ \A q \in Procs \ {p} : watch'[q] = watch[q]
<1>1. run \in [Procs -> RunState] /\ run[p] \in RunState /\ watch \in [Procs -> WatchState]
  BY DEF JournalTypeOK
<1>2. run' = [run EXCEPT ![p] = [run[p] EXCEPT !.pc = "load"]]
  BY <1>1 DEF Begin
<1>3. [run[p] EXCEPT !.pc = "load"] \in RunState
  BY <1>1 DEF RunState
<1>4. [ever |-> promoted, always |-> Eligible] \in WatchState
  BY DEF WatchState, Eligible, JournalTypeOK
<1> QED
  BY <1>1, <1>2, <1>3, <1>4 DEF RunOnly, Begin, RunState

LEMMA DecideEffect ==
  ASSUME JournalTypeOK, NEW p \in Procs, Decide(p)
  PROVE  \E pair \in run[p].todo :
         /\ run' \in [Procs -> RunState] /\ RunOnly(p)
         /\ run[p].pc = "build" /\ run'[p].pc = "build" /\ run[p].held = NoBar
         /\ run'[p].out = run[p].out
         /\ pair \in Pairs
         /\ \/ /\ latest[pair[2]] > 0 /\ pair \in setup
               /\ run'[p].todo = run[p].todo
               /\ run'[p].held = <<pair, latest[pair[2]]>>
            \/ /\ ~(latest[pair[2]] > 0 /\ pair \in setup)
               /\ run'[p].todo = run[p].todo \ {pair}
               /\ run'[p].held = NoBar
<1>1. run \in [Procs -> RunState] /\ run[p] \in RunState
  BY DEF JournalTypeOK
<1>2. PICK pair \in run[p].todo :
        IF latest[pair[2]] > 0 /\ pair \in setup
        THEN run' = [run EXCEPT ![p].held = <<pair, latest[pair[2]]>>]
        ELSE run' = [run EXCEPT ![p].todo = Rest(p, pair)]
  BY DEF Decide
<1>3. pair \in Pairs
  BY <1>1 DEF RunState
<1>4. CASE latest[pair[2]] > 0 /\ pair \in setup
  <2>1. run' = [run EXCEPT ![p] = [run[p] EXCEPT !.held = <<pair, latest[pair[2]]>>]]
    BY <1>1, <1>2, <1>4
  <2>2. latest[pair[2]] \in Days
    <3>1. pair[2] \in Tickers
      BY <1>3 DEF Pairs
    <3> QED
      BY <1>4, <3>1, ParametersAreNumbers DEF JournalTypeOK, Days
  <2>3. [run[p] EXCEPT !.held = <<pair, latest[pair[2]]>>] \in RunState
    BY <1>1, <1>3, <2>2 DEF RunState
  <2> QED
    BY <1>1, <1>3, <1>4, <2>1, <2>3 DEF RunOnly, RunState, Decide
<1>5. CASE ~(latest[pair[2]] > 0 /\ pair \in setup)
  <2>1. run' = [run EXCEPT ![p] = [run[p] EXCEPT !.todo = run[p].todo \ {pair}]]
    BY <1>1, <1>2, <1>5 DEF Rest
  <2>2. [run[p] EXCEPT !.todo = run[p].todo \ {pair}] \in RunState
    BY <1>1 DEF RunState
  <2> QED
    BY <1>1, <1>3, <1>5, <2>1, <2>2 DEF RunOnly, RunState, Decide
<1> QED
  BY <1>4, <1>5

(* A surfaced signal: numbered next, of the pair and the day in hand.      *)
NewSignal(p) ==
  [id |-> Cardinality(signals) + 1, strategy |-> run[p].held[1][1],
   ticker |-> run[p].held[1][2], decision |-> run[p].held[2],
   asOf |-> IF p = Night THEN to ELSE 0]

LEMMA ScreenEffect ==
  ASSUME JournalTypeOK, IsFiniteSet(signals), NEW p \in Procs, Screen(p)
  PROVE  LET pair == run[p].held[1]
             d == run[p].held[2]
         IN
         /\ run' \in [Procs -> RunState] /\ RunOnly(p)
         /\ run[p].pc = "build" /\ run'[p].pc = "build"
         /\ run[p].held \in Pairs \X Days /\ run'[p].held = NoBar
         /\ run'[p].todo = run[p].todo \ {pair}
         /\ \/ /\ InBlackout(d, pair[2], earnings) \/ pair[1] \notin scored
               /\ run'[p].out = run[p].out
               /\ signals' = signals
            \/ /\ ~InBlackout(d, pair[2], earnings)
               /\ run'[p].out = run[p].out \cup {NewSignal(p)}
               /\ signals' = signals \cup {NewSignal(p)}
               /\ NewSignal(p) \in Signal
<1> DEFINE pair == run[p].held[1]
<1> DEFINE d == run[p].held[2]
<1>1. run \in [Procs -> RunState] /\ run[p] \in RunState
  BY DEF JournalTypeOK
<1>2. run[p].pc = "build" /\ run[p].held \in Pairs \X Days /\ pair \in Pairs /\ d \in Days
  BY <1>1 DEF Screen, RunState
<1>3. CASE InBlackout(d, pair[2], earnings) \/ pair[1] \notin scored
  <2>1. run' = [run EXCEPT ![p] = [run[p] EXCEPT !.held = NoBar, !.todo = run[p].todo \ {pair}]]
        /\ signals' = signals
    BY <1>1, <1>3 DEF Screen, Rest
  <2>2. [run[p] EXCEPT !.held = NoBar, !.todo = run[p].todo \ {pair}] \in RunState
    BY <1>1 DEF RunState
  <2> QED
    BY <1>1, <1>2, <1>3, <2>1, <2>2 DEF RunOnly, RunState
<1>4. CASE ~(InBlackout(d, pair[2], earnings) \/ pair[1] \notin scored)
  <2>1. /\ Cardinality(signals) < MaxSignals
        /\ signals' = signals \cup {NewSignal(p)}
        /\ run' = [run EXCEPT ![p] = [run[p] EXCEPT
             !.held = NoBar, !.out = run[p].out \cup {NewSignal(p)}, !.todo = run[p].todo \ {pair}]]
    BY <1>1, <1>4 DEF Screen, NewSignal
  <2>2. NewSignal(p) \in Signal
    <3>1. Cardinality(signals) + 1 \in 1..MaxSignals
      BY <2>1, FS_CardinalityType, ParametersAreNumbers
    <3>2. pair[1] \in Strategies /\ pair[2] \in Tickers
      BY <1>2 DEF Pairs
    <3>3. to \in 0..MaxDay /\ 0 \in 0..MaxDay
      BY ParametersAreNumbers DEF JournalTypeOK, Days
    <3> QED
      BY <1>2, <3>1, <3>2, <3>3 DEF NewSignal, Signal
  <2>3. [run[p] EXCEPT !.held = NoBar, !.out = run[p].out \cup {NewSignal(p)},
                       !.todo = run[p].todo \ {pair}] \in RunState
    BY <1>1, <2>2 DEF RunState
  <2> QED
    BY <1>1, <1>2, <1>4, <2>1, <2>2, <2>3 DEF RunOnly, RunState
<1> QED
  BY <1>3, <1>4

LEMMA BeginJournalEffect ==
  ASSUME JournalTypeOK, NEW p \in Procs, BeginJournal(p)
  PROVE  /\ run' \in [Procs -> RunState] /\ RunOnly(p)
         /\ run'[p].pc = "journal" /\ run'[p].out = run[p].out
         /\ run[p].pc = "build"
<1>1. run \in [Procs -> RunState] /\ run[p] \in RunState
  BY DEF JournalTypeOK
<1>2. run' = [run EXCEPT ![p] = [run[p] EXCEPT !.pc = "journal", !.out = run[p].out]]
  BY <1>1 DEF BeginJournal, ToJournal
<1>3. [run[p] EXCEPT !.pc = "journal", !.out = run[p].out] \in RunState
  BY <1>1 DEF RunState
<1> QED
  BY <1>1, <1>2, <1>3 DEF RunOnly, RunState, BeginJournal, Built

(* A trade is of the signal in hand, filled at the bar after its decision  *)
(* bar and left, if at all, within the holding period.                     *)
LEMMA JournalEffect ==
  ASSUME JournalTypeOK, NEW p \in Procs, Journal(p)
  PROVE  \E sig \in run[p].out :
         /\ run' \in [Procs -> RunState] /\ RunOnly(p)
         /\ run'[p].pc = "journal" /\ run[p].pc = "journal"
         /\ run'[p].out = run[p].out \ {sig}
         /\ sig \in signals
         /\ \/ trades' = trades
            \/ \E tr \in Trade :
                 /\ trades' = trades \cup {tr}
                 /\ tr.signal = sig.id
                 /\ tr.fill = sig.decision + 1
                 /\ tr.outcome # "open" => tr.exit \in tr.fill..(tr.fill + Hold)
<1>1. run \in [Procs -> RunState] /\ run[p] \in RunState /\ run[p].out \subseteq signals
  BY DEF JournalTypeOK
<1>2. PICK sig \in run[p].out :
        /\ IF sig.decision < latest[sig.ticker]
           THEN \E tr \in Resolutions(sig) : trades' = trades \cup {tr}
           ELSE UNCHANGED trades
        /\ run' = [run EXCEPT ![p] = [run[p] EXCEPT !.out = run[p].out \ {sig}]]
  BY <1>1 DEF Journal
<1>3. [run[p] EXCEPT !.out = run[p].out \ {sig}] \in RunState
  BY <1>1 DEF RunState
<1>4. /\ run' \in [Procs -> RunState] /\ RunOnly(p)
      /\ run'[p].pc = "journal" /\ run[p].pc = "journal"
      /\ run'[p].out = run[p].out \ {sig}
      /\ sig \in signals
  BY <1>1, <1>2, <1>3 DEF RunOnly, RunState, Journal
<1>5. ASSUME sig.decision < latest[sig.ticker], NEW tr \in Resolutions(sig)
      PROVE  /\ tr \in Trade
             /\ tr.signal = sig.id
             /\ tr.fill = sig.decision + 1
             /\ tr.outcome # "open" => tr.exit \in tr.fill..(tr.fill + Hold)
  <2>1. /\ sig.id \in 1..MaxSignals /\ sig.decision \in Days /\ sig.ticker \in Tickers
    BY <1>4 DEF JournalTypeOK, Signal
  <2>2. latest[sig.ticker] \in Nat /\ latest[sig.ticker] <= MaxDay
    BY <2>1, ParametersAreNumbers DEF JournalTypeOK, Days
  <2> DEFINE last == TimeBarrier(sig)
  <2> DEFINE fill == Fill(sig)
  <2>3. /\ fill = sig.decision + 1 /\ fill \in Nat /\ fill \in Days
        /\ last \in fill..(fill + Hold) /\ last <= MaxDay
    BY <1>5, <2>1, <2>2, ParametersAreNumbers DEF TimeBarrier, Fill, Days
  <2> HIDE DEF last, fill
  <2>4. CASE \E d \in (fill + 1)..last, o \in {"target", "stop"} :
               tr = [signal |-> sig.id, fill |-> fill, exit |-> d, outcome |-> o]
    <3>1. PICK d \in (fill + 1)..last, o \in {"target", "stop"} :
             tr = [signal |-> sig.id, fill |-> fill, exit |-> d, outcome |-> o]
      BY <2>4
    <3>2. d \in 0..MaxDay /\ d \in fill..(fill + Hold)
      BY <2>3, ParametersAreNumbers
    <3> QED
      BY <2>1, <2>3, <3>1, <3>2 DEF Trade
  <2>5. CASE tr = [signal |-> sig.id, fill |-> fill, exit |-> last, outcome |-> "time"]
    <3>1. last \in 0..MaxDay
      BY <2>3, ParametersAreNumbers
    <3> QED
      BY <2>1, <2>3, <2>5, <3>1 DEF Trade
  <2>6. CASE tr = [signal |-> sig.id, fill |-> fill, exit |-> 0, outcome |-> "open"]
    <3>1. 0 \in 0..MaxDay
      BY ParametersAreNumbers
    <3> QED
      BY <2>1, <2>3, <2>6, <3>1 DEF Trade
  <2> QED
    BY <2>4, <2>5, <2>6 DEF Resolutions, last, fill
<1>6. \/ trades' = trades
      \/ \E tr \in Trade :
           /\ trades' = trades \cup {tr}
           /\ tr.signal = sig.id
           /\ tr.fill = sig.decision + 1
           /\ tr.outcome # "open" => tr.exit \in tr.fill..(tr.fill + Hold)
  BY <1>2, <1>5
<1> QED
  BY <1>4, <1>6

(* A run ends, or is stopped: its process is idle again.                   *)
Ended(p) ==
  /\ run' = [run EXCEPT ![p] = Idle]
  /\ watch' = [watch EXCEPT ![p] = Unwatched]
  /\ UNCHANGED <<marketVars, statusVars, signals, trades>>

LEMMA EndEffect ==
  ASSUME JournalTypeOK, NEW p \in Procs, BeginWithNone(p) \/ EndRun(p) \/ Stop(p)
  PROVE  /\ Ended(p)
         /\ run' \in [Procs -> RunState] /\ RunOnly(p)
         /\ watch' \in [Procs -> WatchState] /\ \A q \in Procs \ {p} : watch'[q] = watch[q]
         /\ run'[p].pc = "idle" /\ run'[p].out = {}
<1>1. Ended(p)
  BY DEF BeginWithNone, EndRun, Stop, End, Ended
<1> QED
  BY <1>1, IdleIsTyped DEF Ended, RunOnly, Idle, JournalTypeOK

-----------------------------------------------------------------------------
(* The kinds of step: the calendar turns, or the market or a status moves  *)
(* under the watch, or one statement of one run_signals.                   *)
Calm == NewDay \/ BeginNight \/ FetchCalendar \/ EndIngest

Moved ==
  \/ \E s \in Strategies : Reassess(s)
  \/ \E t \in Tickers : Scan(t) \/ IngestBars(t)
  \/ \E r \in Releases : IngestRelease(r)

Statement(p) ==
  \/ Begin(p) \/ Load(p) \/ Decide(p) \/ Screen(p) \/ BeginJournal(p) \/ Journal(p)
  \/ BeginWithNone(p) \/ EndRun(p) \/ Stop(p)

LEMMA StepCases ==
  ASSUME [JournalNext]_journalVars
  PROVE  Calm \/ Moved \/ (\E p \in Procs : Statement(p)) \/ UNCHANGED journalVars
BY DEF JournalNext, NightlyIngest, RunSignals, Calm, Moved, Statement

(* Bars are stored for days that have come.                                *)
LEMMA UpsertEffect ==
  ASSUME JournalTypeOK, NEW t \in Tickers, NEW upTo \in 0..day, UpsertBars(t, upTo)
  PROVE  latest' \in [Tickers -> 0..day] /\ setup' \subseteq Pairs
<1>1. day \in Nat /\ latest \in [Tickers -> 0..day] /\ setup \subseteq Pairs
  BY ParametersAreNumbers DEF JournalTypeOK, Days
<1>2. PICK d \in latest[t]..upTo, fires \in SUBSET (Strategies \X {t}) :
        /\ latest' = [latest EXCEPT ![t] = d]
        /\ setup' = (setup \ (Strategies \X {t})) \cup fires
  BY DEF UpsertBars
<1>3. d \in 0..day
  <2>1. latest[t] \in 0..day
    BY <1>1
  <2> QED
    BY <1>1, <1>2, <2>1
<1>4. fires \subseteq Pairs
  BY DEF Pairs
<1> QED
  BY <1>1, <1>2, <1>3, <1>4

(* What turns with the calendar, and what moves, keeps its type, and runs  *)
(* stay as they are.                                                       *)
LEMMA CalmEffect ==
  ASSUME JournalTypeOK, Calm
  PROVE  /\ JournalTypeOK'
         /\ UNCHANGED <<latest, setup, earnings, statusVars, signals, trades, run, watch>>
<1>1. day \in Nat /\ to \in 0..day /\ MaxDay \in Nat
  BY ParametersAreNumbers DEF JournalTypeOK, Days
<1>2. CASE NewDay
  <2>1. day' \in Days /\ to' \in 0..day'
    BY <1>1, <1>2 DEF NewDay, Days, nightVars
  <2>2. latest' \in [Tickers -> 0..day']
    <3>1. ASSUME NEW t \in Tickers
          PROVE  latest[t] \in 0..day'
      <4>1. latest[t] \in 0..day
        BY DEF JournalTypeOK
      <4> QED
        BY <1>1, <1>2, <4>1 DEF NewDay
    <3> QED
      BY <1>2, <3>1 DEF NewDay, JournalTypeOK
  <2> QED
    BY <1>2, <2>1, <2>2 DEF NewDay, JournalTypeOK, statusVars, nightVars
<1>3. CASE BeginNight
  <2>1. to' \in 0..day' /\ fetch' \subseteq Tickers \cup Releases /\ step' = "bars"
    BY <1>1, <1>3 DEF BeginNight, marketVars
  <2> QED
    BY <1>3, <2>1 DEF BeginNight, JournalTypeOK, marketVars, statusVars
<1>4. CASE FetchCalendar
  <2>1. fetch' \subseteq Tickers \cup Releases /\ step' = "earnings"
    BY <1>4 DEF FetchCalendar, Calendar
  <2> QED
    BY <1>4, <2>1 DEF FetchCalendar, JournalTypeOK, marketVars, statusVars
<1>5. CASE EndIngest
  BY <1>5 DEF EndIngest, JournalTypeOK, marketVars, statusVars
<1> QED
  BY <1>2, <1>3, <1>4, <1>5 DEF Calm

LEMMA MovedEffect ==
  ASSUME JournalTypeOK, Moved
  PROVE  /\ JournalTypeOK'
         /\ Watch
         /\ UNCHANGED <<day, signals, trades, step, to, run>>
         /\ earnings \subseteq earnings'
         /\ step = "earnings" => fetch \subseteq fetch' \cup earnings'
<1>1. to \in 0..day /\ day \in 0..day
  BY ParametersAreNumbers DEF JournalTypeOK, Days
<1>2. CASE \E s \in Strategies : Reassess(s)
  <2>1. PICK s \in Strategies : Reassess(s)
    BY <1>2
  <2>2. promoted' \subseteq Strategies /\ scored' \subseteq Strategies
    BY <2>1 DEF Reassess, JournalTypeOK
  <2>3. watch' \in [Procs -> WatchState]
    BY <2>1, <2>2, WatchEffect DEF Reassess
  <2> QED
    BY <2>1, <2>2, <2>3 DEF Reassess, JournalTypeOK, marketVars, nightVars
<1>3. CASE \E t \in Tickers : Scan(t) \/ IngestBars(t)
  <2>1. PICK t \in Tickers : Scan(t) \/ IngestBars(t)
    BY <1>3
  <2>2. PICK upTo \in 0..day : UpsertBars(t, upTo)
    BY <1>1, <2>1 DEF Scan, IngestBars
  <2>3. latest' \in [Tickers -> 0..day] /\ setup' \subseteq Pairs
    BY <2>2, UpsertEffect
  <2>4. UNCHANGED <<day, earnings, statusVars, signals, trades, run, step, to>>
    BY <2>1 DEF Scan, IngestBars, UpsertBars, nightVars
  <2>5. watch' \in [Procs -> WatchState]
    BY <2>2, <2>4, WatchEffect DEF UpsertBars, JournalTypeOK, statusVars
  <2>6. /\ fetch' \subseteq Tickers \cup Releases
        /\ step = "earnings" => fetch' = fetch
    BY <2>1 DEF Scan, IngestBars, JournalTypeOK, nightVars
  <2> QED
    BY <2>2, <2>3, <2>4, <2>5, <2>6 DEF UpsertBars, JournalTypeOK, statusVars
<1>4. CASE \E r \in Releases : IngestRelease(r)
  <2>1. PICK r \in Releases : IngestRelease(r)
    BY <1>4
  <2>2. watch' \in [Procs -> WatchState]
    BY <2>1, WatchEffect DEF IngestRelease, JournalTypeOK, statusVars
  <2>3. /\ earnings' = earnings \cup {r} /\ fetch' = fetch \ {r} /\ Watch
        /\ UNCHANGED <<day, latest, setup, promoted, scored, signals, trades, step, to, run>>
    BY <2>1 DEF IngestRelease, statusVars
  <2>4. earnings' \subseteq Releases /\ fetch' \subseteq Tickers \cup Releases
    BY <2>3 DEF JournalTypeOK
  <2> QED
    BY <2>2, <2>3, <2>4 DEF JournalTypeOK
<1> QED
  BY <1>2, <1>3, <1>4 DEF Moved

(* Every statement of a run leaves the market and the statuses alone, and  *)
(* keeps the types.                                                        *)
LEMMA StatementEffect ==
  ASSUME JournalTypeOK, IsFiniteSet(signals), NEW p \in Procs, Statement(p)
  PROVE  /\ JournalTypeOK'
         /\ UNCHANGED <<marketVars, statusVars>>
         /\ RunOnly(p)
         /\ \A q \in Procs \ {p} : watch'[q] = watch[q]
         /\ signals' = signals \/ Screen(p)
         /\ trades' = trades \/ Journal(p)
<1>1. /\ run \in [Procs -> RunState] /\ watch \in [Procs -> WatchState]
      /\ \A q \in Procs : run[q].out \subseteq signals
      /\ signals \subseteq Signal /\ trades \subseteq Trade
      /\ 0 \in 0..day
  BY ParametersAreNumbers DEF JournalTypeOK, Days
<1>2. /\ UNCHANGED <<marketVars, statusVars>>
      /\ signals' = signals \/ Screen(p)
      /\ trades' = trades \/ Journal(p)
  BY DEF Statement, Begin, Load, Decide, Screen, BeginJournal, Journal,
         BeginWithNone, EndRun, Stop
<1>3. /\ step' \in {"off", "bars", "earnings", "signals", "journal"}
      /\ to' \in 0..day /\ fetch' \subseteq Tickers \cup Releases
  <2>1. CASE UNCHANGED nightVars
    BY <2>1 DEF nightVars, JournalTypeOK
  <2>2. CASE End(p) /\ p = Night
    BY <1>1, <2>2 DEF End, NextStep, JournalTypeOK
  <2>3. CASE step' = "off" /\ to' = 0 /\ fetch' = {}
    BY <1>1, <2>3
  <2> QED
    BY <2>1, <2>2, <2>3 DEF Statement, Begin, Load, Decide, Screen, BeginJournal, Journal,
       BeginWithNone, EndRun, Stop, End
<1>4. SUFFICES /\ run' \in [Procs -> RunState] /\ watch' \in [Procs -> WatchState]
               /\ run'[p].out \subseteq signals' /\ RunOnly(p)
               /\ \A q \in Procs \ {p} : watch'[q] = watch[q]
               /\ signals' \subseteq Signal /\ trades' \subseteq Trade
               /\ signals \subseteq signals'
  <2>1. \A q \in Procs : run'[q].out \subseteq signals'
    BY <1>1, <1>4 DEF RunOnly
  <2>2. /\ day' \in Days /\ latest' \in [Tickers -> 0..day']
        /\ setup' \subseteq Pairs /\ earnings' \subseteq Releases
        /\ promoted' \subseteq Strategies /\ scored' \subseteq Strategies
        /\ to' \in 0..day'
    BY <1>2, <1>3 DEF JournalTypeOK, marketVars, statusVars
  <2> QED
    BY <1>2, <1>3, <1>4, <2>1, <2>2 DEF JournalTypeOK
<1>5. CASE Begin(p)
  BY <1>1, <1>5, BeginEffect DEF Begin
<1>6. CASE Load(p)
  BY <1>1, <1>6, LoadEffect DEF Load
<1>7. CASE Decide(p)
  BY <1>1, <1>7, DecideEffect DEF Decide
<1>8. CASE Screen(p)
  <2>1. /\ run' \in [Procs -> RunState] /\ RunOnly(p)
        /\ \/ run'[p].out = run[p].out /\ signals' = signals
           \/ /\ run'[p].out = run[p].out \cup {NewSignal(p)}
              /\ signals' = signals \cup {NewSignal(p)} /\ NewSignal(p) \in Signal
    BY <1>8, ScreenEffect
  <2>2. UNCHANGED <<trades, watch>>
    BY <1>8 DEF Screen
  <2> QED
    BY <1>1, <2>1, <2>2
<1>9. CASE BeginJournal(p)
  BY <1>1, <1>9, BeginJournalEffect DEF BeginJournal
<1>10. CASE Journal(p)
  <2>1. PICK sig \in run[p].out :
         /\ run' \in [Procs -> RunState] /\ RunOnly(p)
         /\ run'[p].pc = "journal" /\ run[p].pc = "journal"
         /\ run'[p].out = run[p].out \ {sig}
         /\ sig \in signals
         /\ \/ trades' = trades
            \/ \E tr \in Trade :
                 /\ trades' = trades \cup {tr}
                 /\ tr.signal = sig.id
                 /\ tr.fill = sig.decision + 1
                 /\ tr.outcome # "open" => tr.exit \in tr.fill..(tr.fill + Hold)
    BY <1>10, JournalEffect
  <2>2. UNCHANGED <<signals, watch>>
    BY <1>10 DEF Journal
  <2>3. trades' \subseteq Trade
    BY <1>1, <2>1
  <2> QED
    BY <1>1, <2>1, <2>2, <2>3
<1>11. CASE BeginWithNone(p) \/ EndRun(p) \/ Stop(p)
  BY <1>1, <1>11, EndEffect DEF Ended
<1> QED
  BY <1>5, <1>6, <1>7, <1>8, <1>9, <1>10, <1>11 DEF Statement

LEMMA TypeStep ==
  ASSUME JournalTypeOK, IsFiniteSet(signals), [JournalNext]_journalVars
  PROVE  JournalTypeOK'
<1>1. CASE UNCHANGED journalVars
  BY <1>1 DEF JournalTypeOK, journalVars, marketVars, statusVars, nightVars
<1> QED
  BY <1>1, StepCases, CalmEffect, MovedEffect, StatementEffect

-----------------------------------------------------------------------------
(* The parts of the invariant, one step each.                              *)
LEMMA NewSignalIsFresh ==
  ASSUME SignalsAreNumbered, NEW p \in Procs
  PROVE  /\ Cardinality(signals) \in Nat
         /\ NewSignal(p) \notin signals
         /\ \A sig \in signals : sig.id # NewSignal(p).id
<1>1. Cardinality(signals) \in Nat
  BY FS_CardinalityType DEF SignalsAreNumbered
<1>2. NewSignal(p).id = Cardinality(signals) + 1
  BY DEF NewSignal
<1>3. ASSUME NEW sig \in signals, sig.id = NewSignal(p).id
      PROVE  FALSE
  BY <1>1, <1>2, <1>3 DEF SignalsAreNumbered
<1> QED
  BY <1>1, <1>3

LEMMA NumberedStep ==
  ASSUME JournalTypeOK, SignalsAreNumbered, [JournalNext]_journalVars
  PROVE  SignalsAreNumbered'
<1>1. CASE signals' = signals
  BY <1>1 DEF SignalsAreNumbered
<1>2. ASSUME NEW p \in Procs, Screen(p), signals' = signals \cup {NewSignal(p)}
      PROVE  SignalsAreNumbered'
  <2>1. /\ IsFiniteSet(signals) /\ Cardinality(signals) \in Nat
        /\ NewSignal(p) \notin signals /\ \A sig \in signals : sig.id # NewSignal(p).id
    BY NewSignalIsFresh DEF SignalsAreNumbered
  <2>2. IsFiniteSet(signals') /\ Cardinality(signals') = Cardinality(signals) + 1
    BY <1>2, <2>1, FS_AddElement
  <2>3. ASSUME NEW sig \in signals'
        PROVE  sig.id <= Cardinality(signals')
    <3>1. CASE sig \in signals
      <4>1. sig.id \in Nat
        BY <3>1 DEF JournalTypeOK, Signal
      <4> QED
        BY <2>1, <2>2, <3>1, <4>1 DEF SignalsAreNumbered
    <3>2. CASE sig = NewSignal(p)
      BY <2>1, <2>2, <3>2 DEF NewSignal
    <3> QED
      BY <1>2, <3>1, <3>2
  <2>4. ASSUME NEW s1 \in signals', NEW s2 \in signals', s1.id = s2.id
        PROVE  s1 = s2
    BY <1>2, <2>1, <2>4 DEF SignalsAreNumbered
  <2> QED
    BY <2>2, <2>3, <2>4 DEF SignalsAreNumbered
<1>3. ASSUME NEW p \in Procs, Screen(p)
      PROVE  signals' = signals \/ signals' = signals \cup {NewSignal(p)}
  BY <1>3, ScreenEffect DEF SignalsAreNumbered
<1>4. IsFiniteSet(signals)
  BY DEF SignalsAreNumbered
<1>5. CASE UNCHANGED journalVars
  BY <1>1, <1>5 DEF journalVars
<1> QED
  BY <1>1, <1>2, <1>3, <1>4, <1>5, StepCases, CalmEffect, MovedEffect, StatementEffect

(* A surfaced signal is new to every run and to every trade; a journaled   *)
(* one leaves the run as its trade is stored.                              *)
LEMMA UntradedStep ==
  ASSUME JournalTypeOK, SignalsAreNumbered, OneTradePerSignal, OutIsUntraded,
         [JournalNext]_journalVars
  PROVE  OutIsUntraded'
<1>1. IsFiniteSet(signals)
  BY DEF SignalsAreNumbered
<1>2. CASE UNCHANGED <<trades, run>>
  BY <1>2 DEF OutIsUntraded
<1>3. ASSUME NEW p \in Procs, Statement(p)
      PROVE  OutIsUntraded'
  <2>1. run \in [Procs -> RunState] /\ run' \in [Procs -> RunState]
        /\ \A q \in Procs : run[q].out \subseteq signals
    BY <1>1, <1>3, StatementEffect DEF JournalTypeOK
  <2>2. RunOnly(p)
    BY <1>1, <1>3, StatementEffect
  <2>3. CASE run'[p].out \subseteq run[p].out /\ trades' = trades
    BY <2>2, <2>3 DEF OutIsUntraded, RunOnly
  <2>4. CASE Screen(p)
    <3>1. \/ run'[p].out = run[p].out
          \/ run'[p].out = run[p].out \cup {NewSignal(p)}
      BY <1>1, <2>4, ScreenEffect
    <3>2. trades' = trades
      BY <2>4 DEF Screen
    <3>3. /\ \A q \in Procs : NewSignal(p) \notin run[q].out
          /\ \A tr \in trades : tr.signal # NewSignal(p).id
      BY <2>1, NewSignalIsFresh DEF OneTradePerSignal
    <3> QED
      BY <2>2, <3>1, <3>2, <3>3 DEF OutIsUntraded, RunOnly
  <2>5. CASE Journal(p)
    <3>1. PICK sig \in run[p].out :
         /\ run' \in [Procs -> RunState] /\ RunOnly(p)
         /\ run'[p].pc = "journal" /\ run[p].pc = "journal"
         /\ run'[p].out = run[p].out \ {sig}
         /\ sig \in signals
         /\ \/ trades' = trades
            \/ \E tr \in Trade :
                 /\ trades' = trades \cup {tr}
                 /\ tr.signal = sig.id
                 /\ tr.fill = sig.decision + 1
                 /\ tr.outcome # "open" => tr.exit \in tr.fill..(tr.fill + Hold)
      BY <2>5, JournalEffect
    <3>2. ASSUME NEW q \in Procs, NEW s \in run'[q].out
          PROVE  s \in run[q].out /\ s # sig /\ s \in signals
      BY <2>1, <3>1 DEF OutIsUntraded, RunOnly
    <3>3. ASSUME NEW q \in Procs, NEW s \in run'[q].out
          PROVE  \A tr \in trades' : tr.signal # s.id
      BY <3>1, <3>2 DEF OutIsUntraded, SignalsAreNumbered
    <3> QED
      BY <3>2, <3>3 DEF OutIsUntraded
  <2>6. CASE Begin(p)
    BY <2>3, <2>6, BeginEffect DEF Begin
  <2>7. CASE Load(p)
    BY <2>3, <2>7, LoadEffect DEF Load
  <2>8. CASE Decide(p)
    <3>1. run'[p].out = run[p].out
      BY <2>8, DecideEffect
    <3> QED
      BY <2>3, <2>8, <3>1 DEF Decide
  <2>9. CASE BeginJournal(p)
    BY <2>3, <2>9, BeginJournalEffect DEF BeginJournal
  <2>10. CASE BeginWithNone(p) \/ EndRun(p) \/ Stop(p)
    BY <2>3, <2>10, EndEffect DEF Ended
  <2> QED
    BY <1>3, <2>4, <2>5, <2>6, <2>7, <2>8, <2>9, <2>10 DEF Statement
<1>4. CASE UNCHANGED journalVars
  BY <1>2, <1>4 DEF journalVars
<1> QED
  BY <1>2, <1>3, <1>4, StepCases, CalmEffect, MovedEffect

LEMMA CalendarStep ==
  ASSUME JournalTypeOK, IsFiniteSet(signals), CalendarIsStored, [JournalNext]_journalVars
  PROVE  CalendarIsStored'
<1>1. CASE Calm
  <2>1. UNCHANGED <<earnings, run>>
    BY <1>1, CalmEffect
  <2> QED
    BY <1>1, <2>1
    DEF Calm, CalendarIsStored, Calendar, NewDay, BeginNight, FetchCalendar, EndIngest, nightVars
<1>2. CASE Moved
  <2>1. /\ UNCHANGED <<step, to, run>> /\ earnings \subseteq earnings'
        /\ step = "earnings" => fetch \subseteq fetch' \cup earnings'
    BY <1>2, MovedEffect
  <2>2. Calendar' = Calendar
    BY <2>1 DEF Calendar
  <2> QED
    BY <2>1, <2>2 DEF CalendarIsStored
<1>3. ASSUME NEW p \in Procs, Statement(p)
      PROVE  CalendarIsStored'
  <2>1. RunOnly(p) /\ earnings' = earnings
    BY <1>3, StatementEffect DEF marketVars
  <2>2. Night \in Procs
    BY DEF Procs
  <2>3. CASE UNCHANGED nightVars /\ (run[Night].pc = "idle" /\ run'[Night].pc # "idle" =>
                                       step \in {"signals", "journal"})
    BY <2>1, <2>3 DEF CalendarIsStored, Calendar, nightVars
  <2>4. CASE Begin(p)
    BY <2>1, <2>2, <2>3, <2>4 DEF Begin, RunOnly
  <2>5. CASE Load(p) \/ Decide(p) \/ Screen(p) \/ BeginJournal(p) \/ Journal(p)
    <3>1. run[p].pc # "idle"
      BY <2>5 DEF Load, Decide, Screen, BeginJournal, Journal, Built
    <3>2. UNCHANGED nightVars
      BY <2>5 DEF Load, Decide, Screen, BeginJournal, Journal
    <3> QED
      BY <2>1, <2>2, <2>3, <3>1, <3>2 DEF RunOnly
  <2>6. CASE BeginWithNone(p) \/ EndRun(p) \/ Stop(p)
    <3>1. run'[p].pc = "idle"
      BY <2>6, EndEffect
    <3>2. CASE p # Night
      <4>1. UNCHANGED nightVars
        BY <2>6, <3>2 DEF BeginWithNone, EndRun, Stop, End
      <4> QED
        BY <2>1, <2>2, <2>3, <3>2, <4>1 DEF RunOnly
    <3>3. CASE p = Night /\ (BeginWithNone(p) \/ EndRun(p))
      <4>1. NextStep
        BY <3>3 DEF BeginWithNone, EndRun, End
      <4>2. step \in {"signals", "journal"}
        BY <3>3 DEF BeginWithNone, EndRun, Built, CalendarIsStored
      <4> QED
        BY <2>1, <3>1, <3>3, <4>1, <4>2 DEF NextStep, CalendarIsStored, Calendar
    <3>4. CASE p = Night /\ Stop(p)
      BY <2>1, <3>1, <3>4 DEF Stop, CalendarIsStored
    <3> QED
      BY <2>6, <3>2, <3>3, <3>4
  <2> QED
    BY <1>3, <2>4, <2>5, <2>6 DEF Statement
<1>4. CASE UNCHANGED journalVars
  BY <1>4 DEF journalVars, CalendarIsStored, Calendar, marketVars, nightVars
<1> QED
  BY <1>1, <1>2, <1>3, <1>4, StepCases

(* A new signal is screened against all of the calendar its night has      *)
(* fetched; by hand nothing is promised.                                   *)
LEMMA KnownStep ==
  ASSUME JournalTypeOK, IsFiniteSet(signals), CalendarIsStored, KnownReleasesAreAvoided,
         [JournalNext]_journalVars
  PROVE  KnownReleasesAreAvoided'
<1>1. CASE signals' = signals
  BY <1>1 DEF KnownReleasesAreAvoided, InBlackout
<1>2. ASSUME NEW p \in Procs, Screen(p)
      PROVE  KnownReleasesAreAvoided'
  <2> DEFINE new == NewSignal(p)
  <2>1. /\ run[p].pc = "build"
        /\ run[p].held \in Pairs \X Days
        /\ \/ signals' = signals
           \/ /\ ~InBlackout(run[p].held[2], run[p].held[1][2], earnings)
              /\ signals' = signals \cup {new}
    BY <1>2, ScreenEffect
  <2>2. CASE signals' = signals \cup {new}
             /\ ~InBlackout(run[p].held[2], run[p].held[1][2], earnings)
    <3>1. ASSUME NEW r \in Releases, r[2] <= new.asOf, r[1] = new.ticker,
                 new.decision < r[2], r[2] <= new.decision + Blackout
          PROVE  FALSE
      <4>1. new.decision = run[p].held[2] /\ new.ticker = run[p].held[1][2]
            /\ new.asOf = (IF p = Night THEN to ELSE 0)
        BY DEF NewSignal
      <4>2. r[2] \in Nat /\ new.decision \in Days
        BY <2>1, <4>1, JournalAssumption
      <4>3. CASE p = Night
        <5>1. r \in earnings
          BY <2>1, <3>1, <4>1, <4>3 DEF CalendarIsStored, Calendar
        <5> QED
          BY <2>2, <3>1, <4>1, <5>1 DEF InBlackout
      <4>4. CASE p # Night
        BY <3>1, <4>1, <4>2, <4>4 DEF Days
      <4> QED
        BY <4>3, <4>4
    <3>2. ~InBlackout(new.decision, new.ticker, {r \in Releases : r[2] <= new.asOf})
      BY <3>1 DEF InBlackout
    <3> HIDE DEF new
    <3> QED
      BY <2>2, <3>2 DEF KnownReleasesAreAvoided, InBlackout
  <2> QED
    BY <1>1, <2>1, <2>2
<1>3. CASE UNCHANGED journalVars
  BY <1>1, <1>3 DEF journalVars
<1> QED
  BY <1>1, <1>2, <1>3, StepCases, CalmEffect, MovedEffect, StatementEffect

(* What is eligible is what the gates would let through, of loaded pairs.  *)
LEMMA EligibleFacts ==
  ASSUME JournalTypeOK
  PROVE  /\ Eligible \subseteq Loaded
         /\ \A pair \in Eligible :
              /\ pair \in setup /\ latest[pair[2]] > 0 /\ pair[1] \in scored
              /\ \A d \in Days : ~InBlackout(d, pair[2], earnings)
BY DEF Eligible, Loaded, JournalTypeOK, Pairs, InBlackout

(* A new signal is of the pair in hand.                                    *)
LEMMA NewSignalIsOfThePair ==
  ASSUME NEW p \in Procs, run[p].held \in Pairs \X Days
  PROVE  /\ <<NewSignal(p).strategy, NewSignal(p).ticker>> = run[p].held[1]
         /\ NewSignal(p).strategy = run[p].held[1][1]
<1>1. run[p].held[1] \in Pairs
  OBVIOUS
<1>2. run[p].held[1] = <<run[p].held[1][1], run[p].held[1][2]>>
  BY <1>1 DEF Pairs
<1> QED
  BY <1>2 DEF NewSignal

(* The other runs keep what they have, and their watch.                    *)
LEMMA OtherRunsStayWatched ==
  ASSUME NEW q \in Procs, RunIsWatched(q), run'[q] = run[q], watch'[q] = watch[q],
         UNCHANGED <<latest, setup, earnings, statusVars>>
  PROVE  RunIsWatched(q)'
<1>1. Eligible' = Eligible /\ promoted' = promoted
  BY DEF Eligible, statusVars
<1> QED
  BY <1>1 DEF RunIsWatched, PairsOf

LEMMA OwnRunStaysWatched ==
  ASSUME JournalTypeOK, IsFiniteSet(signals), NEW p \in Procs, Statement(p), RunIsWatched(p)
  PROVE  RunIsWatched(p)'
<1>1. UNCHANGED <<marketVars, statusVars>>
  BY StatementEffect
<1>2. Eligible' = Eligible /\ promoted' = promoted
  BY <1>1 DEF Eligible, statusVars, marketVars
<1>3. CASE Begin(p)
  BY <1>2, <1>3, BeginEffect DEF RunIsWatched
<1>4. CASE Load(p)
  <2>1. /\ run[p].pc = "load" /\ run'[p].pc = "build"
        /\ run'[p].todo = Loaded
        /\ run'[p].held = NoBar /\ run'[p].out = {}
    BY <1>4, LoadEffect DEF RunIsWatched
  <2>2. watch'[p] = watch[p]
    BY <1>4 DEF Load
  <2>3. watch[p].always \subseteq Loaded /\ \A pair \in Loaded : pair[1] \in watch[p].ever
    BY <2>1, EligibleFacts DEF RunIsWatched, Loaded
  <2> QED
    BY <1>2, <2>1, <2>2, <2>3 DEF RunIsWatched
<1>5. CASE Decide(p)
  <2>1. PICK pair \in run[p].todo :
         /\ run' \in [Procs -> RunState] /\ RunOnly(p)
         /\ run[p].pc = "build" /\ run'[p].pc = "build" /\ run[p].held = NoBar
         /\ run'[p].out = run[p].out
         /\ pair \in Pairs
         /\ \/ /\ latest[pair[2]] > 0 /\ pair \in setup
               /\ run'[p].todo = run[p].todo
               /\ run'[p].held = <<pair, latest[pair[2]]>>
            \/ /\ ~(latest[pair[2]] > 0 /\ pair \in setup)
               /\ run'[p].todo = run[p].todo \ {pair}
               /\ run'[p].held = NoBar
    BY <1>5, DecideEffect
  <2>2. watch'[p] = watch[p]
    BY <1>5 DEF Decide
  <2>3. CASE /\ run'[p].todo = run[p].todo
             /\ run'[p].held = <<pair, latest[pair[2]]>>
    BY <1>2, <2>1, <2>2, <2>3 DEF RunIsWatched, PairsOf
  <2>4. CASE /\ ~(latest[pair[2]] > 0 /\ pair \in setup)
             /\ run'[p].todo = run[p].todo \ {pair}
             /\ run'[p].held = NoBar
    <3>1. pair \notin watch[p].always
      BY <2>1, <2>4, EligibleFacts DEF RunIsWatched
    <3> QED
      BY <1>2, <2>1, <2>2, <2>4, <3>1 DEF RunIsWatched, PairsOf
  <2> QED
    BY <2>1, <2>3, <2>4
<1>6. CASE Screen(p)
  <2> DEFINE pair == run[p].held[1]
  <2> DEFINE d == run[p].held[2]
  <2>1. /\ run[p].pc = "build" /\ run'[p].pc = "build"
        /\ run[p].held \in Pairs \X Days /\ run'[p].held = NoBar
        /\ run'[p].todo = run[p].todo \ {pair}
        /\ \/ /\ InBlackout(d, pair[2], earnings) \/ pair[1] \notin scored
              /\ run'[p].out = run[p].out
           \/ run'[p].out = run[p].out \cup {NewSignal(p)}
    BY <1>6, ScreenEffect
  <2>2. watch'[p] = watch[p]
    BY <1>6 DEF Screen
  <2>3. run[p].held # NoBar /\ pair \in run[p].todo /\ d \in Days
    BY <1>6, <2>1 DEF RunIsWatched, Screen
  <2>4. CASE /\ InBlackout(d, pair[2], earnings) \/ pair[1] \notin scored
             /\ run'[p].out = run[p].out
    <3>1. pair \notin watch[p].always
      BY <2>1, <2>3, <2>4, EligibleFacts DEF RunIsWatched
    <3> QED
      BY <1>2, <2>1, <2>2, <2>4, <3>1 DEF RunIsWatched, PairsOf
  <2>5. CASE run'[p].out = run[p].out \cup {NewSignal(p)}
    <3>1. /\ NewSignal(p).strategy \in watch[p].ever
          /\ PairsOf(run'[p].out) = PairsOf(run[p].out) \cup {pair}
      BY <2>1, <2>3, <2>5, NewSignalIsOfThePair DEF PairsOf, RunIsWatched
    <3>2. watch'[p].always \subseteq run'[p].todo \cup PairsOf(run'[p].out)
      BY <2>1, <2>2, <3>1 DEF RunIsWatched
    <3>3. \A sig \in run'[p].out : sig.strategy \in watch'[p].ever
      BY <2>1, <2>2, <2>5, <3>1 DEF RunIsWatched
    <3>4. \A x \in run'[p].todo : x[1] \in watch'[p].ever
      BY <2>1, <2>2 DEF RunIsWatched
    <3> HIDE DEF pair, d
    <3> QED
      BY <1>2, <2>1, <2>2, <3>2, <3>3, <3>4 DEF RunIsWatched, PairsOf
  <2> QED
    BY <2>1, <2>4, <2>5
<1>7. CASE BeginJournal(p)
  BY <1>7, BeginJournalEffect DEF RunIsWatched
<1>8. CASE Journal(p)
  <2>1. run'[p].pc = "journal"
    BY <1>8, JournalEffect
  <2> QED
    BY <2>1 DEF RunIsWatched
<1>9. CASE BeginWithNone(p) \/ EndRun(p) \/ Stop(p)
  <2>1. run'[p] = Idle
    BY <1>9, EndEffect DEF Ended, JournalTypeOK
  <2> QED
    BY <2>1 DEF RunIsWatched, Idle
<1> QED
  BY <1>3, <1>4, <1>5, <1>6, <1>7, <1>8, <1>9 DEF Statement

LEMMA WatchedStep ==
  ASSUME JournalTypeOK, IsFiniteSet(signals), [JournalNext]_journalVars,
         \A p \in Procs : RunIsWatched(p)
  PROVE  \A p \in Procs : RunIsWatched(p)'
<1> SUFFICES ASSUME NEW q \in Procs
             PROVE  RunIsWatched(q)'
  OBVIOUS
<1>1. CASE Calm \/ UNCHANGED journalVars
  <2>1. UNCHANGED <<latest, setup, earnings, statusVars, run, watch>>
    BY <1>1, CalmEffect DEF journalVars, marketVars
  <2> QED
    BY <2>1, OtherRunsStayWatched
<1>2. CASE Moved
  <2>1. Watch /\ run' = run /\ promoted' \subseteq Strategies
    BY <1>2, MovedEffect DEF JournalTypeOK
  <2>2. CASE run[q].pc = "idle"
    BY <2>1, <2>2 DEF RunIsWatched
  <2>3. CASE run[q].pc # "idle"
    <3>1. /\ watch'[q].ever = watch[q].ever \cup promoted'
          /\ watch'[q].always = watch[q].always \cap Eligible'
      BY <2>1, <2>3, WatchEffect
    <3> QED
      BY <2>1, <3>1 DEF RunIsWatched, PairsOf
  <2> QED
    BY <2>2, <2>3
<1>3. ASSUME NEW p \in Procs, Statement(p)
      PROVE  RunIsWatched(q)'
  <2>1. CASE q = p
    BY <1>3, <2>1, OwnRunStaysWatched
  <2>2. CASE q # p
    <3>1. /\ run'[q] = run[q] /\ watch'[q] = watch[q]
          /\ UNCHANGED <<latest, setup, earnings, statusVars>>
      BY <1>3, <2>2, StatementEffect DEF RunOnly, marketVars
    <3> QED
      BY <3>1, OtherRunsStayWatched
  <2> QED
    BY <2>1, <2>2
<1> QED
  BY <1>1, <1>2, <1>3, StepCases

(* One trade per signal, filled at the next bar: a new signal has none     *)
(* yet, and what a run still has to journal has none either.               *)
LEMMA TradesStep ==
  ASSUME JournalTypeOK, SignalsAreNumbered, OneTradePerSignal, TradesLookForward, OutIsUntraded,
         [JournalNext]_journalVars
  PROVE  OneTradePerSignal' /\ TradesLookForward'
<1>1. IsFiniteSet(signals)
  BY DEF SignalsAreNumbered
<1>2. CASE UNCHANGED <<trades, signals>>
  BY <1>2 DEF OneTradePerSignal, TradesLookForward
<1>3. ASSUME NEW p \in Procs, Screen(p)
      PROVE  OneTradePerSignal' /\ TradesLookForward'
  <2>1. /\ signals' = signals \/ signals' = signals \cup {NewSignal(p)}
        /\ trades' = trades
    BY <1>1, <1>3, ScreenEffect DEF Screen
  <2>2. \A tr \in trades : tr.signal # NewSignal(p).id
    BY NewSignalIsFresh DEF OneTradePerSignal
  <2> QED
    BY <2>1, <2>2 DEF OneTradePerSignal, TradesLookForward
<1>4. ASSUME NEW p \in Procs, Journal(p)
      PROVE  OneTradePerSignal' /\ TradesLookForward'
  <2>1. PICK sig \in run[p].out :
         /\ run' \in [Procs -> RunState] /\ RunOnly(p)
         /\ run'[p].pc = "journal" /\ run[p].pc = "journal"
         /\ run'[p].out = run[p].out \ {sig}
         /\ sig \in signals
         /\ \/ trades' = trades
            \/ \E tr \in Trade :
                 /\ trades' = trades \cup {tr}
                 /\ tr.signal = sig.id
                 /\ tr.fill = sig.decision + 1
                 /\ tr.outcome # "open" => tr.exit \in tr.fill..(tr.fill + Hold)
    BY <1>4, JournalEffect
  <2>2. signals' = signals
    BY <1>4 DEF Journal
  <2>3. ASSUME NEW tr \in Trade,
               trades' = trades \cup {tr},
               tr.signal = sig.id,
               tr.fill = sig.decision + 1,
               tr.outcome # "open" => tr.exit \in tr.fill..(tr.fill + Hold)
        PROVE  OneTradePerSignal' /\ TradesLookForward'
    <3>1. \A t \in trades : t.signal # tr.signal
      BY <2>3 DEF OutIsUntraded
    <3>2. \A s \in signals : s.id = tr.signal => s = sig
      BY <2>1, <2>3 DEF SignalsAreNumbered
    <3>3. OneTradePerSignal'
      BY <2>1, <2>2, <2>3, <3>1 DEF OneTradePerSignal
    <3>4. TradesLookForward'
      BY <2>2, <2>3, <3>2 DEF TradesLookForward
    <3> QED
      BY <3>3, <3>4
  <2> QED
    BY <1>2, <2>1, <2>2, <2>3
<1>5. CASE UNCHANGED journalVars
  BY <1>2, <1>5 DEF journalVars
<1> QED
  BY <1>1, <1>2, <1>3, <1>4, <1>5, StepCases, CalmEffect, MovedEffect, StatementEffect

-----------------------------------------------------------------------------
LEMMA InitSatisfiesInvariant == JournalInit => JournalInvariant
<1> SUFFICES ASSUME JournalInit
             PROVE  JournalInvariant
  OBVIOUS
<1>1. JournalTypeOK
  <2>1. day \in Days /\ 0 \in 0..day
    BY ParametersAreNumbers DEF JournalInit, Days
  <2>2. \A p \in Procs : run[p] = Idle
    BY DEF JournalInit
  <2> QED
    BY <2>1, <2>2, IdleIsTyped DEF JournalInit, JournalTypeOK, Idle
<1>2. SignalsAreNumbered
  BY FS_EmptySet DEF JournalInit, SignalsAreNumbered
<1>3. \A p \in Procs : RunIsWatched(p)
  BY DEF JournalInit, RunIsWatched, Idle
<1>4. OutIsUntraded /\ CalendarIsStored
  BY <1>3 DEF OutIsUntraded, CalendarIsStored, JournalInit, Idle, Procs
<1> QED
  BY <1>1, <1>2, <1>3, <1>4
  DEF JournalInvariant, JournalInit, KnownReleasesAreAvoided, TradesLookForward, OneTradePerSignal

LEMMA StepKeepsInvariant ==
  JournalInvariant /\ [JournalNext]_journalVars => JournalInvariant'
<1> SUFFICES ASSUME JournalInvariant, [JournalNext]_journalVars
             PROVE  JournalInvariant'
  OBVIOUS
<1>1. IsFiniteSet(signals)
  BY DEF JournalInvariant, SignalsAreNumbered
<1>2. \A p \in Procs : RunIsWatched(p)'
  BY <1>1, WatchedStep DEF JournalInvariant
<1> QED
  BY <1>1, <1>2, TypeStep, KnownStep, TradesStep, NumberedStep, UntradedStep, CalendarStep
  DEF JournalInvariant

(* The journal as a whole: signals avoid every release their night knows,  *)
(* trades look forward, once per signal, for every calendar, horizon and   *)
(* set of overlapping runs, days, restated bars and kills in between.      *)
THEOREM JournalIsInvariant == JournalSpec => []JournalInvariant
<1>1. JournalInit => JournalInvariant
  BY InitSatisfiesInvariant
<1>2. JournalInvariant /\ [JournalNext]_journalVars => JournalInvariant'
  BY StepKeepsInvariant
<1> QED
  BY <1>1, <1>2, PTL DEF JournalSpec

(* However many runs and nights overlap, are killed or re-run, a signal is *)
(* traded on paper at most once.                                           *)
THEOREM EverySignalTradesOnce == JournalSpec => []OneTradePerSignal
<1>1. JournalInvariant => OneTradePerSignal
  BY DEF JournalInvariant
<1> QED
  BY <1>1, JournalIsInvariant, PTL

(* A run surfaces no strategy that was demoted before it began and stayed  *)
(* so, however the search and the monitor write statuses under it.         *)
THEOREM PulledStrategiesAreSilent == JournalSpec => []PulledStrategyIsSilent
<1>1. JournalInvariant => PulledStrategyIsSilent
  BY DEF JournalInvariant, RunIsWatched, PulledStrategyIsSilent
<1> QED
  BY <1>1, JournalIsInvariant, PTL

(* A pair eligible all through a run is surfaced by it: no skip of another *)
(* pair, no bar or status that changes meanwhile, costs it its signal.     *)
THEOREM StableSetupsDoSurface == JournalSpec => []StableSetupsSurface
<1>1. JournalInvariant => StableSetupsSurface
  BY DEF JournalInvariant, RunIsWatched, StableSetupsSurface, Built
<1> QED
  BY <1>1, JournalIsInvariant, PTL
=============================================================================
