--------------------------- MODULE SignalJournal ---------------------------
(***************************************************************************)
(* From a promoted strategy to a stored signal to a paper trade: `se       *)
(* signals [--journal]` (signals_cmd.rs, se-signal, se-journal), run by an *)
(* operator at any time and twice by every `se nightly`, while `se scan`   *)
(* and the night itself store new bars and the search and the monitor move *)
(* the status of strategies.  Days are trading days; a price is abstracted *)
(* to what it decides: whether a strategy has a setup at a ticker's latest *)
(* bar, and at which later bar a barrier is touched.                       *)
(***************************************************************************)
EXTENDS Naturals, FiniteSets

CONSTANTS
  Strategies, Tickers,
  Night,       \* the process of `se nightly`
  Operators,   \* invocations of `se signals` by hand
  Journaling,  \* those of them with --journal
  Releases,    \* the provider's earnings calendar: <<ticker, day>>
  Hold,        \* max_hold_bars
  Blackout,    \* the same window in days
  NoBar,       \* no decision bar read
  MaxDay, MaxSignals

Days == 1..MaxDay
Procs == {Night} \cup Operators
Pairs == Strategies \X Tickers

ASSUME JournalAssumption ==
  /\ Night \notin Operators
  /\ Journaling \subseteq Operators
  /\ Releases \subseteq Tickers \X Nat
  /\ {Hold, Blackout, MaxDay, MaxSignals} \subseteq Nat \ {0}
  /\ NoBar \notin Pairs \X Nat

VARIABLES
  day,       \* today
  latest,    \* bars: the day of each ticker's newest stored bar, 0 if none
  setup,     \* pairs whose genome fires at that bar, in a tradeable regime,
             \* with an ATR and valid geometry
  earnings,  \* rows of the earnings table
  promoted,  \* strategies the search and the monitor have promoted
  scored,    \* strategies whose newest score clears the live floor
  signals, trades,
  step,      \* the night's step, or "off"
  to,        \* the night's last day to fetch
  fetch,     \* what its ingest has left: tickers, or calendar rows
  run,       \* run_signals of each process
  watch      \* history: what has been true since each run began

marketVars == <<day, latest, setup, earnings>>
statusVars == <<promoted, scored>>
nightVars == <<step, to, fetch>>
journalVars == <<marketVars, statusVars, signals, trades, nightVars, run, watch>>

Signal == [id : 1..MaxSignals, strategy : Strategies, ticker : Tickers,
           decision : Days, asOf : 0..MaxDay]
Trade == [signal : 1..MaxSignals, fill : Days, exit : 0..MaxDay,
          outcome : {"target", "stop", "time", "open"}]

RunState == [pc : {"idle", "load", "build", "journal"}, todo : SUBSET Pairs,
             held : (Pairs \X Days) \cup {NoBar}, out : SUBSET Signal]
WatchState == [ever : SUBSET Strategies, always : SUBSET Pairs]

Idle == [pc |-> "idle", todo |-> {}, held |-> NoBar, out |-> {}]
Unwatched == [ever |-> {}, always |-> {}]

JournalTypeOK ==
  /\ day \in Days /\ latest \in [Tickers -> 0..day]
  /\ setup \subseteq Pairs /\ earnings \subseteq Releases
  /\ promoted \subseteq Strategies /\ scored \subseteq Strategies
  /\ signals \subseteq Signal /\ trades \subseteq Trade
  /\ step \in {"off", "bars", "earnings", "signals", "journal"}
  /\ to \in 0..day /\ fetch \subseteq Tickers \cup Releases
  /\ run \in [Procs -> RunState] /\ watch \in [Procs -> WatchState]
  /\ \A p \in Procs : run[p].out \subseteq signals

JournalInit ==
  /\ day = 1 /\ latest = [t \in Tickers |-> 0] /\ setup = {} /\ earnings = {}
  /\ promoted = {} /\ scored = {} /\ signals = {} /\ trades = {}
  /\ step = "off" /\ to = 0 /\ fetch = {}
  /\ run = [p \in Procs |-> Idle] /\ watch = [p \in Procs |-> Unwatched]

-----------------------------------------------------------------------------
(* earnings_in_holding_window: a release after the decision day and inside *)
(* the holding window.                                                     *)
InBlackout(d, t, calendar) ==
  \E r \in calendar : r[1] = t /\ d < r[2] /\ r[2] <= d + Blackout

(* What every gate lets through now, whichever stored bar is decided on:   *)
(* of tickers with a stored release nothing is said.                       *)
Eligible ==
  {pair \in setup : /\ pair[1] \in promoted \cap scored
                    /\ latest[pair[2]] > 0
                    /\ \A r \in earnings : r[1] # pair[2]}

(* Running processes are watched through every change of market or status. *)
Watch ==
  watch' = [p \in Procs |->
    IF run[p].pc = "idle" THEN watch[p]
    ELSE [ever |-> watch[p].ever \cup promoted',
          always |-> watch[p].always \cap Eligible']]

-----------------------------------------------------------------------------
(* The world around: days pass, and the search and the monitor write any   *)
(* status and any newest score.                                            *)
NewDay == /\ day < MaxDay /\ day' = day + 1
          /\ UNCHANGED <<latest, setup, earnings, statusVars, signals, trades,
                         nightVars, run, watch>>

Reassess(s) ==
  /\ \/ promoted' = promoted \cup {s} \/ promoted' = promoted \ {s}
  /\ \/ scored' = scored \cup {s} \/ scored' = scored \ {s}
  /\ UNCHANGED <<marketVars, signals, trades, nightVars, run>>
  /\ Watch

(* upsert_bars for one ticker: the provider has bars up to some day, none  *)
(* newer than asked for, and may have revised the ones already stored.     *)
UpsertBars(t, upTo) ==
  /\ \E d \in latest[t]..upTo, fires \in SUBSET (Strategies \X {t}) :
       /\ latest' = [latest EXCEPT ![t] = d]
       /\ setup' = (setup \ (Strategies \X {t})) \cup fires
  /\ UNCHANGED <<day, earnings, statusVars, signals, trades, run>>
  /\ Watch

(* `se scan`.                                                              *)
Scan(t) == UpsertBars(t, day) /\ UNCHANGED nightVars

-----------------------------------------------------------------------------
(* The nightly loop: ingest, (search,) signals, journal, (monitor).        *)
BeginNight ==
  /\ step = "off" /\ step' = "bars" /\ to' = day /\ fetch' = Tickers
  /\ UNCHANGED <<marketVars, statusVars, signals, trades, run, watch>>

IngestBars(t) ==
  /\ step = "bars" /\ t \in fetch
  /\ fetch' = fetch \ {t}
  /\ UpsertBars(t, to)
  /\ UNCHANGED <<step, to>>

(* Mutant: the calendar is fetched up to yesterday.                        *)
CalendarToYesterday == {r \in Releases : r[2] < to}

(* earnings_calendar(from, to) with to = the night's own date.             *)
Calendar == {r \in Releases : r[2] <= to}

FetchCalendar ==
  /\ step = "bars" /\ fetch = {}
  /\ step' = "earnings" /\ fetch' = Calendar
  /\ UNCHANGED <<marketVars, statusVars, signals, trades, to, run, watch>>

IngestRelease(r) ==
  /\ step = "earnings" /\ r \in fetch
  /\ fetch' = fetch \ {r}
  /\ earnings' = earnings \cup {r}
  /\ UNCHANGED <<day, latest, setup, statusVars, signals, trades, step, to, run>>
  /\ Watch

EndIngest ==
  /\ step = "earnings" /\ fetch = {}
  /\ step' = "signals"
  /\ UNCHANGED <<marketVars, statusVars, signals, trades, to, fetch, run, watch>>

-----------------------------------------------------------------------------
(* run_signals.                                                            *)
Journals(p) == IF p = Night THEN step = "journal" ELSE p \in Journaling

(* The first load_promoted: nothing promoted, nothing to surface.          *)
Begin(p) ==
  /\ run[p].pc = "idle"
  /\ p = Night => step \in {"signals", "journal"}
  /\ promoted # {}
  /\ run' = [run EXCEPT ![p].pc = "load"]
  /\ watch' = [watch EXCEPT ![p] = [ever |-> promoted, always |-> Eligible]]
  /\ UNCHANGED <<marketVars, statusVars, signals, trades, nightVars>>

(* The night goes from its Signals step to its Journal step, and from that *)
(* one to its end.                                                         *)
NextStep == /\ step' = IF step = "signals" THEN "journal" ELSE "off"
            /\ to' = IF step = "signals" THEN to ELSE 0
            /\ UNCHANGED fetch

End(p) == /\ run' = [run EXCEPT ![p] = Idle]
          /\ watch' = [watch EXCEPT ![p] = Unwatched]
          /\ IF p = Night THEN NextStep ELSE UNCHANGED nightVars

BeginWithNone(p) ==
  /\ run[p].pc = "idle" /\ promoted = {}
  /\ p = Night /\ step \in {"signals", "journal"}
  /\ End(p)
  /\ UNCHANGED <<marketVars, statusVars, signals, trades>>

(* Mutant: every strategy of the table is loaded, whatever its status.     *)
LoadAnyStatus == Pairs

(* generate_signals loads the promoted strategies once for all tickers.    *)
Loaded == promoted \X Tickers

Load(p) ==
  /\ run[p].pc = "load"
  /\ run' = [run EXCEPT ![p].pc = "build", ![p].todo = Loaded]
  /\ UNCHANGED <<marketVars, statusVars, signals, trades, nightVars, watch>>

(* Mutant: a pair that is skipped ends the loop over all of them.          *)
RestAfterSkip(p, pair) == {}

(* A skip goes on with the next pair.                                      *)
Rest(p, pair) == run[p].todo \ {pair}

(* The decision bar is the latest stored one: NoBars, NotFiring,           *)
(* RegimeNotTradeable, or a decision on that bar.                          *)
Decide(p) ==
  /\ run[p].pc = "build" /\ run[p].held = NoBar
  /\ \E pair \in run[p].todo :
       IF latest[pair[2]] > 0 /\ pair \in setup
       THEN run' = [run EXCEPT ![p].held = <<pair, latest[pair[2]]>>]
       ELSE run' = [run EXCEPT ![p].todo = Rest(p, pair)]
  /\ UNCHANGED <<marketVars, statusVars, signals, trades, nightVars, watch>>

(* The rest of build_signal_for, and persist_signal under a fresh id.      *)
Screen(p) ==
  LET pair == run[p].held[1]
      d == run[p].held[2]
      sig == [id |-> Cardinality(signals) + 1, strategy |-> pair[1],
              ticker |-> pair[2], decision |-> d,
              asOf |-> IF p = Night THEN to ELSE 0]
  IN  /\ run[p].pc = "build" /\ run[p].held # NoBar
      /\ IF InBlackout(d, pair[2], earnings) \/ pair[1] \notin scored
         THEN /\ run' = [run EXCEPT ![p].held = NoBar, ![p].todo = Rest(p, pair)]
              /\ UNCHANGED signals
         ELSE /\ Cardinality(signals) < MaxSignals
              /\ signals' = signals \cup {sig}
              /\ run' = [run EXCEPT ![p].held = NoBar, ![p].out = @ \cup {sig},
                                    ![p].todo = @ \ {pair}]
      /\ UNCHANGED <<marketVars, statusVars, trades, nightVars, watch>>

Built(p) == run[p].pc = "build" /\ run[p].todo = {} /\ run[p].held = NoBar

(* Mutant: the Journal step takes up every stored signal again.            *)
ToJournalAll(p) == IF Journals(p) THEN signals ELSE {}

(* Only what this very run surfaced is journaled.                          *)
ToJournal(p) == IF Journals(p) THEN run[p].out ELSE {}

BeginJournal(p) ==
  /\ Built(p) /\ Journals(p)
  /\ run' = [run EXCEPT ![p].pc = "journal", ![p].out = ToJournal(p)]
  /\ UNCHANGED <<marketVars, statusVars, signals, trades, nightVars, watch>>

(* Mutant: the fill is the newest bar, not the one after the decision.     *)
FillAtLatest(sig) == latest[sig.ticker]

(* Entry at the open of the bar after the decision bar.                    *)
Fill(sig) == sig.decision + 1

(* Mutant: the time barrier is not clamped to the bars there are.          *)
TimeBarrierUnclamped(sig) == Fill(sig) + Hold

(* label_one's last_idx: max_hold bars after the fill, or the last bar.    *)
TimeBarrier(sig) ==
  IF Fill(sig) + Hold <= latest[sig.ticker] THEN Fill(sig) + Hold
  ELSE latest[sig.ticker]

(* label_one from the fill bar: the first touch after it and up to the     *)
(* time barrier, or the close at that barrier, be it the fill bar itself;  *)
(* without a usable ATR at the fill bar the trade is stored unresolved.    *)
Resolutions(sig) ==
  LET fill == Fill(sig)
      last == TimeBarrier(sig)
  IN  {[signal |-> sig.id, fill |-> fill, exit |-> d, outcome |-> o] :
         d \in (fill + 1)..last, o \in {"target", "stop"}}
      \cup {[signal |-> sig.id, fill |-> fill, exit |-> last, outcome |-> "time"],
            [signal |-> sig.id, fill |-> fill, exit |-> 0, outcome |-> "open"]}

(* journal_signal: no bar after the decision bar, no trade.                *)
Journal(p) ==
  /\ run[p].pc = "journal"
  /\ \E sig \in run[p].out :
       /\ IF sig.decision < latest[sig.ticker]
          THEN \E tr \in Resolutions(sig) : trades' = trades \cup {tr}
          ELSE UNCHANGED trades
       /\ run' = [run EXCEPT ![p].out = @ \ {sig}]
  /\ UNCHANGED <<marketVars, statusVars, signals, nightVars, watch>>

EndRun(p) ==
  /\ \/ Built(p) /\ ~Journals(p)
     \/ run[p].pc = "journal" /\ run[p].out = {}
  /\ End(p)
  /\ UNCHANGED <<marketVars, statusVars, signals, trades>>

(* A `?` or a kill, before any statement.                                  *)
Stop(p) ==
  /\ IF p = Night
     THEN step # "off" /\ step' = "off" /\ to' = 0 /\ fetch' = {}
     ELSE run[p].pc # "idle" /\ UNCHANGED nightVars
  /\ run' = [run EXCEPT ![p] = Idle]
  /\ watch' = [watch EXCEPT ![p] = Unwatched]
  /\ UNCHANGED <<marketVars, statusVars, signals, trades>>

RunSignals(p) ==
  \/ Begin(p) \/ BeginWithNone(p) \/ Load(p) \/ Decide(p) \/ Screen(p)
  \/ BeginJournal(p) \/ Journal(p) \/ EndRun(p) \/ Stop(p)

NightlyIngest ==
  \/ BeginNight \/ FetchCalendar \/ EndIngest
  \/ \E t \in Tickers : IngestBars(t)
  \/ \E r \in Releases : IngestRelease(r)

JournalNext ==
  \/ NewDay \/ NightlyIngest
  \/ \E t \in Tickers : Scan(t)
  \/ \E s \in Strategies : Reassess(s)
  \/ \E p \in Procs : RunSignals(p)

JournalSpec == JournalInit /\ [][JournalNext]_journalVars

(* The nightly loop alone: bars arrive only in its Ingest step.            *)
LoopNext ==
  \/ NewDay \/ NightlyIngest
  \/ \E s \in Strategies : Reassess(s)
  \/ RunSignals(Night)

LoopSpec == JournalInit /\ [][LoopNext]_journalVars

-----------------------------------------------------------------------------
PairsOf(sigs) == {<<sig.strategy, sig.ticker>> : sig \in sigs}

(* A strategy that stays promoted and scored, with a setup that lasts, is  *)
(* surfaced by every run that builds all its signals, whatever is stored,  *)
(* promoted or demoted meanwhile, and whatever else the run skips.          *)
StableSetupsSurface ==
  \A p \in Procs : Built(p) =>
    watch[p].always \subseteq PairsOf(run[p].out)

(* Once demoted, silent: a run surfaces no strategy that was not promoted  *)
(* at some moment since the run began.                                     *)
PulledStrategyIsSilent ==
  \A p \in Procs : run[p].pc = "build" =>
    \A sig \in run[p].out : sig.strategy \in watch[p].ever

(* The night fetches the calendar before it decides: none of its signals   *)
(* holds through a release dated up to the night, even where the ticker's  *)
(* bars lag behind that release.                                           *)
KnownReleasesAreAvoided ==
  \A sig \in signals :
    ~InBlackout(sig.decision, sig.ticker, {r \in Releases : r[2] <= sig.asOf})

(* However runs overlap or die, a signal is traded on paper at most once,  *)
(* and only a stored signal is.                                            *)
OneTradePerSignal ==
  /\ \A tr \in trades : \E sig \in signals : sig.id = tr.signal
  /\ \A t1, t2 \in trades : t1.signal = t2.signal => t1 = t2

(* No look-ahead and no late entry: bars of several days may arrive at     *)
(* once between decision and journal, and the fill is still the bar after  *)
(* the decision bar, the exit within the holding period.                   *)
TradesLookForward ==
  \A tr \in trades, sig \in signals : sig.id = tr.signal =>
    /\ tr.fill = sig.decision + 1
    /\ tr.outcome # "open" => tr.exit \in tr.fill..(tr.fill + Hold)

(* What these rest on, one named part per fact.  Signals are numbered as   *)
(* they are stored, no two alike.                                          *)
SignalsAreNumbered ==
  /\ IsFiniteSet(signals)
  /\ \A sig \in signals : sig.id <= Cardinality(signals)
  /\ \A s1, s2 \in signals : s1.id = s2.id => s1 = s2

(* What a run has surfaced is its own and has no trade yet.                *)
OutIsUntraded ==
  \A p \in Procs : \A sig \in run[p].out :
    /\ \A tr \in trades : tr.signal # sig.id
    /\ \A q \in Procs \ {p} : sig \notin run[q].out

(* The night decides only once the calendar it fetched is stored.          *)
CalendarIsStored ==
  /\ run[Night].pc # "idle" => step \in {"signals", "journal"}
  /\ step = "earnings" => Calendar \subseteq earnings \cup fetch
  /\ step \in {"signals", "journal"} => Calendar \subseteq earnings

(* While a run is under way, what it holds was promoted since it began,    *)
(* and what has been eligible throughout is eligible now, still to be      *)
(* built or already out; before it has loaded, nothing is.                 *)
RunIsWatched(p) ==
  /\ run[p].pc \in {"idle", "load"} => run[p].held = NoBar /\ run[p].out = {}
  /\ run[p].pc \in {"load", "build"} =>
       promoted \subseteq watch[p].ever /\ watch[p].always \subseteq Eligible
  /\ run[p].pc = "build" =>
       /\ \A pair \in run[p].todo : pair[1] \in watch[p].ever
       /\ \A sig \in run[p].out : sig.strategy \in watch[p].ever
       /\ run[p].held # NoBar => run[p].held[1] \in run[p].todo
       /\ watch[p].always \subseteq run[p].todo \cup PairsOf(run[p].out)

(* The journal as a whole: typed, no signal into a release that is known,  *)
(* no trade that looks back or outlasts its holding period, and the state  *)
(* of the runs and of the night that keeps it so.                          *)
JournalInvariant ==
  /\ JournalTypeOK
  /\ KnownReleasesAreAvoided
  /\ TradesLookForward
  /\ OneTradePerSignal
  /\ SignalsAreNumbered
  /\ OutIsUntraded
  /\ CalendarIsStored
  /\ \A p \in Procs : RunIsWatched(p)

(* se-signal/lib.rs:219, "never open a new position into a release inside  *)
(* the holding window".  Refuted: the guard only sees the earnings table,  *)
(* and the only ingest asks the provider for releases up to today.         *)
NoEntryIntoRelease ==
  \A sig \in signals : ~InBlackout(sig.decision, sig.ticker, Releases)

(* nightly.rs:146, "in the nightly loop we resolve open paper trades       *)
(* against the freshly-ingested bars".  Refuted by the loop alone: the     *)
(* Journal step journals the signals it has just surfaced at the latest    *)
(* bar, and no earlier one, so none of them ever has a bar to fill it at.  *)
NightJournalsOpenSignals ==
  [][step = "journal" /\ EndRun(Night) =>
       \A sig \in signals : sig.decision < latest[sig.ticker] =>
         \E tr \in trades : tr.signal = sig.id]_journalVars
=============================================================================
