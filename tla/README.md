# Verification of the SwingEdge engine

TLA+ models of this repository, of two kinds. State machines for the parts whose
correctness depends on the order of steps: which strategy may surface signals,
what the nightly monitor does about one that decays, what the operator's live
stream shows, and what the commands leave in their tables when they overlap or
die. Operators for the pure algorithms a verdict rests on: labels, folds, gates,
detectors, breeding, regimes and features.

The engine is a set of processes around one PostgreSQL database. `se search`
breeds trading strategies and scores them out of sample through a Python worker;
`se nightly` runs ingest, search, signals, journal, monitor and changelog in
this order; `se-api` serves a dashboard and streams new rows to it. No process
takes a lock and no two statements share a transaction (sqlx on the pool), so
the database tables are shared variables and every statement is one atomic step.

## 1. Inventory

| component (source) | state | operations | what is hard | what makes it correct |
|---|---|---|---|---|
| Strategy table (`se-search/persist.rs`) | `strategies`, `oos_scores` | upsert_strategy, update_status, insert_oos_score, load_promoted | unconditional writes by key from several processes | a promoted row has a passing newest score |
| Population search (`se-search/population.rs`, `score.rs`) | per run: survivors, seen signatures, signature-to-id map, evaluations | evolve, next_generation, evaluate_genome, persist, select_survivors | crash between any two statements, elites re-scored every generation, worker failures | the last verdict wins, one id per signature, retirement is final, trials counted once |
| Monitor and changelog (`se-monitor/lib.rs`) | `monitor_events`, `strategies.status`, `changelog` | run_daily, apply_strategy_decision, weekly_changelog | event and status are two statements; several detectors judge one strategy; nights that die | no condemned strategy stays live, every verdict has its reason, removals are reported |
| Detectors (`se-monitor/detectors.rs`) | none | drawdown, decay, divergence, calibration | order of trades, alignment of pairs | independent of the loading order; more evidence never softens a verdict |
| Stream (`se-api/stream.rs`) | high-water marks, broadcast ring, socket cursors | poll_loop, publish, subscribe, serve_socket | timestamp ties, LIMIT, lag, restart | each row at most once, in order, no signal skipped |
| Signals (`se-signal`, `signals_cmd.rs`) | `signals` | run_signals, build_signal_for, persist_signal | statuses, bars and calendar move during a run; emitted twice a night | standing setups surface, pulled strategies do not |
| Journal (`se-journal`) | `trades_journal` (paper) | journal_signal, open_and_resolve | needs a bar after the decision bar; overlapping and killed runs | one trade per signal, filled at the next bar |
| Trades (`se-cli/trades.rs`) | `trades_journal` (backtest) | delete, re-insert, tally | no transaction | a complete replacement, no other row touched |
| Test era (`se-cli/test_era.rs`) | `test_era_scores` | check, evaluate for minutes, insert, report | check-then-insert | once per strategy and era, never replaced |
| PIT store (`se-store`), `se scan` | `bars`, `macro_series_pit`, `features_pit` | three upserts, six reads at a cutoff | two providers, revisions in place, scans that overlap or die | what a past decision saw moves forward only; reads agree |
| Labeler, backtest, firewall (`se-labeler`, `se-search`) | none | triple barrier, cooldown, era overlap, window assembly | inclusive bounds, first touch, spans | no look-ahead, pessimistic, no reserved day |
| Gate, harness, ranking (`se-validation`, `se-search/score.rs`) | none | folds, hard gate, Wilson floor, leaderboard, signature | absent results, duplicates, boundaries | fail closed, monotone, the best is first |
| Breeding (`seed.rs`, `genome_ops.rs`, `risk_search.rs`) | none | seeds, mutation, crossover, risk draws, filling a generation | degenerate catalogs, truncation | observed features only, tradeable geometry, elite kept |
| Features (`se-features`) | none | layers 0 to 3 and the event overlay | short histories, missing inputs, calendars | no repainting, mirrored, nothing filled in |
| Regime (`se-regime`) | none | evidence, softmax, two ways out | ties between opposites | no label over its opposite on a tie |
| Ingest, providers | rows of the stores | fetch, upsert | what is asked for, and as of when | in SignalJournal and PitStore; HTTP and parsing are out |
| ML worker | none | fit, out-of-sample statistics | failures | any answer or a failure; the numerics are out |
| REST API, web | none | SELECTs, views | none in the ordering of steps | out of scope |

Interactions: the search, the monitor and the signal generator communicate only
through `strategies`, `oos_scores` and `trades_journal`. The monitor and the
signal generator reach the stream only through `monitor_events` and `signals`.
`se test-era-score`, `se trades` and `se scan` read the promoted strategies or
nothing at all, and each alone writes its table (backtest rows, in the journal).
`PROJECT.json` lists the hazards, each at its line, with the properties that
would catch it, or the reason none does.

## 2. Modules

```
StrategyTable          the two tables and the statements that write them
  Search               se-search: any number of overlapping runs
    Search_proofs      two inductive invariants, and what follows
    MCSearch           score spaces for TLC
  Monitor              se-monitor: nights and changelogs
    Monitor_proofs     the inductive invariant of a night, and what follows
    MCMonitor          casts for TLC
  Lifecycle            Search and Monitor over one table
    Lifecycle_proofs   on top of both
    MCLifecycle
LiveFeed               abstract: what a connection promises
  EventStream          writers, poller, ring, sockets; implements LiveFeed
    EventStream_proofs inductive invariant, refinement, what is never lost
    MCEventStream
SignalJournal          promoted strategy to signal to paper trade; the night's ingest
  SignalJournal_proofs inductive invariant, and what follows
  MCSignalJournal
OnceOnly               abstract: the promise of the reserved era
  TestEra              se test-era-score; implements OnceOnly
TradeReplay            se trades: delete and re-insert
PitStore               se scan and the point-in-time reads
  Commands             TestEra, TradeReplay and PitStore, one per behaviour
    Commands_proofs    invariants of each, the refinement of OnceOnly, the three together
    MCCommands         the three and a search, one per behaviour (with MCSearch)
Backtest               risk geometry, labels, the walk, the firewall, tallies
  Backtest_proofs      labels, geometry, the walk, tallies and the firewall, for
                       series of every length
  Scoring              folds, gate, ranking, Wilson floor, signature
Breeding, Detectors, Regime, Features
                       the other pure algorithms
MCAlgorithms           bounded inputs for all of them, one `case` per behaviour
  Selection_proofs     with Backtest_proofs: gate, floor, conviction, folds, signature, risk,
                       seeds, offspring, generations, tradeability, levels, volatility rank,
                       missing series, detectors, and the properties of the run
MCEngine               nights of the monitor or one case (MCMonitor, MCAlgorithms)
```

### StrategyTable
`strategies` maps every id to a row or to NoRow, `oosLatest` to the newest
`oos_scores` row (the only one any query reads), `touched` holds the rows whose
`updated_at` lies in the current week (the only use of that column). A score is
reduced to the facts a decision is taken on: `gate`, `edge` (expectancy and DSR
positive, PBO below one half) and `track` (enough acted trades and the Wilson
bound). The gate implies the edge because its four conditions include those
three. A genome stands for its canonical signature.

### Search
One run is one call of `evolve`. `EvaluateAndUpsert` is `evaluate_genome` plus
the first statement of `persist`, `InsertScore` the second, `Select` one
iteration of `select_survivors`, `FinishGeneration` the end of the loop body.
`Abort` ends a run before any statement (a `?`, a kill). The worker fails or
answers with any score. What breeding makes is any repetition-free sequence of
genomes that `admit_unique` lets through, a superset of what the mutation
operators produce. A fresh UUID is any id nobody has minted.

### Monitor
A night is `BeginNight` (run_daily: `now`, load_strategies), one `JudgeStrategy`
per row, then the re-gate, the sources, the OOD count and the changelog.
A decision is not applied at once: it becomes the list `todo` of statements, and
`WriteEvent` and `SetStatus` execute them one at a time, so `EndEarly` can fall
between an event and its status flip. `breach[id]` is what the trades of a
strategy amount to at the moment they are read; `TradesMove` changes it at any
time. `MonitorTableInit` admits rows written by older builds, whose promoted
rows today's gate may refuse: the re-gate exists for them. `nightLog` and
`removed` are history variables, read by properties only.

### Lifecycle
The two next-state relations interleaved, from an empty table. The breaches are
unconstrained, hence stricter than reality (a strategy needs closed trades
before a detector can fire). The searches' status invariants do not carry over,
since the monitor moves statuses too; what it leaves alone is `SearchInvariant`.

### EventStream and LiveFeed
A row is a feed, a timestamp and an identity. `EmitSignal` stamps the row with
the time of its own INSERT; `EmitEvent` stamps it with the `now` of its night.
`Poll` is one query of the poller: it may return any `ORDER BY ts LIMIT n`
answer and moves the mark before the rows are published, then `Publish` sends
the frames one by one with sockets running in between. The tokio broadcast ring
is external: a receiver more than `Cap` frames behind is told so and continues
with the oldest frame kept. One process writes signals (section 5, item 2).
`LiveFeed` forgets the poller, the marks, the ring and the limits: rows are
stored, a connection shows a stored row it has not shown, not older than the
last of its feed, or starts over. It does not promise that every row is shown.

### SignalJournal
A process is one `run_signals`: `Begin` (the first load), `Load` (the list it
works through), per strategy and ticker `Decide` (latest bar, firing, regime)
and `Screen` (blackout, score, `Signal::new`, INSERT), then with `--journal` one
`Journal` per signal of this run, and `EndRun`. `Stop` kills it before any
statement. The process `Night` adds the Ingest step (`IngestBars` per ticker,
then `IngestRelease` per calendar row up to the night's date) and runs the whole
of `run_signals` twice, as Signals and as Journal. `Scan` is `se scan`;
`Reassess` stands for the search and the monitor, which are modelled in full
elsewhere and here may write any status and any score at any time. Prices are
reduced to `setup` (which pairs fire and are tradeable at the latest bar, chosen
anew whenever bars are stored) and to the bar at which a barrier is touched. The
loops visit their elements in any order. `asOf` of a signal and `watch` are
history variables.

### TestEra and OnceOnly
A scorer is one `se test-era-score`: `BeginScoring` (load_promoted),
per strategy `CheckRow` (the SELECT, or a skip), `EvaluateEra` (the worker, which
may fail), `InsertEra` (ON CONFLICT DO NOTHING) and `ReportGap` (the newest score
it prints the gap to), then `EndScoring`. `StopScoring` is an error or a kill at
any of them. A result is named by the command that measured it. `readings` and
`disturbed` are history. `OnceOnly` forgets commands and gaps: readers open the
era for a strategy without a result and close it, recording a result or none.
The refinement maps `CheckRow` to `Open`, a failing evaluation, an insert and a
stop to `Close`, and the rest to stuttering.

### TradeReplay
A replayer is one `se trades` for a scanner and a horizon: `BeginReplay` (the
early return with nothing promoted is its guard), `ClearTrades` (the DELETE, which names the
scanner and no horizon), one `InsertTrade` per entry, `EndReplay`, `StopReplay`.
A row remembers its command; what a replay computes is how many entries each
strategy fires. Paper trades are written to the same table meanwhile.

### PitStore
A scan is one `se scan` (a nightly ingest is one that ends early): `FetchBars`
and `WriteBars`, `ScanProfile`, `FetchMacro` and `WriteMacro`, `ReadStore` and
`WriteDerived`, in the order of `main.rs`. A fetch and the upsert of what it
brought are two steps, as are the reads of the feature modules and the upsert of
the features, and another scan may do anything in between. `StopScan` is an
error or a kill at any of them. A store may be scanned with the live providers, which
revise what they have published (`Revise`), and with the mock, which does not: an
`Answer` is a provider and how often it had been revised, and is what a row holds
(`value`). A bar is stored as of its own close, a macro value as of its date plus
the lag its provider assumes (`LagOf`), so that a date scanned with both
providers has two vintages, and a revision lands under the key of the value
it replaces. The reads (`BarsAt`, `MacroHistory`, `MacroValueAsOf`,
`FeaturesAt`, `FeatureAt`) are operators with the ORDER BY, DISTINCT ON and LIMIT
of their queries. `overlapped` is history: whether a scan was ever begun while
another was on.

### Backtest, Scoring, Breeding, Detectors, Regime, Features
Operators, no state. Prices, R-multiples and thresholds are integers in a small
unit, and a quotient is a fraction `<<n, d>>` compared by cross-multiplication,
so nothing is rounded that the code does not round. What integers cannot carry
is compared by what it is monotone in: a z score and a volatility by their
squares, the Wilson bound by squaring both sides, a log return by taking
logarithms as the given values. The regime's softmax is a table of the
exponential at the multiples of 1/12 the evidence can differ by; its signals are
the intervals the thresholds of the configuration cut their range into. The look-backs of the
features are a parameter (`LookBacks` in MCAlgorithms), shrunk so that short
charts fill them; that of the location module, within which a swing is looked for
(`LocationBars`), is one of them, and the charts outgrow it. A draw of the random
generator is any member of the set it is drawn from. `None` is a model value (NoFeature, NoResult, Unlabelable).

## 3. What the runs check

A checked property may be a conjunction of named parts, one per claim
(`MonitorInvariant`, `LabelsAreHonest`, ...); the parts carry their own comments
in the modules, and the mutants of a conjunction break different parts of it.

Passing runs:

| run | bounds | question and answer |
|---|---|---|
| MCCommands_run | a search: 3 genomes (1 not actionable), 2 generations of 2, all 6 scores; or 2 scorers, 2 strategies, 2 commands; or 2 replayers, 3 strategies of 2 scanners and horizons, 2 entries, 2 replays; or 2 scans over 3 days, lag 1, 1 revision | Search: scoreboard durable under crashes, a finished run leaves each strategy with its last verdict, trials counted once, retirement final, and the inductive invariant of the proofs. The test era implements OnceOnly, and undisturbed commands read it once and print the recorded gap. A replay nobody overlapped is exact, and no replay touches a paper trade or the other scanner. Overlapping scans never take a date from a past view or put an earlier vintage into it, the reads of the store agree, and a feature is shown with its bar |
| MCEngine_run | monitor: 1 strategy, 3 sets of conditions; 2 weeks with an early end and fresh sources, or 1 week with a stale source; fair nights. Algorithms: about 90 000 inputs: price paths of 4 bars, walks of 5 points, tallies of 3 and detector histories of 4 trades, cohorts over 2 tickers, every regime level, charts of 6 bars, the days of 2020, ... | Monitor: a verdict has its event, no strategy condemned in the pass is promoted after it, only the night that disabled a strategy can take it out of retired, removals are in that week's changelog, a strategy that keeps decaying is pulled. Algorithms: ten properties: labels, cohorts, detectors, verdicts, signatures, breeding, levels, missing inputs, neither side favoured (stress or calm, rising or falling), what must be kept in order |
| MCLifecycle_two | 2 searches over the same genome, 1 generation, the monitor | after its run ended, nothing lifts the monitor's verdict on a strategy; promoted implies a passing score across processes; the inductive invariant of the proofs, whose parts about ids say that none is shared or split |
| MCSignalJournal_runs | 2 signals, 1 ticker, 1 release; 1 strategy, the night and 1 journaling operator over 3 days, or 2 strategies in nights alone over 2 | releases known to the night are avoided, a signal is traded at most once, at the bar after its decision; a standing setup is surfaced by every completed run, a strategy pulled before the run is not |
| MCEventStream_run | LIMIT 2, ring 2, 4 rows, 1 restart; 1 socket, or no socket and 1 failed poll over a longer time; fair poller | the stream implements LiveFeed; no signal falls behind the mark unread; only a timestamp tie loses a row; a signal emitted while the API runs is published; the inductive invariant of the proofs |

MCCommands and MCEngine put several questions into one run. The commands of
MCCommands share no table, so a behaviour follows one of them (`focus`) and nothing
is lost by not interleaving them. An algorithm has no state, so a behaviour of
MCEngine is the nights of a monitor or one input (`case`). The casts of MCMonitor, MCSignalJournal
and MCEventStream do the same with bounds: each is a set of limits on the one
next-state relation, chosen in the initial state.

Runs that refute what a comment says (each is a finding in `PROJECT.json`):

| run | the comment | what happens |
|---|---|---|
| MCSearch_skip | `population.rs:286`, log and skip the genome | the upsert resets a promoted elite to candidate |
| MCSearch_board | `population.rs:405`, de-dup by strategy id | an elite stands on the leaderboard once for every generation that scored it |
| PitStore_vintages | `store.rs:142`, preserves every vintage | the date of a vintage is the reference date plus a fixed lag, so a revision overwrites it |
| MCSignalJournal_release | `se-signal/lib.rs:219`, never open a position into a release | the calendar is only fetched up to today, so the guard never sees a release ahead |
| MCSignalJournal_trades | `nightly.rs:146`, the nightly loop resolves open paper trades | the Journal step journals the signals it has just surfaced at the latest bar; earlier ones never get a trade |
| EventStream_events | `stream.rs:86`, rows that appear after startup | a poll in mid-night hides the rest of the night's events |
| MCAlgorithms_fresh | `population.rs:515`, mutations and fresh seeds both stay represented | the extra mutations fill a generation before the fresh seeds are appended, and truncating it drops every one of them |

Every property of a passing run has mutants of the code, defined in the module
next to the definition they replace, under which TLC finds it violated.

### Why the bounds are enough
Two generations are the fewest in which an elite is re-scored and a retired
genome could be bred again; two genomes per generation are the fewest in which
a run stops between two evaluations of one generation. MCLifecycle_two exercises
every pairwise interleaving of two searches, which interact only through ids,
and of a search and a night. One generation is enough there: two searches of one
genome and a night are the fewest processes that could undo each other, and
re-scoring within a run is the subject of the search of MCCommands. Longer overlapping runs
are covered by the proofs of section 4, which hold for any number of them. One strategy shows every effect of several detectors on
one row, two show a night that stops between strategies. A ring and a LIMIT
smaller than the number of rows make truncation and lag happen; one failed poll
and a restart cover a mark that must stand still and one that starts anew. Three
days let several days' bars arrive between a decision and its journaling and
hold a decision, a fill and an exit; two processes overlap at every statement,
and two strategies let one be skipped or pulled while the other is surfaced.
Stale sources write events and touch no strategy, so the cast that has them
need not have early ends as well. Two scorers or replayers are the fewest that
overlap, and the second of two commands is the first that finds the rows of one
that died; three strategies give a replay a neighbour of its scanner and one of
the other. Two scans and one revision are the fewest in which an answer is
fetched, revised, fetched again and written in the other order, or written half
and completed by the next command. Three days and a lag of one let a date have
two vintages, one from each provider, with decisions before, between and after
them. The look-back of four bars is the fewest that holds a pivot and both its
neighbours and lets it leave on a chart of six. The inputs of
MCAlgorithms contain every order of touching two barriers within the holding
period and at the end of the data, each boundary of a threshold from both sides,
empty and one-element inputs, and one missing value at a time and all together.
The calendar, the clock and the numbers of rows, signals, failures and stops are
the only unbounded counters (MaxWeek, MaxDay, MaxClock, MaxRows, MaxSignals,
MaxFail, MaxStop, MaxCrash, MaxCommands, MaxReplays, MaxEntries, MaxScans,
LastDay, MaxRevision). `CHECK_DEADLOCK FALSE` is given where the system
may stop: a search that has ended, a stream or a journal whose bounds are used
up.

### Fairness
- `FairMonitorSpec` (in MCEngine as a conjunct of `EngineSpec`, whose casts never
  disable a step of the night): weak fairness of the night's own steps, including the
  start of the next night, which a scheduler outside the program provides
  (`se-orchestrator/lib.rs` names cron). Early ends, trades and the calendar
  are not fair, so a night need not fail or succeed at any particular time.
- `FairStreamSpec` (in MCEventStream as `CastSpec`): weak fairness of poll and
  publish. The ticker fires for
  ever and `publish` never blocks. A failed poll is bounded, not fair.

## 4. What is proved

All theorems hold for every value of the constants under the assumptions named
in the modules (`TableAssumption`, `RowAssumption`, `SearchAssumption`,
`MonitorAssumption`, `JournalAssumption`, `StreamAssumption`,
`TestEraAssumption`, `TradeReplayAssumption`, `PitAssumption`,
`FeatureAssumption`); TLC evaluates
these on the runs of the modules. Every safety invariant and action property of
the state machines that a run checks is also a theorem, and eight of the ten
properties of the algorithms are theorems for inputs of every size. The inductive invariants
`StatusInvariant`, `MonitorInvariant`, `LifecycleInvariant`, `JournalInvariant`
and `StreamInvariant` are themselves checked by the runs; those of
`Commands_proofs` are stated there.

### Search_proofs
There are two inductive invariants. `SearchInvariant` is what other writers of
statuses leave alone, `StatusInvariant` is it together with what holds as long
as the searches have the table to themselves.

`PromotedHasPassingScore` (`PromotionIsEarned`) is not inductive: `Select`
promotes on the score in memory, so the invariant must say that the table holds
exactly that score (`Persisted`), which must survive other runs writing to the
table; hence `IdsDisjoint` and `OwnIds` (an id belongs to one signature of one
run), hence repetition-free cohorts (`EvaluatedIsPrefix`), hence repetition-free
survivors (`KeptAreSelected`), and the position of the indices at each program
point (`Progress`). While a score is owed the row is candidate, which is the
crash safety of re-persisting an elite.

`StatusInvariant` adds, per run, that the signatures with an id are those
evaluated so far (`SignaturesEvaluated`), that a row carries the verdict on the
last evaluation of its strategy as soon as the selection has passed it and is a
candidate before (`VerdictStands`), and that a retired signature is seen and
neither a survivor nor in the cohort (`RetiredAreGone`). From these:
- `FinishedRunsCarryTheirVerdicts`: `[]FinishedRunMatchesVerdict`;
- `TrialsAreDistinctGenomes`: each `n_search_trials` is the cardinality of the
  genomes evaluated up to it. The count of the code is that of the ids in the map,
  so a step has to show that the two sets are the same when an elite comes back
  and differ by one element otherwise;
- `RetiredIsFinal`: `RetiredStaysRetired`. A row can only leave retired by an
  upsert of its own run, and that run has no such signature in its cohort.

`ScoreboardSurvivesACrash` (`[]ScoreboardDurable`) needs `SearchInvariant` alone:
what replaces the newest score of a strategy is the score of a later evaluation
of the same run.

### Monitor_proofs
`MonitorIsInvariant`: `MonitorSpec => []MonitorInvariant`. That an effect has its
event on record and a condemned strategy is out of the live set are claims about
the moments between two statements, so the invariant is about the writes still
owed, `todo`: a flip has its reason before it, on record or in the list
(`ReasonsComeFirst`), a condemnation has its flip after it
(`CondemnationsTakeEffect`), and the flips come in the order quarantined,
retired, demoted (`FlipsAreOrdered`). What is queued is as it was loaded and not
in hand (`QueueIsUntouched`), so no two entries write one row; whoever is
condemned tonight is not promoted or has a flip coming
(`CondemnedTonightIsDue`). The list is a
concatenation of what each detector decides (`StrategyWrites`); lemmas say what
concatenation and taking the head do to the three predicates. An end of the night
drops the list, which leaves only what is on record.
- `OnlyTonightsDisableIsEverUndone` from `RetiredInHandIsTonights`: a flip owed
  for a retired row is a demotion, and tonight's log holds the disable.
- `RemovalsAreAllReported` from `RemovedAreCondemned`: what lost its promotion
  this week was touched this week and is quarantined, demoted or retired, hence
  in one of the lists the changelog collects.

### Lifecycle_proofs
`LifecycleIsInvariant`: a step of the monitor keeps `SearchInvariant`, because
all a flip does to it is to take a row out of promoted (`OwedFlipsCondemn`); a
step of a search keeps the monitor's types. A conjunct of it, `RegateQueueIsEmpty`,
says that the re-gate, which loads rows that are promoted with a failing newest
score, finds none, since `PromotedHasPassingScore` says there are none. The
comment on the re-gate (`se-monitor/lib.rs:136`) says that the latest score of a promoted
strategy "can ... drift below the hard gate". Every writer of a score first takes the row out of
promoted, so on a table this build filled alone that does not occur, and the
re-gate serves rows that another build or another gate has promoted, which is
how Monitor has it (`MonitorTableInit`). What the monitor knows of the
rows it has loaded (`QueueIsUntouched`) does not survive the searches, but that
whatever it owes has its reason ahead of it (`OwedFlipsHaveReasons`) does, since
it is about the list alone.
- `CondemnationsAreOnRecord`: a search writes neither quarantined nor demoted, so
  the record stays complete beside it.
- `PromotionIsEarnedBesideTheMonitor`, `ScoreboardSurvivesTheMonitor`.
- `VerdictsOutliveTheirRuns`: the only statements that write another status than
  a condemning one are those of the run that minted the id (`IdsDisjoint`,
  `OwnIds`), and it has ended.

### SignalJournal_proofs
`JournalIsInvariant`. Signals are numbered, and by no number twice
(`SignalsAreNumbered`); what a run has surfaced and not journaled has no trade
and belongs to no other run (`OutIsUntraded`), which makes a second trade of a
signal impossible (`EverySignalTradesOnce`); the calendar is in the table
before the night decides (`CalendarIsStored`), which makes a known release
avoided; and what has been promoted or eligible since a run began is as the
history variable `watch` says (`RunIsWatched`), of which
`PulledStrategiesAreSilent` and `StableSetupsDoSurface` are instances.

### EventStream_proofs
`StreamIsInvariant`, `StreamTypeCorrect`. Frames leave in an order in which a
later one is another row and not older in its feed (`FramesAreOrdered`);
whatever was taken lies behind the mark, so no poll returns it again
(`FramesAreBehindMark`); a socket has shown only frames before its cursor
(`ShownIsBeforeCursor`).
- `StreamImplementsLiveFeed`: `StreamSpec => ImplementsLiveFeed`. `Receive` is
  `Show`, the writers are `Store`, `Connect` and `StopApi` are `Restart`, the rest
  stutters.
- `OnlyTiesAreLost`: a row is skipped only where a mark stands or passes. A poll
  that passes it has returned the row at the new mark, and a row at or before it
  that was not returned is at that timestamp; a row stored later is stamped no
  earlier than the mark of its feed (`StampsAreCurrent`), which is the stamp of a
  row taken (`MarkIsTaken`).
- `NoSignalIsSkipped`: no two signals bear one stamp, so no signal is lost to a
  tie.

### Commands_proofs
- `EraIsInvariant`: types, and that whoever is past the check has a strategy and
  a number. `TestEraImplementsOnceOnly`: `EraSpec => EraIsOnceOnly`, without any
  condition on overlaps; the lemmas `OpeningIsOpen` and `ClosingIsClose` are its
  steps.
- `QuietReadingIsSingle`: as long as nothing is disturbed, at most one command is
  on (`OneCommandAtATime`), the strategy a scorer evaluates or inserts has no row
  (`HoldersKnow`), a reading is on record or about to be (`ReadIsKept`), every
  printed gap is a recorded one (`GapsAreOnRecord`).
- `ReplayIsExact`: of a command nobody has overlapped, no other of its scanner is
  on (`AloneIsAlone`), nothing of its replay is in the table before it clears
  (`ClearFirst`), and after it the scanner's backtest rows are the entries
  inserted so far (`InsertedSoFar`). `OnlyItsScannerIsTouched` is its companion.
- `ViewsMoveForward` and `StoreIsAlwaysConsistent` rest on one invariant of the
  store, `ConsistentStore`, which overlapping scans keep. There is one row per key, at a date no
  later than today, and a macro row of one of the two lags (`RowsAreKeyed`);
  a derived feature is dated by a stored bar (`DerivedHasItsBar`); what a scan
  holds is an answer given so far, and once it has written its bars its last
  one is stored (`ScansAreSound`). A row never goes away, since an upsert only
  replaces a row by one of the same key, whoever writes when. As
  long as no two scans have overlapped (`WhileAlone`), what the one scan holds is
  besides no older than anything stored (`HeldIsInOrder`), so that values move forward too.
  The ORDER BY of the reads is a CHOOSE of a sorted listing; `ListingExists` shows
  by minimal counterexample that every finite table with distinct dates has one,
  `NewestVintageExists` that DISTINCT ON leaves a row for every date, and
  `NewestIsTheLastScanned` that the row `macro_value_as_of` picks is the last of
  every history.
- `CommandsTypeCorrect`, and the lemma that carries all of these to the run's
  specification: `CommandsSpec` implies each of the three.

### Backtest_proofs
For bars, entries, risk models, holding times, walks and cohorts of every size.
A search is reasoned about through the least index with a property, which
exists in the naturals (`SmallestExists`). A fold is reasoned about through the
set of lengths up to which a fact about it holds: if 0 is in it, and with each
length the next one, it contains them all (`InductionUpTo`). A fold over a
sequence has a solution (`RecursionHasSolution`) and takes the elements in order
(`SolutionRunsInOrder`), which gives every loop of the code an invariant to be
proved step by step.
- `NoLabelLooksAhead` (`LabelNeedsNoLaterBar`, the part `LabelsLookNoFurther` of
  `LabelsAreHonest`), `EveryLabelIsPessimistic` (`LabelsArePessimistic`),
  `ExitPricesAreTheLabels` (`ExitPrices`), `EveryGeometryPointsTheRightWay` (of
  `Geometry`).
- `EveryWalkIsGreedy` (`WalkIsGreedy`): the invariant of the walk says what the
  points passed so far amount to, and that the cooldown stands where the last
  entry was.
- `EveryTallyAddsUp` (`TallyAddsUp`): the sum splits into the gains and the
  losses (`SummedRuns` gives the running totals of a sum).
- `EveryReservedDayIsUntouched` (`EraStaysUntouched`): the firewall is a fold that
  keeps or counts, and the kept rows are those clear of the window, in order.

### Selection_proofs
- `TheGateIsMonotone` (`MonotoneGate` of `VerdictsAreEarned`).
- `TheFloorNeedsEvidence` (`WilsonFloor`): the bound with its square root removed
  is a quadratic in the hits; it factors through the score test at 9/20
  (`WilsonFactors`), from which monotonicity follows by arithmetic.
- `EveryConvictionEarnsItsExpectancy` (`ConvictionIsImplied`).
- `EveryFoldTrainsAndTests` (`FoldsTrainAndTest`): no group is empty, and no
  combination of test folds is all of them.
- `EverySignatureIsBehaviour` (the property `SignaturesAreBehaviour`, for genomes
  and observations of every size): equal token sets are equal predicates up to
  the rounding of a threshold.
- `DefaultsAreTheProfile` (`DefaultsKeepTheProfile` of `Geometry`),
  `EveryGeometryStaysTradeable` (`TradeableGeometry` of `BreedingIsSound`).
- `EverySeedIsObserved` and `EveryOffspringIsObserved` (`ObservedSeeds` and
  `ObservedOffspring`): keeping the first predicate of each feature leaves
  distinct features of the catalog (`KeepingKeeps`), each mutation operator and
  the crossover keep a genome valid, so a lineage of any length does.
- `EveryGenerationIsEliteThenNew` (`EliteThenNew`): the admission of fresh
  candidates is a fold whose invariant says that what is kept is new and in order.
- `LargerFundsDoPass` (`LargerFundsPass` of `NothingIsMadeUp`).
- `SwingsStayAsConfirmed` (`SwingsStand` of `LevelsStand`): one more bar adds
  at most one pivot to the set, k bars back, and later than all others
  (`PivotsAreFinal`, `LastPivotIsFinal`); of a full look-back it also moves every
  pivot back by one and may push the oldest out (`PivotsSlide`,
  `LastPivotSlides`); a latest pivot exists (`LargestExists`).
- `LevelsAlwaysNest` (`NestedLevels`), for candles: a close between low and high,
  and a volume not negative. Every window holds the last bar (`TrailingIs`), and a
  volume-weighted mean of prices lies between the lowest and the highest
  (`VwapInRange`).
- `VolatilityIsRankedAmongItsOwn` (`VolatilityRank`).
- `MissingSeriesAreSkipped` (`NothingFilledIn` of `NothingIsMadeUp`): the readings
  agree on every key that does not read the series, and the volatility of the
  closes enters as it is, whatever its fold computes.
- `EveryDrawdownIsTheWorstRun` (`WorstRun` of `DetectorsAreFair`): the invariant of
  the loop is that the equity, its peak and the drawdown so far are a sum, the
  largest sum of a prefix and the deepest fall between two such sums
  (`DrawdownIsDeepestFall`), and a fall is what the trades between them sum to.
- `MoreEvidenceNeverSoftens` and `EveryQuarantineNeedsTheGap` (`EvidenceCounts`),
  for every graded configuration (`Graded`: a quarantine asks for no less than a
  shrink, a shrink for no less evidence than a decay): the z score of a record
  repeated is at least as far out (`TwiceTheEvidence`), and so is that against a
  better backtest (`SignificantHigherMark`).

The last part states the properties of the run as they stand:
`LabelsAreAlwaysHonest`, `CohortsAreAlwaysFair`, `DetectorsAreAlwaysFair`,
`VerdictsAreAlwaysEarned`, `SignaturesAreAlwaysBehaviour`, `BreedingIsAlwaysSound`,
`LevelsAlwaysStand` and `NothingIsEverMadeUp`. Their hypotheses say of the input
only what its type is (`IsLabelCase`: bars, a side, a risk model of a known form,
...), and `TheRunsCasesAreInstances` shows that what the run enumerates has these
types, so that for seven of them `CaseSpec => []P` follows. The eighth is
`BreedingIsSound`: the run's catalogs are sorted with `SortSeq`, of which the
prover knows nothing, so that the theorem takes a catalog with its values in
any order (which is more general), and that the run's are such is left to TLC.

### Only model-checked
- Liveness under fairness is out of the prover's reach:
  `BleedingStrategyIsPulled`, `SignalsArePublished`.
- `SelectSeq` and `SortSeq` are opaque to the prover, and so is what a recursive
  function computes (the first days of the months, the exponential, the smoothed
  averages of the indicators). `NoSideIsFavoured` (`UndisputedLabel`,
  `CalmAndStress`, `DirectionsMirror`) and `OrderIsKept` (`OneCalendar`,
  `ChronologicalWindows`, `CohortsAreWritten`, `BestIsShown`, `DrawdownOrder`,
  `CalibrationPairs`) rest on these, and are checked over the bounded inputs of
  `MCEngine_run` only.
- The runs that refute a comment are counterexamples and need no proof.

## 5. Not modelled, and the plan

Not modelled, and why:
- REST handlers and the web application: each is one SELECT or a view of it, and
  keeps no state.
- HTTP, JSON and CSV of the providers, and the mock provider's random walk: I/O.
  What the engine stores of an answer, and as of when, is in PitStore and
  SignalJournal.
- The Python worker's model fitting, its deflated Sharpe ratio and the inside of
  its cross-validation: floating-point numerics. Search lets it answer anything;
  Scoring has what it demands of a dataset and of the folds.
- Argument parsing, printing and migrations.
- A second signal writer in EventStream: two processes may commit in another
  order than their `created_at` stamps, and a poll between the commits then
  loses the later one. The hazard is listed without a property.
- What happens inside a step that is several statements in the code: an upsert of many rows is
  sent in chunks (`store.rs`, of 2000 bars or features and 5000 points), a scan's feature modules
  read and persist one after the other (`ReadStore`, `WriteDerived`), and the
  changelog is four SELECTs and an upsert (`WriteChangelog`).
- Freshness under overlapping scans: a slower scan can write an older answer over a
  newer one, beside features derived from the newer. `PastViewsOnlyMoveForward` and
  `StoreIsConsistent` claim dates, vintages and rows of such histories, and
  values only for histories in which no two scans overlap.

What the models carry over from the code as it is, and no property is about: the
convictions of the calibration keep the open trades its wins drop, so that with an open trade
newer than a closed one a prediction is compared with the outcome of another
trade (`se-monitor/lib.rs:117`, against `detectors.rs:270`; modelled in
`Convictions` and `Wins`, whose property `CalibrationCountsOutcomes` claims
pairs only where no open trade is newer than a closed one); a NaN expectancy is ranked by `partial_cmp`, as equal to
anything (`score.rs:176`); the copper/gold ratio zips two histories by position, whatever
their dates (`layer1_regime.rs:200`, modelled in `CopperGold`); the EMA stack
adds half signs, so a stack can score one half (`layer3_trigger.rs:71`, modelled
in `EmaStackAlign`); the ETF profile fetched today is stored as of the last bar
(`main.rs:344`, modelled in `ScanProfile`); a revised macro value overwrites its
vintage (`MacroWritten`, and the run PitStore_vintages); `se trades` leaves the old rows in place
when nothing is promoted, and deletes those of every horizon (`trades.rs:139`,
modelled in `BeginReplay` and `Cleared`); the changelog's list of decay
detectors is kept by hand (`se-monitor/lib.rs:476`, modelled in
`ReportedDetectors`); the night surfaces its signals twice (`nightly.rs:145`,
modelled in `NextStep`).

Worth doing next:
1. The second signal writer of EventStream.
2. The calendar of the event overlay beyond the year a run enumerates, and the
   mirror of the directions: both need facts about recursive functions, one
   of months and one of smoothed averages.
