------------------------------ MODULE Monitor ------------------------------
(***************************************************************************)
(* se-monitor: the nightly watch/detect/act loop (run_daily_with) followed *)
(* by weekly_changelog_at, as `se nightly` calls them one after the other. *)
(* What the detectors conclude from the realized trades of a strategy is   *)
(* the environment's: breach[id] is the set of conditions its recent       *)
(* paper/live trades meet at this moment.  Every write is a statement of   *)
(* its own, so a night may end between any two of them.                    *)
(***************************************************************************)
EXTENDS StrategyTable, Sequences

CONSTANTS
  BreachSpace,  \* sets of conditions a trade history may meet
  Sources,      \* data sources whose freshness is watched
  MaxWeek,      \* bound: ISO weeks 1..MaxWeek
  MaxCrash      \* bound: nights that end early

Conditions == {"quarantine_gap", "shrink_gap", "drawdown", "miscalibrated", "decay"}

ASSUME MonitorAssumption ==
  /\ BreachSpace \subseteq SUBSET Conditions
  /\ {} \in BreachSpace
  /\ MaxWeek \in Nat \ {0}
  /\ MaxCrash \in Nat
  /\ Ids \cap (Sources \cup {"regimes"}) = {}

Detectors == {"backtest_vs_live_divergence", "drawdown_breach", "calibration_break",
              "decay", "regate_failed", "data_staleness", "regime_ood"}

Actions == {"quarantine", "shrink_size", "disable", "alert", "recalibrate",
            "demote", "skip_degraded", "suppress"}

Event == [subject : Ids \cup Sources \cup {"regimes"}, detector : Detectors,
          action : Actions, week : 1..MaxWeek]

(* Mutant: the status is named after the action.                           *)
StatusOfVerb(action) ==
  CASE action = "quarantine" -> "quarantine"
    [] action = "disable" -> "retired"
    [] action = "demote" -> "demoted"

(* The lifecycle status an action maps to; the other actions map to none.  *)
StatusOf(action) ==
  CASE action = "quarantine" -> "quarantined"
    [] action = "disable" -> "retired"
    [] action = "demote" -> "demoted"

Condemnations == {"quarantine", "disable", "demote"}

VARIABLES
  mpc,        \* where the night is
  queue,      \* strategies loaded by the current pass and not yet handled
  todo,       \* writes still owed for the strategy or source in hand
  events,     \* monitor_events
  week,       \* the current ISO week
  nowWeek,    \* the week of `now`, taken when the night began
  breach,     \* conditions each strategy's recent trades meet
  changelog,  \* the newest changelog row, or NoRow
  crashes,    \* nights that ended early
  \* history variables, read by the properties only
  nightLog,   \* events of the current night
  removed     \* strategies that lost promotion in the current week

nightVars == <<mpc, queue, todo, nowWeek, nightLog>>
monitorVars == <<tableVars, nightVars, events, week, breach, changelog, crashes, removed>>

Phases == {"idle", "strategies", "regate", "sources", "ood"}

Write == [op : {"event"}, event : Event]
           \cup [op : {"status"}, id : Ids, status : Status]

Changelogs == [week : 1..MaxWeek, decayed : SUBSET Ids, firings : SUBSET Event,
               retired : SUBSET Ids, adapted : SUBSET Event]

MonitorTypeOK ==
  /\ TableTypeOK
  /\ mpc \in Phases
  /\ queue \subseteq [id : Ids \cup Sources, scored : BOOLEAN]
  /\ todo \in Seq(Write)
  /\ events \subseteq Event
  /\ week \in 1..MaxWeek
  /\ nowWeek \in 1..MaxWeek
  /\ breach \in [Ids -> BreachSpace]
  /\ changelog \in Changelogs \cup {NoRow}
  /\ crashes \in 0..MaxCrash
  /\ nightLog \subseteq Event
  /\ removed \subseteq Ids

(* Before the first night the table holds what searches left behind, those *)
(* of earlier builds included: a legacy promoted row has a score, but one  *)
(* that today's gate may refuse.                                           *)
MonitorTableInit ==
  /\ strategies \in [Ids -> [genome : Genomes, status : {"candidate", "promoted", "retired"}]]
  /\ oosLatest \in [Ids -> ScoreSpace \cup {NoScore}]
  /\ \A id \in PromotedIds : oosLatest[id] # NoScore
  /\ touched = {}

MonitorLocalInit ==
  /\ mpc = "idle"
  /\ queue = {}
  /\ todo = <<>>
  /\ events = {}
  /\ week = 1
  /\ nowWeek = 1
  /\ breach = [id \in Ids |-> {}]
  /\ changelog = NoRow
  /\ crashes = 0
  /\ nightLog = {}
  /\ removed = {}

MonitorInit == MonitorTableInit /\ MonitorLocalInit

-----------------------------------------------------------------------------
EventWrite(subject, detector, action) ==
  [op |-> "event",
   event |-> [subject |-> subject, detector |-> detector, action |-> action,
              week |-> nowWeek]]

StatusWrite(id, status) == [op |-> "status", id |-> id, status |-> status]

(* Mutant: the status flip before the event row.                           *)
StatusFirst(id, detector, action) ==
  (IF action \in Condemnations THEN <<StatusWrite(id, StatusOf(action))>> ELSE <<>>)
    \o <<EventWrite(id, detector, action)>>

(* Mutant: the event row only.                                             *)
EventOnly(id, detector, action) == <<EventWrite(id, detector, action)>>

(* apply_strategy_decision: the event row first, then the status flip.     *)
Decision(id, detector, action) ==
  <<EventWrite(id, detector, action)>>
    \o (IF action \in Condemnations THEN <<StatusWrite(id, StatusOf(action))>> ELSE <<>>)

(* The detectors in the order run_daily_with tries them.  Divergence needs *)
(* a stored score, and quarantine is the escalation of shrink.             *)
DivergenceWrites(s) ==
  LET name == "backtest_vs_live_divergence" IN
  IF s.scored /\ "quarantine_gap" \in breach[s.id] THEN Decision(s.id, name, "quarantine")
  ELSE IF s.scored /\ "shrink_gap" \in breach[s.id] THEN Decision(s.id, name, "shrink_size")
  ELSE <<>>

DrawdownWrites(s) ==
  IF "drawdown" \in breach[s.id]
  THEN Decision(s.id, "drawdown_breach", "disable")
         \o <<EventWrite(s.id, "drawdown_breach", "alert")>>
  ELSE <<>>

CalibrationWrites(s) ==
  IF "miscalibrated" \in breach[s.id]
  THEN Decision(s.id, "calibration_break", "recalibrate") ELSE <<>>

DecayWrites(s) ==
  IF "decay" \in breach[s.id] THEN Decision(s.id, "decay", "demote") ELSE <<>>

StrategyWrites(s) ==
  DivergenceWrites(s) \o DrawdownWrites(s) \o CalibrationWrites(s) \o DecayWrites(s)

StalenessWrites(source) ==
  <<EventWrite(source, "data_staleness", "skip_degraded"),
    EventWrite(source, "data_staleness", "alert")>>

(* Mutant: retired rows are watched as well.                               *)
WatchedWithRetired ==
  {[id |-> id, scored |-> oosLatest[id] # NoScore] : id \in Stored}

(* Mutant: a strategy with an event on record is not judged again.         *)
WatchedUnlessReported ==
  {[id |-> id, scored |-> oosLatest[id] # NoScore] :
     id \in {i \in Stored : /\ strategies[i].status # "retired"
                            /\ \A e \in events : e.subject # i}}

(* load_strategies: every row that is not retired, with whether it has a   *)
(* score; read once, before the first strategy is handled.                 *)
Watched ==
  {[id |-> id, scored |-> oosLatest[id] # NoScore] :
     id \in {i \in Stored : strategies[i].status # "retired"}}

(* load_promoted_gate_inputs, filtered by the inlined gate comparison.     *)
GateFailures ==
  {[id |-> id, scored |-> TRUE] :
     id \in {i \in PromotedIds : oosLatest[i] # NoScore /\ ~oosLatest[i].gate}}

-----------------------------------------------------------------------------
(* Rows that leave promoted in this step.                                  *)
Lost == {id \in PromotedIds : strategies'[id].status # "promoted"}

BeginNight ==
  /\ mpc = "idle"
  /\ mpc' = "strategies"
  /\ queue' = Watched
  /\ nowWeek' = week
  /\ nightLog' = {}
  /\ UNCHANGED <<tableVars, todo, events, week, breach, changelog, crashes, removed>>

(* The next strategy of the pass (the SELECT has no ORDER BY): its recent  *)
(* trades are read now and all four detectors judge that one reading.      *)
JudgeStrategy ==
  /\ mpc = "strategies"
  /\ todo = <<>>
  /\ \E s \in queue :
       /\ todo' = StrategyWrites(s)
       /\ queue' = queue \ {s}
  /\ UNCHANGED <<tableVars, mpc, nowWeek, nightLog, events, week, breach, changelog, crashes, removed>>

(* write_event: INSERT INTO monitor_events.                                *)
WriteEvent ==
  /\ todo # <<>>
  /\ Head(todo).op = "event"
  /\ events' = events \cup {Head(todo).event}
  /\ nightLog' = nightLog \cup {Head(todo).event}
  /\ todo' = Tail(todo)
  /\ UNCHANGED <<tableVars, mpc, queue, nowWeek, week, breach, changelog, crashes, removed>>

(* set_strategy_status: an UPDATE that looks at the key only.              *)
SetStatus ==
  /\ todo # <<>>
  /\ Head(todo).op = "status"
  /\ UpdateStatus(Head(todo).id, Head(todo).status)
  /\ removed' = removed \cup Lost
  /\ todo' = Tail(todo)
  /\ UNCHANGED <<oosLatest, mpc, queue, nowWeek, nightLog, events, week, breach, changelog, crashes>>

LoadRegate ==
  /\ mpc = "strategies"
  /\ todo = <<>>
  /\ queue = {}
  /\ mpc' = "regate"
  /\ queue' = GateFailures
  /\ UNCHANGED <<tableVars, todo, nowWeek, nightLog, events, week, breach, changelog, crashes, removed>>

Regate ==
  /\ mpc = "regate"
  /\ todo = <<>>
  /\ \E s \in queue :
       /\ todo' = Decision(s.id, "regate_failed", "demote")
       /\ queue' = queue \ {s}
  /\ UNCHANGED <<tableVars, mpc, nowWeek, nightLog, events, week, breach, changelog, crashes, removed>>

(* load_source_freshness: any source may be past the freshness budget.     *)
LoadFreshness ==
  /\ mpc = "regate"
  /\ todo = <<>>
  /\ queue = {}
  /\ mpc' = "sources"
  /\ \E stale \in SUBSET Sources :
       queue' = {[id |-> source, scored |-> FALSE] : source \in stale}
  /\ UNCHANGED <<tableVars, todo, nowWeek, nightLog, events, week, breach, changelog, crashes, removed>>

Staleness ==
  /\ mpc = "sources"
  /\ todo = <<>>
  /\ \E s \in queue :
       /\ todo' = StalenessWrites(s.id)
       /\ queue' = queue \ {s}
  /\ UNCHANGED <<tableVars, mpc, nowWeek, nightLog, events, week, breach, changelog, crashes, removed>>

(* count_recent_ood: enough out-of-distribution labels, or not.            *)
CountOod ==
  /\ mpc = "sources"
  /\ todo = <<>>
  /\ queue = {}
  /\ mpc' = "ood"
  /\ todo' \in {<<>>, <<EventWrite("regimes", "regime_ood", "suppress")>>}
  /\ UNCHANGED <<tableVars, queue, nowWeek, nightLog, events, week, breach, changelog, crashes, removed>>

ReportedDetectors ==
  {"backtest_vs_live_divergence", "calibration_break", "drawdown_breach"}

CorrectiveActions == {"recalibrate", "shrink_size", "suppress", "skip_degraded"}

(* weekly_changelog_at: its own `now` picks the week; the row of the week  *)
(* is overwritten by the newest report.                                    *)
WriteChangelog ==
  /\ mpc = "ood"
  /\ todo = <<>>
  /\ changelog' =
       [week |-> week,
        decayed |-> {id \in touched : HasStatus(id, "demoted") \/ HasStatus(id, "quarantined")},
        firings |-> {e \in events : e.week = week /\ e.detector \in ReportedDetectors},
        retired |-> {id \in touched : HasStatus(id, "retired")},
        adapted |-> {e \in events : e.week = week /\ e.action \in CorrectiveActions}]
  /\ mpc' = "idle"
  /\ UNCHANGED <<tableVars, queue, todo, nowWeek, nightLog, events, week, breach, crashes, removed>>

(* A store error, or the process dies: what is not written yet never is.   *)
EndEarly ==
  /\ mpc # "idle"
  /\ crashes < MaxCrash
  /\ crashes' = crashes + 1
  /\ mpc' = "idle"
  /\ queue' = {}
  /\ todo' = <<>>
  /\ UNCHANGED <<tableVars, nowWeek, nightLog, events, week, breach, changelog, removed>>

(* The market closes trades of a strategy, or the 60-day window moves on.  *)
TradesMove(id) ==
  /\ id \in Stored
  /\ \E b \in BreachSpace \ {breach[id]} : breach' = [breach EXCEPT ![id] = b]
  /\ UNCHANGED <<tableVars, nightVars, events, week, changelog, crashes, removed>>

NewWeek ==
  /\ week < MaxWeek
  /\ week' = week + 1
  /\ touched' = {}
  /\ removed' = {}
  /\ UNCHANGED <<strategies, oosLatest, nightVars, events, breach, changelog, crashes>>

Night ==
  \/ BeginNight
  \/ JudgeStrategy
  \/ WriteEvent
  \/ SetStatus
  \/ LoadRegate
  \/ Regate
  \/ LoadFreshness
  \/ Staleness
  \/ CountOod
  \/ WriteChangelog

MonitorNext == Night \/ EndEarly \/ NewWeek \/ \E id \in Ids : TradesMove(id)

MonitorSpec == MonitorInit /\ [][MonitorNext]_monitorVars

(* The scheduler starts a night again and again and each night is one      *)
(* sequential task, so the night's own steps are fair; crashes, trades and *)
(* the calendar are not.                                                   *)
FairMonitorSpec == MonitorSpec /\ WF_monitorVars(Night)

-----------------------------------------------------------------------------
(* A strategy is quarantined or demoted only with its reason on record: a  *)
(* night that dies between the event and the status flip leaves an event   *)
(* without effect, never an effect without an event (write_event first).   *)
CondemnationIsOnRecord ==
  \A id \in Ids : \A action \in {"quarantine", "demote"} :
    HasStatus(id, StatusOf(action)) =>
      \E e \in events : e.subject = id /\ e.action = action

(* Once the pass over the strategies is finished, no strategy a detector   *)
(* condemned tonight may surface signals (lib.rs:246, "We never keep       *)
(* trading a strategy a detector just condemned").                         *)
CondemnedTonightIsNotPromoted ==
  (mpc \in {"sources", "ood"} \/ (mpc = "regate" /\ todo = <<>>)) =>
    \A e \in nightLog : e.action \in Condemnations => e.subject \notin PromotedIds

(* What these rest on, one named part per fact.  Of the writes w owed for  *)
(* one strategy after the events in log: every flip has its reason before  *)
(* it, every condemnation its flip after it, and the flips come in the     *)
(* order of the detectors, the demotion last.                              *)
ReasonsComeFirst(w, log, demotedBy) ==
  \A i \in DOMAIN w : w[i].op = "status" =>
    \E e \in log \cup {w[j].event : j \in {k \in 1..(i - 1) : w[k].op = "event"}} :
      /\ e.subject = w[i].id
      /\ e.action \in Condemnations /\ StatusOf(e.action) = w[i].status
      /\ e.action = "demote" => e.detector = demotedBy

CondemnationsTakeEffect(w) ==
  \A i \in DOMAIN w : w[i].op = "event" /\ w[i].event.action \in Condemnations =>
    \E j \in (i + 1)..Len(w) : w[j].op = "status" /\ w[j].id = w[i].event.subject

Turn == [quarantined |-> 1, retired |-> 2, demoted |-> 3]

FlipsAreOrdered(w) ==
  \A i, j \in DOMAIN w : i < j /\ w[i].op = "status" /\ w[j].op = "status" =>
    w[i].id = w[j].id /\ Turn[w[i].status] < Turn[w[j].status]

DemotedBy == IF mpc = "strategies" THEN "decay" ELSE "regate_failed"

OwedWritesAreSound ==
  /\ nightLog \subseteq events
  /\ mpc \in {"strategies", "regate"} =>
       /\ ReasonsComeFirst(todo, nightLog, DemotedBy)
       /\ CondemnationsTakeEffect(todo)
       /\ FlipsAreOrdered(todo)
  /\ mpc = "regate" =>
       \A i \in DOMAIN todo : todo[i].op = "status" => todo[i].status = "demoted"
  /\ mpc \in {"idle", "sources", "ood"} =>
       \A i \in DOMAIN todo : todo[i].op = "event" /\ todo[i].event.action \notin Condemnations

(* What is still queued is as it was loaded: one entry per row, none of    *)
(* them in hand, and no other row has been written.                        *)
QueueIsUntouched ==
  /\ mpc \in {"strategies", "regate"} =>
       \A s \in queue :
         /\ \A s2 \in queue : s.id = s2.id => s = s2
         /\ \A i \in DOMAIN todo : todo[i].op = "status" => todo[i].id # s.id
  /\ mpc = "strategies" =>
       \A s \in queue : s.id \in Stored /\ strategies[s.id].status # "retired"
  /\ mpc = "regate" => \A s \in queue : s.id \in PromotedIds

(* A retired row in hand was disabled tonight, and only its demotion is    *)
(* left to write.                                                          *)
RetiredInHandIsTonights ==
  \A i \in DOMAIN todo : todo[i].op = "status" /\ HasStatus(todo[i].id, "retired") =>
    /\ mpc = "strategies" /\ todo[i].status = "demoted"
    /\ \E e \in nightLog : e.subject = todo[i].id /\ e.action = "disable"

(* Who is condemned tonight is out of the live set, or about to be.        *)
CondemnedTonightIsDue ==
  mpc # "idle" =>
    \A e \in nightLog : e.action \in Condemnations =>
      \/ e.subject \notin PromotedIds
      \/ \E i \in DOMAIN todo : todo[i].op = "status" /\ todo[i].id = e.subject

RemovedAreCondemned ==
  /\ removed \subseteq touched
  /\ \A id \in removed :
       id \in Stored /\ strategies[id].status \in {"quarantined", "demoted", "retired"}

(* No condemnation without its reason on record, no condemned strategy     *)
(* live after the pass, and the state of the night that keeps it so.       *)
MonitorInvariant ==
  /\ MonitorTypeOK
  /\ CondemnationIsOnRecord
  /\ CondemnedTonightIsNotPromoted
  /\ OwedWritesAreSound
  /\ QueueIsUntouched
  /\ RetiredInHandIsTonights
  /\ CondemnedTonightIsDue
  /\ RemovedAreCondemned

(* A retired strategy is outside the watch: the only way out of retired is *)
(* a demotion later in the very night that disabled it.                    *)
OnlyTonightsDisableIsUndone ==
  [][\A id \in Ids : HasStatus(id, "retired") /\ strategies'[id].status # "retired" =>
       /\ \E e \in nightLog : e.subject = id /\ e.action = "disable"
       /\ \E e \in nightLog : e.subject = id /\ e.detector = "decay"]_monitorVars

(* A strategy that lost its promotion this week is in the changelog row    *)
(* written this week, under decayed or under retired.                      *)
RemovalsAreReported ==
  [][WriteChangelog => \A id \in removed : id \in changelog'.decayed \cup changelog'.retired]_monitorVars

(* A promoted strategy whose trades keep meeting the decay condition is    *)
(* eventually taken out of the live set, also when nights end early        *)
(* between the event and the flip: the next night judges it again.         *)
BleedingStrategyIsPulled ==
  \A id \in Ids :
    (id \in PromotedIds /\ "decay" \in breach[id])
      ~> (id \notin PromotedIds \/ "decay" \notin breach[id])
=============================================================================
