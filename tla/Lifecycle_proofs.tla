-------------------------- MODULE Lifecycle_proofs --------------------------
(***************************************************************************)
(* Proofs about Lifecycle: any number of searches and a monitor over one   *)
(* table.  What the searches keep of the table survives the monitor, whose *)
(* writes only ever condemn; who else may write a condemned row follows    *)
(* from the ids the runs hold.                                             *)
(***************************************************************************)
EXTENDS Lifecycle, Search_proofs, Monitor_proofs

LEMMA InitSatisfiesSharedTable == LifecycleInit => SharedTableInvariant
<1> SUFFICES ASSUME LifecycleInit PROVE SharedTableInvariant
  OBVIOUS
<1>1. SearchInvariant
  BY InitSatisfiesInvariant DEF LifecycleInit
<1>2. MonitorTypeOK
  <2>1. 1 \in 1..MaxWeek /\ 0 \in 0..MaxCrash /\ {} \in BreachSpace
    BY MonitorAssumption
  <2>2. TableTypeOK
    BY <1>1 DEF SearchInvariant, SearchTypeOK
  <2> QED
    BY <2>1, <2>2, NothingOwed DEF LifecycleInit, MonitorLocalInit, MonitorTypeOK, Phases
<1> QED
  BY <1>1, <1>2, NothingOwed
  DEF SharedTableInvariant, OwedFlipsCondemn, WatchedAreStrategies, RegateQueueIsEmpty,
      LifecycleInit, MonitorLocalInit

-----------------------------------------------------------------------------
(* The writes taken on for a strategy condemn it or notify.                *)
LEMMA ShareCondemns ==
  ASSUME NEW w, NEW id, NEW lo, NEW hi, NEW by, Share(w, id, lo, hi, by)
  PROVE  /\ w \in Seq(Write)
         /\ \A i \in DOMAIN w : w[i].op = "status" =>
              w[i].status \in {"quarantined", "demoted", "retired"}
<1>1. w \in Seq(Write) /\ DOMAIN w = 1..Len(w)
  BY DEF Share
<1>2. ASSUME NEW i \in 1..Len(w), w[i].op = "status"
      PROVE  w[i].status \in {"quarantined", "demoted", "retired"}
  <2>1. PICK j \in 1..(i - 1) : w[j].op = "event" /\ IsReason(w[j].event, w[i], by)
    BY <1>2, ShareFacts DEF Flip
  <2> QED
    BY <2>1 DEF IsReason, Condemnations, StatusOf
<1> QED
  BY <1>1, <1>2

(* A status the monitor writes condemns the row it is about and leaves the *)
(* others as they are.                                                     *)
LEMMA SetStatusCondemns ==
  ASSUME SharedTableInvariant, SetStatus
  PROVE  /\ TableTypeOK' /\ Stored' = Stored /\ oosLatest' = oosLatest
         /\ \A id \in Ids :
              \/ strategies'[id] = strategies[id]
              \/ /\ id \in Stored
                 /\ strategies'[id].genome = strategies[id].genome
                 /\ strategies'[id].status \in {"quarantined", "demoted", "retired"}
<1>1. /\ todo \in Seq(Write) /\ todo # <<>> /\ todo[1].op = "status"
      /\ UpdateStatus(todo[1].id, todo[1].status) /\ oosLatest' = oosLatest
  BY TailFacts DEF SetStatus, SharedTableInvariant, MonitorTypeOK
<1>2. /\ todo[1] \in Write /\ 1 \in DOMAIN todo
      /\ strategies \in [Ids -> Row \cup {NoRow}] /\ touched \subseteq Ids
      /\ oosLatest \in [Ids -> ScoreSpace \cup {NoScore}]
  BY <1>1, TailFacts DEF SharedTableInvariant, MonitorTypeOK, TableTypeOK
<1>3. todo[1].id \in Ids /\ todo[1].status \in {"quarantined", "demoted", "retired"}
  BY <1>1, <1>2 DEF Write, SharedTableInvariant, OwedFlipsCondemn
<1>4. todo[1].status \in Status
  BY <1>3 DEF Status
<1>5. /\ strategies' \in [Ids -> Row \cup {NoRow}] /\ Stored' = Stored
      /\ \A i \in Ids : i # todo[1].id => strategies'[i] = strategies[i]
      /\ todo[1].id \in Stored =>
           /\ strategies'[todo[1].id].status = todo[1].status
           /\ strategies'[todo[1].id].genome = strategies[todo[1].id].genome
      /\ todo[1].id \notin Stored => strategies' = strategies
      /\ touched' \subseteq Ids
  BY <1>1, <1>2, <1>3, <1>4, UpdateStatusEffect
<1>6. TableTypeOK'
  BY <1>1, <1>2, <1>5 DEF TableTypeOK
<1> QED
  BY <1>1, <1>3, <1>5, <1>6

(* What the searches rely on survives a step that writes no run variable   *)
(* and no score, and changes a stored row only to condemn it.              *)
LEMMA CondemningKeepsSearches ==
  ASSUME SearchInvariant, UNCHANGED runVars, oosLatest' = oosLatest, TableTypeOK',
         Stored' = Stored,
         \A id \in Ids :
           \/ strategies'[id] = strategies[id]
           \/ /\ id \in Stored
              /\ strategies'[id].genome = strategies[id].genome
              /\ strategies'[id].status \in {"quarantined", "demoted", "retired"}
  PROVE  SearchInvariant'
<1>1. SearchTypeOK'
  BY DEF SearchInvariant, SearchTypeOK, runVars
<1>2. PromotedHasPassingScore'
  <2> SUFFICES ASSUME NEW id \in Ids, id \in Stored', strategies'[id].status = "promoted"
               PROVE  Promotable(strategies'[id].genome, oosLatest'[id])
    BY DEF PromotedHasPassingScore, PromotedIds, HasStatus
  <2>1. strategies'[id] = strategies[id]
    OBVIOUS
  <2>2. id \in PromotedIds
    BY <2>1 DEF PromotedIds, HasStatus
  <2> QED
    BY <2>1, <2>2 DEF SearchInvariant, PromotedHasPassingScore
<1>3. IdsDisjoint' /\ StoredIsMinted'
  <2>1. Minted' = Minted
    BY DEF Minted, runVars
  <2> QED
    BY <2>1 DEF SearchInvariant, StoredIsMinted, IdsDisjoint, runVars
<1>4. ASSUME NEW r \in Runs
      PROVE  RunInvariant(r)'
  <2>0. RunInvariant(r) /\ evaluated[r] \in Seq(Evaluated)
    BY DEF SearchInvariant, SearchTypeOK
  <2>1. OwnIds(r)' /\ EvaluatedIsPrefix(r)'
    BY <2>0 DEF RunInvariant, OwnIds, EvaluatedIsPrefix, RepetitionFree, runVars
  <2>2. Progress(r)' /\ KeptAreSelected(r)'
    BY <2>0 DEF RunInvariant, Progress, KeptAreSelected, RepetitionFree, runVars
  <2>3. ASSUME NEW i \in 1..Len(evaluated[r]), strategies[evaluated[r][i].id] # NoRow
        PROVE  /\ strategies'[evaluated[r][i].id] # NoRow
               /\ strategies'[evaluated[r][i].id].genome = strategies[evaluated[r][i].id].genome
               /\ strategies[evaluated[r][i].id].status # "promoted"
                    => strategies'[evaluated[r][i].id].status # "promoted"
    <3>1. evaluated[r][i].id \in Ids
      <4>1. evaluated[r][i] \in Evaluated
        BY <2>0
      <4> QED
        BY <4>1 DEF Evaluated
    <3>2. evaluated[r][i].id \in Stored
      BY <2>3, <3>1 DEF Stored
    <3>3. evaluated[r][i].id \in Stored'
      BY <3>2
    <3>4. strategies'[evaluated[r][i].id] # NoRow
      BY <3>3 DEF Stored
    <3> QED
      BY <3>1, <3>4
  <2>4. pc[r] = "score" => Len(evaluated[r]) \in 1..Len(evaluated[r])
    BY <2>0, OwedEvaluationExists DEF SearchInvariant
  <2>5. Persisted(r)
    BY <2>0 DEF RunInvariant
  <2>6. /\ pc' = pc /\ evaluated' = evaluated
    BY DEF runVars
  <2>7. Persisted(r)'
    <3> DEFINE n == Len(evaluated[r])
    <3>1. pc[r] = "score" =>
            /\ evaluated[r][n].score # NoScore
            /\ strategies'[evaluated[r][n].id] # NoRow
            /\ strategies'[evaluated[r][n].id].genome = evaluated[r][n].genome
            /\ strategies'[evaluated[r][n].id].status # "promoted"
      BY <2>3, <2>4, <2>5 DEF Persisted
    <3>2. pc[r] \in {"evaluate", "score", "select"} =>
            \A i \in 1..n :
              evaluated[r][i].score # NoScore /\ (pc[r] = "score" => i < n) =>
                /\ strategies'[evaluated[r][i].id] # NoRow
                /\ strategies'[evaluated[r][i].id].genome = evaluated[r][i].genome
                /\ oosLatest[evaluated[r][i].id] = evaluated[r][i].score
      BY <2>3, <2>5 DEF Persisted
    <3> QED
      BY <2>6, <3>1, <3>2 DEF Persisted
  <2> QED
    BY <2>1, <2>2, <2>7 DEF RunInvariant
<1> QED
  BY <1>1, <1>2, <1>3, <1>4 DEF SearchInvariant

-----------------------------------------------------------------------------
(* The steps of a search leave the monitor alone.                          *)
LEMMA SearchStepKeeps ==
  ASSUME SharedTableInvariant, SearchNext, UNCHANGED monitorLocals
  PROVE  SharedTableInvariant'
<1>1. SearchInvariant'
  BY StepKeepsInvariant DEF SharedTableInvariant
<1>2. TableTypeOK'
  BY <1>1 DEF SearchInvariant, SearchTypeOK
<1> QED
  BY <1>1, <1>2
  DEF SharedTableInvariant, MonitorTypeOK, OwedFlipsCondemn, WatchedAreStrategies,
      RegateQueueIsEmpty, monitorLocals, nightVars

(* A step of the monitor that writes no row leaves the searches alone.     *)
LEMMA ReadingKeepsSearches ==
  ASSUME SharedTableInvariant, UNCHANGED <<strategies, oosLatest>>, touched' \subseteq Ids,
         UNCHANGED runVars
  PROVE  SearchInvariant' /\ TableTypeOK'
<1>1. TableTypeOK'
  BY DEF SharedTableInvariant, MonitorTypeOK, TableTypeOK
<1>2. Stored' = Stored
  BY DEF Stored
<1> QED
  BY <1>1, <1>2, CondemningKeepsSearches DEF SharedTableInvariant

(* The re-gate loads nothing: a promoted row's newest score has passed the *)
(* gate, as the gate of the re-gate is the gate of the promotion.          *)
LEMMA NothingFailsTheGate ==
  ASSUME SearchInvariant
  PROVE  GateFailures = {}
BY DEF SearchInvariant, PromotedHasPassingScore, Promotable, GateFailures

LEMMA NightStepKeeps ==
  ASSUME SharedTableInvariant, Night, UNCHANGED runVars
  PROVE  SharedTableInvariant'
<1>0. /\ SearchInvariant /\ MonitorTypeOK /\ OwedFlipsCondemn
      /\ WatchedAreStrategies /\ RegateQueueIsEmpty
      /\ todo \in Seq(Write) /\ nowWeek \in 1..MaxWeek /\ touched \subseteq Ids
      /\ DOMAIN todo = 1..Len(todo)
  BY NightTypes DEF SharedTableInvariant, MonitorTypeOK, TableTypeOK
<1> USE DEF OwedFlipsCondemn, WatchedAreStrategies, RegateQueueIsEmpty
<1>1. CASE BeginNight
  <2>1. SearchInvariant' /\ TableTypeOK'
    BY <1>0, <1>1, ReadingKeepsSearches DEF BeginNight, tableVars
  <2>2. /\ Watched \subseteq [id : Ids \cup Sources, scored : BOOLEAN]
        /\ \A s \in Watched : s.id \in Ids
    BY WatchedFacts DEF Stored
  <2>3. MonitorTypeOK'
    BY <1>0, <1>1, <2>1, <2>2 DEF BeginNight, MonitorTypeOK, Phases
  <2> QED
    BY <1>0, <1>1, <2>1, <2>2, <2>3 DEF BeginNight, SharedTableInvariant
<1>2. CASE JudgeStrategy
  <2>1. SearchInvariant' /\ TableTypeOK'
    BY <1>0, <1>2, ReadingKeepsSearches DEF JudgeStrategy, tableVars
  <2>2. PICK s \in queue : todo' = StrategyWrites(s) /\ queue' = queue \ {s}
    BY <1>2 DEF JudgeStrategy
  <2>3. Share(StrategyWrites(s), s.id, 1, 3, "decay")
    BY <1>0, <1>2, StrategyWritesShare DEF JudgeStrategy
  <2>4. todo' \in Seq(Write) /\ OwedFlipsCondemn'
    BY <2>2, <2>3, ShareCondemns
  <2>5. MonitorTypeOK'
    BY <1>0, <1>2, <2>1, <2>2, <2>4 DEF JudgeStrategy, MonitorTypeOK
  <2> QED
    BY <1>0, <1>2, <2>1, <2>2, <2>4, <2>5 DEF JudgeStrategy, SharedTableInvariant
<1>3. ASSUME todo # <<>>
      PROVE  /\ Tail(todo) \in Seq(Write) /\ todo[1] = Head(todo) /\ todo[1] \in Write
             /\ \A i \in DOMAIN Tail(todo) : Tail(todo)[i].op = "status" =>
                  Tail(todo)[i].status \in {"quarantined", "demoted", "retired"}
  BY <1>0, <1>3, TailFacts
<1>4. CASE WriteEvent
  <2>1. SearchInvariant' /\ TableTypeOK'
    BY <1>0, <1>4, ReadingKeepsSearches DEF WriteEvent, tableVars
  <2>2. todo # <<>> /\ Head(todo).event \in Event
    BY <1>3, <1>4 DEF WriteEvent, Write
  <2>3. MonitorTypeOK'
    BY <1>0, <1>3, <1>4, <2>1, <2>2 DEF WriteEvent, MonitorTypeOK
  <2> QED
    BY <1>0, <1>3, <1>4, <2>1, <2>2, <2>3 DEF WriteEvent, SharedTableInvariant
<1>5. CASE SetStatus
  <2>1. /\ TableTypeOK' /\ Stored' = Stored /\ oosLatest' = oosLatest
        /\ SearchInvariant'
    BY <1>0, <1>5, SetStatusCondemns, CondemningKeepsSearches
  <2>2. Lost \subseteq Ids
    BY DEF Lost, PromotedIds
  <2>3. MonitorTypeOK'
    BY <1>0, <1>3, <1>5, <2>1, <2>2 DEF SetStatus, MonitorTypeOK
  <2> QED
    BY <1>0, <1>3, <1>5, <2>1, <2>3 DEF SetStatus, SharedTableInvariant
<1>6. CASE LoadRegate
  <2>1. SearchInvariant' /\ TableTypeOK'
    BY <1>0, <1>6, ReadingKeepsSearches DEF LoadRegate, tableVars
  <2>2. queue' = {}
    BY <1>0, <1>6, NothingFailsTheGate DEF LoadRegate
  <2>3. MonitorTypeOK'
    BY <1>0, <1>6, <2>1, <2>2 DEF LoadRegate, MonitorTypeOK, Phases
  <2> QED
    BY <1>0, <1>6, <2>1, <2>2, <2>3 DEF LoadRegate, SharedTableInvariant
<1>7. ~ Regate
  BY <1>0 DEF Regate
<1>8. CASE LoadFreshness
  <2>1. SearchInvariant' /\ TableTypeOK'
    BY <1>0, <1>8, ReadingKeepsSearches DEF LoadFreshness, tableVars
  <2>2. queue' \subseteq [id : Ids \cup Sources, scored : BOOLEAN]
    BY <1>8, QueueEntries DEF LoadFreshness
  <2>3. MonitorTypeOK'
    BY <1>0, <1>8, <2>1, <2>2 DEF LoadFreshness, MonitorTypeOK, Phases
  <2> QED
    BY <1>0, <1>8, <2>1, <2>3 DEF LoadFreshness, SharedTableInvariant
<1>9. CASE Staleness
  <2>1. SearchInvariant' /\ TableTypeOK'
    BY <1>0, <1>9, ReadingKeepsSearches DEF Staleness, tableVars
  <2>2. PICK s \in queue : todo' = StalenessWrites(s.id) /\ queue' = queue \ {s}
    BY <1>9 DEF Staleness
  <2>3. s.id \in Ids \cup Sources
    BY <1>0 DEF MonitorTypeOK
  <2>4. todo' \in Seq(Write) /\ \A i \in 1..Len(todo') : todo'[i].op = "event"
    BY <1>0, <2>2, <2>3, StalenessWritesAre
  <2>5. MonitorTypeOK'
    BY <1>0, <1>9, <2>1, <2>2, <2>4 DEF Staleness, MonitorTypeOK
  <2>6. OwedFlipsCondemn'
    BY <2>4
  <2> QED
    BY <1>0, <1>9, <2>1, <2>2, <2>5, <2>6 DEF Staleness, SharedTableInvariant
<1>10. CASE CountOod
  <2>1. SearchInvariant' /\ TableTypeOK'
    BY <1>0, <1>10, ReadingKeepsSearches DEF CountOod, tableVars
  <2>4. todo' \in Seq(Write) /\ \A i \in 1..Len(todo') : todo'[i].op = "event"
    BY <1>0, <1>10, OodWritesAre
  <2>5. MonitorTypeOK'
    BY <1>0, <1>10, <2>1, <2>4 DEF CountOod, MonitorTypeOK, Phases
  <2>6. OwedFlipsCondemn'
    BY <2>4
  <2> QED
    BY <1>0, <1>10, <2>1, <2>5, <2>6 DEF CountOod, SharedTableInvariant
<1>11. CASE WriteChangelog
  <2>1. SearchInvariant' /\ TableTypeOK'
    BY <1>0, <1>11, ReadingKeepsSearches DEF WriteChangelog, tableVars
  <2>2. changelog' \in Changelogs
    BY <1>0, <1>11 DEF WriteChangelog, Changelogs, MonitorTypeOK
  <2>3. MonitorTypeOK'
    BY <1>0, <1>11, <2>1, <2>2 DEF WriteChangelog, MonitorTypeOK, Phases
  <2> QED
    BY <1>0, <1>11, <2>1, <2>3 DEF WriteChangelog, SharedTableInvariant
<1> QED
  BY <1>1, <1>2, <1>4, <1>5, <1>6, <1>7, <1>8, <1>9, <1>10, <1>11 DEF Night

LEMMA MonitorStepKeeps ==
  ASSUME SharedTableInvariant, MonitorNext, UNCHANGED runVars
  PROVE  SharedTableInvariant'
<1>0. /\ SearchInvariant /\ MonitorTypeOK /\ touched \subseteq Ids
  BY DEF SharedTableInvariant, MonitorTypeOK, TableTypeOK
<1> USE DEF SharedTableInvariant, OwedFlipsCondemn, WatchedAreStrategies, RegateQueueIsEmpty
<1>1. CASE EndEarly
  <2>1. SearchInvariant' /\ TableTypeOK'
    BY <1>0, <1>1, ReadingKeepsSearches DEF EndEarly, tableVars
  <2>2. MonitorTypeOK'
    BY <1>0, <1>1, <2>1, NothingOwed, MonitorAssumption DEF EndEarly, MonitorTypeOK, Phases
  <2> QED
    BY <1>1, <2>1, <2>2, NothingOwed DEF EndEarly
<1>2. CASE NewWeek
  <2>1. SearchInvariant' /\ TableTypeOK'
    BY <1>0, <1>2, ReadingKeepsSearches DEF NewWeek
  <2>2. MonitorTypeOK'
    BY <1>0, <1>2, <2>1, MonitorAssumption DEF NewWeek, MonitorTypeOK, nightVars
  <2> QED
    BY <1>2, <2>1, <2>2 DEF NewWeek, nightVars
<1>3. ASSUME NEW id \in Ids, TradesMove(id)
      PROVE  SharedTableInvariant'
  <2>1. SearchInvariant' /\ TableTypeOK'
    BY <1>0, <1>3, ReadingKeepsSearches DEF TradesMove, tableVars
  <2>2. breach' \in [Ids -> BreachSpace]
    BY <1>0, <1>3 DEF TradesMove, MonitorTypeOK
  <2>3. MonitorTypeOK'
    BY <1>0, <1>3, <2>1, <2>2 DEF TradesMove, MonitorTypeOK, nightVars
  <2> QED
    BY <1>3, <2>1, <2>3 DEF TradesMove, nightVars
<1> QED
  BY <1>1, <1>2, <1>3, NightStepKeeps DEF MonitorNext

LEMMA StepKeepsSharedTable ==
  SharedTableInvariant /\ [LifecycleNext]_lifecycleVars => SharedTableInvariant'
<1> SUFFICES ASSUME SharedTableInvariant, [LifecycleNext]_lifecycleVars
             PROVE  SharedTableInvariant'
  OBVIOUS
<1>1. CASE UNCHANGED lifecycleVars
  <2>1. SearchInvariant' /\ TableTypeOK'
    BY <1>1, ReadingKeepsSearches
    DEF lifecycleVars, tableVars, SharedTableInvariant, MonitorTypeOK, TableTypeOK
  <2> QED
    BY <1>1, <2>1
    DEF lifecycleVars, monitorLocals, nightVars, SharedTableInvariant, MonitorTypeOK,
        OwedFlipsCondemn, WatchedAreStrategies, RegateQueueIsEmpty
<1> QED
  BY <1>1, SearchStepKeeps, MonitorStepKeeps DEF LifecycleNext

-----------------------------------------------------------------------------
(* A search writes no status a reason is due for, on any row.              *)
LEMMA SearchNeverQuarantines ==
  ASSUME SearchInvariant, SearchNext,
         NEW id \in Ids, NEW st \in {"quarantined", "demoted"}, HasStatus(id, st)'
  PROVE  HasStatus(id, st)
<1>0. TableTypeOK
  BY DEF SearchInvariant, SearchTypeOK
<1>1. PICK r \in Runs : Evolve(r) \/ Abort(r)
  BY DEF SearchNext
<1>2. CASE strategies' = strategies
  BY <1>2 DEF HasStatus, Stored
<1>3. CASE EvaluateAndUpsert(r)
  <2> DEFINE g == cohort[r][pos[r]]
  <2>1. PICK i \in IdChoices(r, g) :
          strategies' = [strategies EXCEPT ![i] = [genome |-> g, status |-> "candidate"]]
    BY <1>3, EvaluateAndUpsertEffect
  <2>2. id # i
    BY <1>0, <2>1 DEF HasStatus, TableTypeOK
  <2> QED
    BY <2>1, <2>2 DEF HasStatus, Stored
<1>4. CASE Select(r)
  <2> DEFINE i == evaluated[r][pos[r]].id
  <2>1. CASE strategies' # strategies
    <3>1. /\ i \in Ids /\ strategies[i] # NoRow
          /\ \E s \in {"promoted", "retired"} :
               strategies' = [strategies EXCEPT ![i] = [@ EXCEPT !.status = s]]
      BY <1>4, <2>1, SelectEffect DEF Evaluated
    <3>2. id # i
      <4>1. strategies[i] \in Row
        BY <1>0, <3>1 DEF TableTypeOK
      <4> QED
        BY <1>0, <3>1, <4>1 DEF HasStatus, TableTypeOK, Row
    <3> QED
      BY <3>1, <3>2 DEF HasStatus, Stored
  <2> QED
    BY <1>2, <2>1
<1> QED
  BY <1>1, <1>2, <1>3, <1>4
  DEF Evolve, Abort, Begin, NextGeneration, InsertScore, FinishGeneration, tableVars

(* A night that is over, however it ended, owes nothing.                   *)
LEMMA NothingIsOwedAtRest ==
  ASSUME NothingOwedAtRest, MonitorNext
  PROVE  NothingOwedAtRest'
BY DEF NothingOwedAtRest, MonitorNext, Night, BeginNight, JudgeStrategy, WriteEvent, SetStatus,
       LoadRegate, Regate, LoadFreshness, Staleness, CountOod, WriteChangelog, EndEarly,
       NewWeek, TradesMove, nightVars

(* The monitor's own statements: whatever is owed has its reason ahead of  *)
(* it or on record, and a flip leaves its own behind.                      *)
LEMMA MonitorKeepsTheRecord ==
  ASSUME LifecycleInvariant, MonitorNext, UNCHANGED runVars
  PROVE  CondemnationIsOnRecord' /\ OwedFlipsHaveReasons'
<1>0. /\ SharedTableInvariant /\ MonitorTypeOK /\ CondemnationIsOnRecord
      /\ ReasonsComeFirst(todo, events, DemotedBy)
      /\ todo \in Seq(Write) /\ nowWeek \in 1..MaxWeek
  BY DEF LifecycleInvariant, SharedTableInvariant, MonitorTypeOK, OwedFlipsHaveReasons
<1> USE DEF OwedFlipsHaveReasons
<1>1. ASSUME strategies' = strategies, events \subseteq events'
      PROVE  CondemnationIsOnRecord'
  BY <1>0, <1>1 DEF CondemnationIsOnRecord, HasStatus, Stored
<1>2. ASSUME todo' \in Seq(Write), \A i \in 1..Len(todo') : todo'[i].op = "event"
      PROVE  OwedFlipsHaveReasons'
  <2>1. ReasonsComeFirst(todo', events', DemotedBy')
    BY <1>2, ReasonsUnfolded DEF Flip
  <2> QED
    BY <2>1
<1>3. ASSUME todo' = <<>>, UNCHANGED <<strategies, events>>
      PROVE  CondemnationIsOnRecord' /\ OwedFlipsHaveReasons'
  BY <1>1, <1>3, NothingOwed
<1>4. CASE JudgeStrategy
  <2>1. PICK s \in queue : todo' = StrategyWrites(s)
    BY <1>4 DEF JudgeStrategy
  <2>2. s.id \in Ids
    BY <1>0, <1>4 DEF JudgeStrategy, SharedTableInvariant, WatchedAreStrategies
  <2>3. Share(todo', s.id, 1, 3, "decay")
    BY <1>0, <2>1, <2>2, StrategyWritesShare
  <2>4. todo' \in Seq(Write) /\ ReasonsComeFirst(todo', {}, "decay")
    BY <2>3 DEF Share
  <2>5. ReasonsComeFirst(todo', events, "decay")
    BY <2>4, LongerLog
  <2>6. DemotedBy' = "decay"
    BY <1>4 DEF JudgeStrategy, DemotedBy
  <2> QED
    BY <1>1, <1>4, <2>5, <2>6 DEF JudgeStrategy, tableVars
<1>5. CASE WriteEvent
  <2>1. todo # <<>> /\ todo[1].op = "event" /\ events' = events \cup {todo[1].event}
    BY <1>0, <1>5, TailFacts DEF WriteEvent
  <2>2. ReasonsComeFirst(Tail(todo), events', DemotedBy)
    BY <1>0, <2>1, ReasonsSurviveTheHead
  <2>3. DemotedBy' = DemotedBy /\ todo' = Tail(todo)
    BY <1>5 DEF WriteEvent, DemotedBy
  <2> QED
    BY <1>1, <1>5, <2>1, <2>2, <2>3 DEF WriteEvent, tableVars
<1>6. CASE SetStatus
  <2>1. /\ todo # <<>> /\ todo[1].op = "status" /\ 1 \in 1..Len(todo) /\ todo[1] \in Write
        /\ UpdateStatus(todo[1].id, todo[1].status)
    BY <1>0, <1>6, TailFacts DEF SetStatus
  <2>2. ReasonsComeFirst(Tail(todo), events, DemotedBy)
    BY <1>0, <2>1, ReasonsSurviveTheHead
  <2>3. DemotedBy' = DemotedBy /\ todo' = Tail(todo) /\ events' = events
    BY <1>6 DEF SetStatus, DemotedBy
  <2>4. PICK e \in events : IsReason(e, todo[1], DemotedBy)
    BY <1>0, <2>1, ReasonsUnfolded DEF Flip
  <2>5. todo[1].id \in Ids /\ todo[1].status \in Status
    BY <2>1 DEF Write, Status
  <2>6. /\ Stored' = Stored
        /\ \A i \in Ids : i # todo[1].id => strategies'[i] = strategies[i]
        /\ todo[1].id \in Stored => strategies'[todo[1].id].status = todo[1].status
    BY <1>0, <2>1, <2>5, UpdateStatusEffect DEF MonitorTypeOK, TableTypeOK
  <2>7. ASSUME NEW id \in Ids, NEW action \in {"quarantine", "demote"},
               HasStatus(id, StatusOf(action))'
        PROVE  \E x \in events' : x.subject = id /\ x.action = action
    <3>1. CASE id = todo[1].id
      <4>1. StatusOf(e.action) = StatusOf(action) /\ e.subject = id
        BY <2>4, <2>6, <2>7, <3>1 DEF HasStatus, IsReason, StatusOf
      <4>2. e.action \in {"quarantine", "disable", "demote"}
        BY <2>4 DEF IsReason, Condemnations
      <4>3. e.action = action
        BY <4>1, <4>2 DEF StatusOf
      <4> QED
        BY <2>3, <4>1, <4>3
    <3>2. CASE id # todo[1].id
      <4>1. HasStatus(id, StatusOf(action))
        BY <2>6, <2>7, <3>2 DEF HasStatus, StatusOf
      <4> QED
        BY <1>0, <2>3, <4>1 DEF CondemnationIsOnRecord
    <3> QED
      BY <3>1, <3>2
  <2>8. CondemnationIsOnRecord'
    BY <2>7 DEF CondemnationIsOnRecord
  <2> QED
    BY <2>2, <2>3, <2>8
<1>7. ~ Regate
  BY <1>0 DEF Regate, SharedTableInvariant, RegateQueueIsEmpty
<1>8. CASE Staleness
  <2>1. PICK s \in queue : todo' = StalenessWrites(s.id)
    BY <1>8 DEF Staleness
  <2>2. s.id \in Ids \cup Sources
    BY <1>0 DEF MonitorTypeOK
  <2>3. todo' \in Seq(Write) /\ \A i \in 1..Len(todo') : todo'[i].op = "event"
    BY <1>0, <2>1, <2>2, StalenessWritesAre
  <2> QED
    BY <1>1, <1>2, <1>8, <2>3 DEF Staleness, tableVars
<1>9. CASE CountOod
  <2>1. todo' \in Seq(Write) /\ \A i \in 1..Len(todo') : todo'[i].op = "event"
    BY <1>0, <1>9, OodWritesAre
  <2> QED
    BY <1>1, <1>2, <1>9, <2>1 DEF CountOod, tableVars
<1>10. CASE NewWeek \/ \E id \in Ids : TradesMove(id)
  <2>1. UNCHANGED <<strategies, todo, events, mpc>>
    BY <1>10 DEF NewWeek, TradesMove, tableVars, nightVars
  <2> QED
    BY <1>0, <1>1, <2>1 DEF DemotedBy
<1>11. CASE BeginNight
  <2>1. todo' = <<>> /\ UNCHANGED <<strategies, events>>
    BY <1>0, <1>11 DEF BeginNight, tableVars, LifecycleInvariant, NothingOwedAtRest
  <2> QED
    BY <1>3, <2>1
<1>12. CASE LoadRegate \/ LoadFreshness \/ WriteChangelog \/ EndEarly
  <2>1. todo' = <<>> /\ UNCHANGED <<strategies, events>>
    BY <1>12 DEF LoadRegate, LoadFreshness, WriteChangelog, EndEarly, tableVars
  <2> QED
    BY <1>3, <2>1
<1> QED
  BY <1>4, <1>5, <1>6, <1>7, <1>8, <1>9, <1>10, <1>11, <1>12 DEF MonitorNext, Night

LEMMA StepKeepsLifecycle ==
  LifecycleInvariant /\ [LifecycleNext]_lifecycleVars => LifecycleInvariant'
<1> SUFFICES ASSUME LifecycleInvariant, [LifecycleNext]_lifecycleVars
             PROVE  LifecycleInvariant'
  OBVIOUS
<1>1. SharedTableInvariant'
  BY StepKeepsSharedTable DEF LifecycleInvariant
<1>2. CASE UNCHANGED lifecycleVars
  BY <1>1, <1>2
  DEF lifecycleVars, tableVars, monitorLocals, nightVars, LifecycleInvariant,
      CondemnationIsOnRecord, OwedFlipsHaveReasons, NothingOwedAtRest, DemotedBy, HasStatus, Stored
<1>3. CASE SearchNext /\ UNCHANGED monitorLocals
  <2>1. ASSUME NEW id \in Ids, NEW action \in {"quarantine", "demote"},
               HasStatus(id, StatusOf(action))'
        PROVE  \E e \in events' : e.subject = id /\ e.action = action
    <3>1. StatusOf(action) \in {"quarantined", "demoted"}
      BY DEF StatusOf
    <3>2. HasStatus(id, StatusOf(action))
      BY <1>3, <2>1, <3>1, SearchNeverQuarantines
      DEF LifecycleInvariant, SharedTableInvariant
    <3> QED
      BY <1>3, <3>2 DEF LifecycleInvariant, CondemnationIsOnRecord, monitorLocals
  <2>2. CondemnationIsOnRecord'
    BY <2>1 DEF CondemnationIsOnRecord
  <2> QED
    BY <1>1, <1>3, <2>2
    DEF LifecycleInvariant, OwedFlipsHaveReasons, NothingOwedAtRest, DemotedBy, monitorLocals,
        nightVars
<1> QED
  BY <1>1, <1>2, <1>3, MonitorKeepsTheRecord, NothingIsOwedAtRest
  DEF LifecycleNext, LifecycleInvariant

-----------------------------------------------------------------------------
(* The searches' invariant, the monitor's state and its record hold of     *)
(* every behaviour of any number of searches beside a monitor.             *)
THEOREM LifecycleIsInvariant == LifecycleSpec => []LifecycleInvariant
<1>1. LifecycleInit => LifecycleInvariant
  <2> SUFFICES ASSUME LifecycleInit PROVE LifecycleInvariant
    OBVIOUS
  <2>1. SharedTableInvariant
    BY InitSatisfiesSharedTable
  <2>2. Stored = {} /\ todo = <<>>
    BY DEF LifecycleInit, SearchInit, TableInit, Stored, MonitorLocalInit
  <2> QED
    BY <2>1, <2>2, NothingOwed
    DEF LifecycleInvariant, CondemnationIsOnRecord, OwedFlipsHaveReasons, NothingOwedAtRest,
        HasStatus
<1> QED
  BY <1>1, StepKeepsLifecycle, PTL DEF LifecycleSpec

(* However searches and nights interleave, what may surface signals has a  *)
(* newest score that passed the gate and the promotion guardrails.         *)
THEOREM PromotionIsEarnedBesideTheMonitor == LifecycleSpec => []PromotedHasPassingScore
<1>1. LifecycleInvariant => PromotedHasPassingScore
  BY DEF LifecycleInvariant, SharedTableInvariant, SearchInvariant
<1> QED
  BY <1>1, LifecycleIsInvariant, PTL

(* A strategy is quarantined or demoted only with its event on record,     *)
(* also where a search writes the row between the event and the flip.      *)
THEOREM CondemnationsAreOnRecord == LifecycleSpec => []CondemnationIsOnRecord
<1>1. LifecycleInvariant => CondemnationIsOnRecord
  BY DEF LifecycleInvariant
<1> QED
  BY <1>1, LifecycleIsInvariant, PTL

(* A night between two statements of a search takes nothing from the       *)
(* scoreboard a crash of the search leaves behind.                         *)
THEOREM ScoreboardSurvivesTheMonitor == LifecycleSpec => []ScoreboardDurable
<1>1. LifecycleInit => ScoreboardDurable
  BY DEF LifecycleInit, SearchInit, ScoreboardDurable
<1>2. LifecycleInvariant /\ ScoreboardDurable /\ [LifecycleNext]_lifecycleVars
        => ScoreboardDurable'
  <2> SUFFICES ASSUME LifecycleInvariant, ScoreboardDurable, [LifecycleNext]_lifecycleVars
               PROVE  ScoreboardDurable'
    OBVIOUS
  <2>1. CASE UNCHANGED <<runVars, oosLatest>>
    BY <2>1 DEF ScoreboardDurable, History, runVars
  <2>2. CASE SearchNext
    BY <2>2, DurableStep DEF SearchNext, LifecycleInvariant, SharedTableInvariant
  <2>3. CASE MonitorNext /\ UNCHANGED runVars
    <3>1. UNCHANGED oosLatest
      BY <2>3
      DEF MonitorNext, Night, BeginNight, JudgeStrategy, WriteEvent, SetStatus, LoadRegate,
          Regate, LoadFreshness, Staleness, CountOod, WriteChangelog, EndEarly, NewWeek,
          TradesMove, tableVars
    <3> QED
      BY <2>1, <2>3, <3>1
  <2> QED
    BY <2>1, <2>2, <2>3 DEF LifecycleNext, lifecycleVars, tableVars
<1> QED
  BY <1>1, <1>2, LifecycleIsInvariant, PTL DEF LifecycleSpec

-----------------------------------------------------------------------------
(* A search writes a stored row only under an id it holds.                 *)
LEMMA SearchWritesItsOwnRows ==
  ASSUME SearchInvariant, NEW r \in Runs, Evolve(r) \/ Abort(r),
         NEW p \in Stored, strategies'[p] # strategies[p]
  PROVE  pc[r] \notin {"done", "crashed"} /\ \E g \in Genomes : idFor[r][g] = p
<1>0. SearchTypeOK /\ StoredIsMinted /\ RunInvariant(r) /\ p \in Ids
  BY DEF SearchInvariant, Stored
<1>1. CASE EvaluateAndUpsert(r)
  <2> DEFINE g == cohort[r][pos[r]]
  <2>1. PICK id \in IdChoices(r, g) :
          /\ g \in Genomes
          /\ strategies' = [strategies EXCEPT ![id] = [genome |-> g, status |-> "candidate"]]
    BY <1>1, EvaluateAndUpsertEffect
  <2>2. p = id
    BY <1>0, <2>1 DEF SearchTypeOK, TableTypeOK
  <2>3. PICK q \in Runs, h \in Genomes : idFor[q][h] = id
    BY <1>0, <2>2 DEF StoredIsMinted, Minted
  <2>4. q = r /\ h = g
    BY <2>1, <2>3, ChosenIdIsOwn
  <2> QED
    BY <1>1, <2>1, <2>2, <2>3, <2>4 DEF EvaluateAndUpsert
<1>2. CASE Select(r)
  <2>1. /\ pos[r] \in 1..Len(evaluated[r])
        /\ evaluated[r][pos[r]] \in Evaluated
        /\ \/ strategies' = strategies
           \/ \E st \in {"promoted", "retired"} :
                strategies' = [strategies EXCEPT ![evaluated[r][pos[r]].id] =
                                 [@ EXCEPT !.status = st]]
    BY <1>2, SelectEffect DEF SearchInvariant
  <2>2. p = evaluated[r][pos[r]].id
    BY <1>0, <2>1 DEF SearchTypeOK, TableTypeOK
  <2>3. idFor[r][evaluated[r][pos[r]].genome] = p /\ evaluated[r][pos[r]].genome \in Genomes
    BY <1>0, <2>1, <2>2 DEF RunInvariant, OwnIds, Evaluated
  <2> QED
    BY <1>2, <2>3 DEF Select, Selecting
<1> QED
  BY <1>1, <1>2
  DEF Evolve, Abort, Begin, NextGeneration, InsertScore, FinishGeneration, tableVars

(* When the run that found a strategy has ended, what the monitor has      *)
(* condemned stays condemned, whatever other searches and nights overlap.  *)
THEOREM VerdictsOutliveTheirRuns == LifecycleSpec => VerdictOutlivesTheRun
<1>1. LifecycleInvariant /\ [LifecycleNext]_lifecycleVars =>
        [\A id \in Ids : Condemned(id) /\ Holders(id) = {} => Condemned(id)']_lifecycleVars
  <2> SUFFICES ASSUME LifecycleInvariant, LifecycleNext,
                      NEW id \in Ids, Condemned(id), Holders(id) = {}
               PROVE  Condemned(id)'
    BY Zenon
  <2>1. id \in Stored
    BY DEF Condemned, HasStatus
  <2>2. CASE strategies'[id] = strategies[id]
    BY <2>2 DEF Condemned, HasStatus, Stored
  <2>3. CASE SearchNext
    <3>1. PICK r \in Runs : Evolve(r) \/ Abort(r)
      BY <2>3 DEF SearchNext
    <3>2. strategies'[id] = strategies[id]
      BY <2>1, <3>1, SearchWritesItsOwnRows DEF Holders, LifecycleInvariant, SharedTableInvariant
    <3> QED
      BY <2>2, <3>2
  <2>4. CASE SetStatus
    <3>1. /\ Stored' = Stored
          /\ \/ strategies'[id] = strategies[id]
             \/ strategies'[id].status \in {"quarantined", "demoted", "retired"}
      BY <2>4, SetStatusCondemns DEF LifecycleInvariant
    <3> QED
      BY <2>1, <2>2, <3>1 DEF Condemned, HasStatus
  <2>5. CASE MonitorNext /\ ~ SetStatus
    <3>1. strategies' = strategies
      BY <2>5
      DEF MonitorNext, Night, BeginNight, JudgeStrategy, WriteEvent, LoadRegate, Regate,
          LoadFreshness, Staleness, CountOod, WriteChangelog, EndEarly, NewWeek, TradesMove,
          tableVars
    <3> QED
      BY <2>2, <3>1
  <2> QED
    BY <2>3, <2>4, <2>5 DEF LifecycleNext
<1> QED
  BY <1>1, LifecycleIsInvariant, PTL DEF LifecycleSpec, VerdictOutlivesTheRun
=============================================================================
