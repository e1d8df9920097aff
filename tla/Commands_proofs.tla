-------------------------- MODULE Commands_proofs --------------------------
(***************************************************************************)
(* Proofs about the three commands that own their table, for every number  *)
(* of strategies, scanners, processes, commands, days and revisions: first *)
(* se test-era-score, then se trades, then se scan and the reads of the    *)
(* point-in-time store, then the three side by side.                       *)
(***************************************************************************)
EXTENDS Commands, FiniteSetTheorems, SequenceTheorems, TLAPS

Pcs == {"off", "check", "evaluate", "insert", "report"}

(* CheckRow's two outcomes, ReportGap's and EvaluateEra's, are kept apart  *)
(* by the case distinctions of the proofs; the type of one process:        *)
ScorerType ==
  [pc : Pcs, cmd : 0..MaxCommands, todo : SUBSET EraStrategies,
   held : EraStrategies \cup {Nothing}]

(* A process past the check has a strategy in hand, and a running process  *)
(* has a command number that names a result.                               *)
HoldsItsWork ==
  \A p \in Scorers :
    /\ scorer[p].pc \in {"evaluate", "insert", "report"} => scorer[p].held \in EraStrategies
    /\ scorer[p].pc # "off" => scorer[p].cmd \in Commands

EraInvariant == EraTypeOK /\ HoldsItsWork

-----------------------------------------------------------------------------
(* Every state the command reaches is typed, and whoever evaluates,        *)
(* inserts or reports has a strategy and a numbered command.               *)
THEOREM EraIsInvariant == EraSpec => []EraInvariant
<1>1. EraInit => EraInvariant
  <2> SUFFICES ASSUME EraInit PROVE EraInvariant
    OBVIOUS
  <2>1. 0 \in 0..MaxCommands
    BY TestEraAssumption DEF TestEraAssumption
  <2>2. Off \in ScorerType
    BY <2>1 DEF Off, ScorerType, Pcs
  <2>3. EraTypeOK
    BY <2>1, <2>2 DEF EraInit, EraTypeOK, ScorerType, Pcs
  <2>4. HoldsItsWork
    BY DEF EraInit, HoldsItsWork, Off
  <2> QED
    BY <2>3, <2>4 DEF EraInvariant
<1>2. EraInvariant /\ [EraNext]_eraVars => EraInvariant'
  <2> SUFFICES ASSUME EraInvariant, [EraNext]_eraVars PROVE EraInvariant'
    OBVIOUS
  <2> USE TestEraAssumption DEF TestEraAssumption, EraInvariant, EraTypeOK, HoldsItsWork, Commands
  <2>1. ASSUME NEW s \in EraStrategies, Reassessed(s) PROVE EraInvariant'
    BY <2>1 DEF Reassessed
  <2>2. ASSUME NEW p \in Scorers, BeginScoring(p) PROVE EraInvariant'
    BY <2>2 DEF BeginScoring
  <2>3. ASSUME NEW p \in Scorers, NEW s \in EraStrategies, CheckRow(p, s) PROVE EraInvariant'
    BY <2>3 DEF CheckRow
  <2>4. ASSUME NEW p \in Scorers, EvaluateEra(p) PROVE EraInvariant'
    BY <2>4 DEF EvaluateEra
  <2>5. ASSUME NEW p \in Scorers, InsertEra(p) PROVE EraInvariant'
    BY <2>5 DEF InsertEra, AfterInsert
  <2>6. ASSUME NEW p \in Scorers, ReportGap(p) PROVE EraInvariant'
    BY <2>6 DEF ReportGap
  <2>7. ASSUME NEW p \in Scorers, EndScoring(p) PROVE EraInvariant'
    BY <2>7 DEF EndScoring, Off
  <2>8. ASSUME NEW p \in Scorers, StopScoring(p) PROVE EraInvariant'
    BY <2>8 DEF StopScoring, Off
  <2>9. CASE UNCHANGED eraVars
    BY <2>9 DEF eraVars
  <2> QED
    BY <2>1, <2>2, <2>3, <2>4, <2>5, <2>6, <2>7, <2>8, <2>9 DEF EraNext
<1> QED
  BY <1>1, <1>2, PTL DEF EraSpec

-----------------------------------------------------------------------------
(* Two commands may look at the era at the same time and a command may     *)
(* give up, and still a result is recorded at most once and no command     *)
(* opens the era for a strategy that has one: `se test-era-score`          *)
(* implements OnceOnly.                                                    *)
LEMMA OpeningIsOpen ==
  ASSUME EraInvariant, NEW p \in Scorers, NEW s \in EraStrategies, CheckRow(p, s)
  PROVE  [Once!OnceNext]_Once!onceVars
<1> USE DEF EraInvariant, EraTypeOK, Looking
<1>1. CASE scorer' = [scorer EXCEPT ![p].todo = @ \ {s}]
  BY <1>1 DEF CheckRow, Once!onceVars
<1>2. CASE /\ MayRead(s)
           /\ scorer' = [scorer EXCEPT ![p].pc = "evaluate", ![p].held = s,
                                       ![p].todo = @ \ {s}]
  <2>1. Looking' = Looking \cup {<<p, s>>}
    BY <1>2 DEF CheckRow
  <2>2. <<p, s>> \notin Looking
    BY DEF CheckRow
  <2>3. Once!Open(p, s)
    BY <1>2, <2>1, <2>2 DEF CheckRow, MayRead, Once!Open
  <2> QED
    BY <2>3 DEF Once!OnceNext
<1> QED
  BY <1>1, <1>2 DEF CheckRow

(* The end of a reading, by its insert, its failure or a kill, closes it.  *)
LEMMA ClosingIsClose ==
  ASSUME EraInvariant, NEW p \in Scorers, scorer[p].pc \in {"evaluate", "insert"},
         scorer'[p].pc \notin {"evaluate", "insert"},
         scorer' = [scorer EXCEPT ![p] = scorer'[p]],
         \/ UNCHANGED testEra
         \/ /\ testEra[scorer[p].held] = Nothing
            /\ \E x \in Commands : testEra' = [testEra EXCEPT ![scorer[p].held] = x]
  PROVE  Once!OnceNext
<1> USE DEF EraInvariant, EraTypeOK, Looking, HoldsItsWork
<1>1. <<p, scorer[p].held>> \in Looking /\ scorer[p].held \in EraStrategies
  OBVIOUS
<1>2. Looking' = Looking \ {<<p, scorer[p].held>>}
  OBVIOUS
<1>3. Once!Close(p, scorer[p].held)
  BY <1>1, <1>2 DEF Once!Close
<1> HIDE DEF EraInvariant, EraTypeOK, Looking, HoldsItsWork
<1> QED
  BY <1>1, <1>3 DEF Once!OnceNext

THEOREM TestEraImplementsOnceOnly == EraSpec => EraIsOnceOnly
<1>1. EraInit => Once!OnceInit
  BY DEF EraInit, Once!OnceInit, Looking, Off
<1>2. EraInvariant /\ [EraNext]_eraVars => [Once!OnceNext]_Once!onceVars
  <2> SUFFICES ASSUME EraInvariant, [EraNext]_eraVars
               PROVE  [Once!OnceNext]_Once!onceVars
    OBVIOUS
  <2> USE DEF EraInvariant, EraTypeOK
  <2>1. ASSUME NEW s \in EraStrategies, Reassessed(s) PROVE UNCHANGED Once!onceVars
    BY <2>1 DEF Reassessed, Once!onceVars, Looking
  <2>2. ASSUME NEW p \in Scorers, BeginScoring(p) PROVE UNCHANGED Once!onceVars
    BY <2>2 DEF BeginScoring, Once!onceVars, Looking
  <2>3. ASSUME NEW p \in Scorers, EvaluateEra(p) PROVE [Once!OnceNext]_Once!onceVars
    <3>1. CASE scorer' = [scorer EXCEPT ![p].pc = "insert"]
      BY <2>3, <3>1 DEF EvaluateEra, Once!onceVars, Looking
    <3>2. CASE scorer' = [scorer EXCEPT ![p].pc = "check", ![p].held = Nothing]
      BY <2>3, <3>2, ClosingIsClose DEF EvaluateEra
    <3> QED
      BY <2>3, <3>1, <3>2 DEF EvaluateEra
  <2>4. ASSUME NEW p \in Scorers, InsertEra(p) PROVE [Once!OnceNext]_Once!onceVars
    <3>1. scorer[p].held \in EraStrategies /\ scorer[p].cmd \in Commands
      BY <2>4 DEF InsertEra, HoldsItsWork
    <3>2. \/ UNCHANGED testEra
          \/ /\ testEra[scorer[p].held] = Nothing
             /\ \E x \in Commands : testEra' = [testEra EXCEPT ![scorer[p].held] = x]
      BY <2>4, <3>1 DEF InsertEra, AfterInsert
    <3> QED
      BY <2>4, <3>2, ClosingIsClose DEF InsertEra
  <2>5. ASSUME NEW p \in Scorers, ReportGap(p) \/ EndScoring(p)
        PROVE  UNCHANGED Once!onceVars
    BY <2>5 DEF ReportGap, EndScoring, Off, Once!onceVars, Looking
  <2>6. ASSUME NEW p \in Scorers, StopScoring(p) PROVE [Once!OnceNext]_Once!onceVars
    <3>1. CASE scorer[p].pc \in {"evaluate", "insert"}
      BY <2>6, <3>1, ClosingIsClose DEF StopScoring, Off
    <3>2. CASE scorer[p].pc \notin {"evaluate", "insert"}
      BY <2>6, <3>2 DEF StopScoring, Off, Once!onceVars, Looking
    <3> QED
      BY <3>1, <3>2
  <2>7. CASE UNCHANGED eraVars
    BY <2>7 DEF eraVars, Once!onceVars, Looking
  <2> QED
    BY <2>1, <2>2, <2>3, <2>4, <2>5, <2>6, <2>7, OpeningIsOpen DEF EraNext
<1> QED
  BY <1>1, <1>2, EraIsInvariant, PTL DEF EraSpec, EraIsOnceOnly, Once!OnceSpec

-----------------------------------------------------------------------------
(* Why nothing quiet reads twice: there is one running command; what it    *)
(* evaluates is unread and unrecorded, what it inserts is read once and    *)
(* unrecorded, what it reports is recorded under its own number, and what  *)
(* is read and not being inserted is recorded.                             *)
OneCommandAtATime ==
  \A p, q \in Scorers : scorer[p].pc # "off" /\ scorer[q].pc # "off" => p = q

HoldersKnow ==
  \A p \in Scorers :
    /\ scorer[p].pc = "evaluate" =>
         readings[scorer[p].held] = 0 /\ testEra[scorer[p].held] = Nothing
    /\ scorer[p].pc = "insert" =>
         readings[scorer[p].held] = 1 /\ testEra[scorer[p].held] = Nothing
    /\ scorer[p].pc = "report" => testEra[scorer[p].held] = scorer[p].cmd

ReadIsKept ==
  \A s \in EraStrategies :
    /\ readings[s] <= 1
    /\ readings[s] = 1 /\ testEra[s] = Nothing =>
         \E p \in Scorers : scorer[p].pc = "insert" /\ scorer[p].held = s

GapsAreOnRecord == \A g \in gapOf : testEra[g[2]] = g[1]

QuietInvariant ==
  ~disturbed => OneCommandAtATime /\ HoldersKnow /\ ReadIsKept /\ GapsAreOnRecord

(* Undisturbed commands read the era at most once for a strategy, lose no  *)
(* reading, and print only gaps to the result on record, however many of   *)
(* them are run and whatever is promoted or demoted in between.            *)
THEOREM QuietReadingIsSingle == EraSpec => []QuietEraIsReadOnce
<1>1. EraInit => QuietInvariant
  BY DEF EraInit, QuietInvariant, OneCommandAtATime, HoldersKnow, ReadIsKept,
         GapsAreOnRecord, Off
<1>2. EraInvariant /\ QuietInvariant /\ [EraNext]_eraVars => QuietInvariant'
  <2> SUFFICES ASSUME EraInvariant, QuietInvariant, [EraNext]_eraVars, ~disturbed'
               PROVE  OneCommandAtATime' /\ HoldersKnow' /\ ReadIsKept' /\ GapsAreOnRecord'
    BY DEF QuietInvariant
  <2>0. ~disturbed /\ OneCommandAtATime /\ HoldersKnow /\ ReadIsKept /\ GapsAreOnRecord
    BY DEF QuietInvariant, EraNext, Reassessed, BeginScoring, CheckRow, EvaluateEra, InsertEra,
           ReportGap, EndScoring, StopScoring, eraVars, EraInvariant, EraTypeOK
  <2> USE <2>0 DEF EraInvariant, EraTypeOK, HoldsItsWork
  <2>1. ASSUME NEW s \in EraStrategies, Reassessed(s)
        PROVE  UNCHANGED <<scorer, testEra, readings, gapOf>>
    BY <2>1 DEF Reassessed
  <2>2. ASSUME NEW p \in Scorers, BeginScoring(p)
        PROVE  OneCommandAtATime' /\ HoldersKnow' /\ ReadIsKept' /\ GapsAreOnRecord'
    <3>1. \A q \in Scorers : scorer[q].pc = "off"
      BY <2>2 DEF BeginScoring
    <3>2. \A q \in Scorers : scorer'[q].pc = IF q = p THEN "check" ELSE "off"
      BY <2>2, <3>1 DEF BeginScoring
    <3> QED
      BY <2>2, <3>1, <3>2 DEF BeginScoring, OneCommandAtATime, HoldersKnow, ReadIsKept,
                              GapsAreOnRecord
  <2>3. ASSUME NEW p \in Scorers, NEW s \in EraStrategies, CheckRow(p, s)
        PROVE  OneCommandAtATime' /\ HoldersKnow' /\ ReadIsKept' /\ GapsAreOnRecord'
    <3>1. \A q \in Scorers : scorer[q].pc # "off" => q = p
      BY <2>3 DEF CheckRow, OneCommandAtATime
    <3>2. testEra[s] = Nothing => readings[s] = 0
      <4>1. \A q \in Scorers : scorer[q].pc # "insert"
        BY <2>3, <3>1 DEF CheckRow
      <4>2. readings[s] \in Nat
        OBVIOUS
      <4> QED
        BY <4>1, <4>2 DEF ReadIsKept
    <3>3. OneCommandAtATime' /\ GapsAreOnRecord'
      BY <2>3 DEF CheckRow, OneCommandAtATime, GapsAreOnRecord
    <3>4. HoldersKnow'
      BY <2>3, <3>1, <3>2 DEF CheckRow, MayRead, HoldersKnow
    <3>5. ReadIsKept'
      BY <2>3, <3>1 DEF CheckRow, ReadIsKept
    <3> QED
      BY <3>3, <3>4, <3>5
  <2>4. ASSUME NEW p \in Scorers, EvaluateEra(p)
        PROVE  OneCommandAtATime' /\ HoldersKnow' /\ ReadIsKept' /\ GapsAreOnRecord'
    <3>1. \A q \in Scorers : scorer[q].pc # "off" => q = p
      BY <2>4 DEF EvaluateEra, OneCommandAtATime
    <3>2. OneCommandAtATime' /\ GapsAreOnRecord'
      BY <2>4 DEF EvaluateEra, OneCommandAtATime, GapsAreOnRecord
    <3>3. HoldersKnow'
      BY <2>4, <3>1 DEF EvaluateEra, HoldersKnow
    <3>4. ReadIsKept'
      BY <2>4, <3>1 DEF EvaluateEra, HoldersKnow, ReadIsKept
    <3> QED
      BY <3>2, <3>3, <3>4
  <2>5. ASSUME NEW p \in Scorers, InsertEra(p)
        PROVE  OneCommandAtATime' /\ HoldersKnow' /\ ReadIsKept' /\ GapsAreOnRecord'
    <3>1. \A q \in Scorers : scorer[q].pc # "off" => q = p
      BY <2>5 DEF InsertEra, OneCommandAtATime
    <3>2. testEra[scorer[p].held] = Nothing /\ scorer[p].held \in EraStrategies
      BY <2>5 DEF InsertEra, HoldersKnow
    <3>3. testEra' = [testEra EXCEPT ![scorer[p].held] = scorer[p].cmd]
      BY <2>5, <3>2 DEF InsertEra, AfterInsert
    <3>4. \A g \in gapOf : testEra[g[2]] # Nothing
      BY TestEraAssumption DEF TestEraAssumption, GapsAreOnRecord, Commands
    <3>5. OneCommandAtATime'
      BY <2>5 DEF InsertEra, OneCommandAtATime
    <3>6. GapsAreOnRecord'
      BY <2>5, <3>2, <3>3, <3>4 DEF InsertEra, GapsAreOnRecord
    <3>7. HoldersKnow'
      BY <2>5, <3>1, <3>2, <3>3 DEF InsertEra, HoldersKnow
    <3>8. ReadIsKept'
      BY <2>5, <3>1, <3>2, <3>3, TestEraAssumption
         DEF InsertEra, ReadIsKept, TestEraAssumption, Commands
    <3> QED
      BY <3>5, <3>6, <3>7, <3>8
  <2>6. ASSUME NEW p \in Scorers, ReportGap(p)
        PROVE  OneCommandAtATime' /\ HoldersKnow' /\ ReadIsKept' /\ GapsAreOnRecord'
    BY <2>6 DEF ReportGap, OneCommandAtATime, HoldersKnow, ReadIsKept, GapsAreOnRecord
  <2>7. ASSUME NEW p \in Scorers, EndScoring(p)
        PROVE  OneCommandAtATime' /\ HoldersKnow' /\ ReadIsKept' /\ GapsAreOnRecord'
    BY <2>7 DEF EndScoring, Off, OneCommandAtATime, HoldersKnow, ReadIsKept, GapsAreOnRecord
  <2>8. \A p \in Scorers : ~StopScoring(p)
    BY DEF StopScoring
  <2>9. ASSUME UNCHANGED <<scorer, testEra, readings, gapOf>>
        PROVE  OneCommandAtATime' /\ HoldersKnow' /\ ReadIsKept' /\ GapsAreOnRecord'
    BY <2>9 DEF OneCommandAtATime, HoldersKnow, ReadIsKept, GapsAreOnRecord
  <2> QED
    BY <2>1, <2>2, <2>3, <2>4, <2>5, <2>6, <2>7, <2>8, <2>9 DEF EraNext, eraVars
<1>3. EraInvariant /\ QuietInvariant => QuietEraIsReadOnce
  BY DEF QuietInvariant, QuietEraIsReadOnce, ReadIsKept, GapsAreOnRecord
<1> QED
  BY <1>1, <1>2, <1>3, EraIsInvariant, PTL DEF EraSpec

-----------------------------------------------------------------------------
(* The backtest journal of a scanner.                                      *)
BacktestIn(rows, market) == {row \in rows : row.mode = "backtest" /\ row.scanner = market}

(* The entries a command has inserted are the backtest journal.            *)
Inserted(rows, command) ==
  /\ command.todo \subseteq command.replay
  /\ BacktestIn(rows, command.scanner)
       = {EntryRow(command, e) : e \in command.replay \ command.todo}

(* An undisturbed process runs, and nobody else replays its scanner.       *)
AloneIsAlone ==
  \A p \in alone :
    /\ replayer[p].pc # "off"
    /\ \A q \in Replayers : q # p /\ replayer[q].pc # "off" =>
         replayer[q].scanner # replayer[p].scanner

(* What it has inserted is the whole backtest journal of its scanner.      *)
InsertedSoFar ==
  \A p \in alone : replayer[p].pc = "insert" => Inserted(journal, replayer[p])

(* A command clears before it has inserted anything.                       *)
ClearFirst ==
  \A p \in Replayers : replayer[p].pc = "clear" => replayer[p].todo = replayer[p].replay

ReplayInvariant == TradeTypeOK /\ AloneIsAlone /\ ClearFirst /\ InsertedSoFar

-----------------------------------------------------------------------------
(* The commands keep the declared types, bindings and row columns alike.   *)
LEMMA TradesAreTyped == TradeSpec => []TradeTypeOK
<1>1. TradeInit => TradeTypeOK
  <2> SUFFICES ASSUME TradeInit PROVE TradeTypeOK
    OBVIOUS
  <2>1. 0 \in 0..MaxReplays /\ Rest0.scanner \in Scanners
    BY TradeReplayAssumption DEF TradeReplayAssumption, Rest0
  <2>2. Rest0 \in [pc : {"off", "clear", "insert"}, cmd : 0..MaxReplays,
                   scanner : Scanners, replay : SUBSET Entries, todo : SUBSET Entries]
    BY <2>1 DEF Rest0
  <2> QED
    BY <2>1, <2>2 DEF TradeInit, TradeTypeOK
<1>2. TradeTypeOK /\ [TradeNext]_tradeVars => TradeTypeOK'
  <2> SUFFICES ASSUME TradeTypeOK, [TradeNext]_tradeVars PROVE TradeTypeOK'
    OBVIOUS
  <2>0. Rest0 \in [pc : {"off", "clear", "insert"}, cmd : 0..MaxReplays,
                   scanner : Scanners, replay : SUBSET Entries, todo : SUBSET Entries]
    BY TradeReplayAssumption DEF TradeReplayAssumption, Rest0
  <2> USE TradeReplayAssumption DEF TradeReplayAssumption, TradeTypeOK
  <2>1. ASSUME NEW s \in TradeStrategies, Replaced(s) PROVE TradeTypeOK'
    BY <2>1 DEF Replaced
  <2>2. ASSUME NEW s \in TradeStrategies, PersistPaper(s) PROVE TradeTypeOK'
    <3>1. [mode |-> "paper", scanner |-> Profile[s].scanner, strategy |-> s, by |-> 0,
           n |-> 1] \in TradeRow
      BY DEF TradeRow
    <3> QED
      BY <2>2, <3>1 DEF PersistPaper
  <2>3. ASSUME NEW p \in Replayers, NEW market \in Scanners, NEW horizon \in Horizons,
               BeginReplay(p, market, horizon)
        PROVE  TradeTypeOK'
    <3>1. PICK replay \in SUBSET Entries :
            replayer' = [replayer EXCEPT ![p] =
              [pc |-> "clear", cmd |-> replays + 1, scanner |-> market,
               replay |-> replay, todo |-> replay]]
      BY <2>3 DEF BeginReplay
    <3>2. replays + 1 \in 0..MaxReplays
      BY <2>3 DEF BeginReplay
    <3>3. alone' \subseteq Replayers
      BY <2>3 DEF BeginReplay
    <3> QED
      BY <2>3, <3>1, <3>2, <3>3 DEF BeginReplay
  <2>4. ASSUME NEW p \in Replayers, ClearTrades(p) PROVE TradeTypeOK'
    BY <2>4 DEF ClearTrades, Cleared
  <2>5. ASSUME NEW p \in Replayers, InsertTrade(p) PROVE TradeTypeOK'
    <3>1. PICK e \in replayer[p].todo :
            /\ journal' = journal \cup NewRows(p, e)
            /\ replayer' = [replayer EXCEPT ![p].todo = @ \ {e}]
      BY <2>5 DEF InsertTrade
    <3>2. EntryRow(replayer[p], e) \in TradeRow
      BY <3>1 DEF EntryRow, TradeRow, Entries
    <3> QED
      BY <2>5, <3>1, <3>2 DEF InsertTrade, NewRows
  <2>6. ASSUME NEW p \in Replayers, EndReplay(p) \/ StopReplay(p) PROVE TradeTypeOK'
    BY <2>0, <2>6 DEF EndReplay, StopReplay
  <2>7. CASE UNCHANGED tradeVars
    BY <2>7 DEF tradeVars
  <2> QED
    BY <2>1, <2>2, <2>3, <2>4, <2>5, <2>6, <2>7 DEF TradeNext
<1> QED
  BY <1>1, <1>2, PTL DEF TradeSpec

(* A paper trade is never lost, and a backtest row only to a replay of its *)
(* own scanner: the one DELETE names both columns.                         *)
THEOREM OnlyItsScannerIsTouched == TradeSpec => ReplayTouchesItsScannerOnly
<1> DEFINE Touch ==
      \A row \in journal \ journal' :
        /\ row.mode = "backtest"
        /\ \E p \in Replayers : /\ replayer[p].scanner = row.scanner
                                /\ replayer[p].pc = "clear"
<1>1. [TradeNext]_tradeVars => [Touch]_tradeVars
  <2> SUFFICES ASSUME [TradeNext]_tradeVars PROVE Touch
    OBVIOUS
  <2>1. ASSUME NEW p \in Replayers, ClearTrades(p) PROVE Touch
    BY <2>1 DEF ClearTrades, Cleared
  <2>2. CASE \A p \in Replayers : ~ClearTrades(p)
    BY <2>2 DEF TradeNext, tradeVars, Replaced, PersistPaper, BeginReplay, InsertTrade,
               EndReplay, StopReplay
  <2> QED
    BY <2>1, <2>2
<1> QED
  BY <1>1, PTL DEF TradeSpec, ReplayTouchesItsScannerOnly

-----------------------------------------------------------------------------
(* An undisturbed replay leaves exactly its entries, each once, whatever   *)
(* earlier commands left half done, whatever is written meanwhile, and     *)
(* however many commands of other scanners run beside it.                  *)
THEOREM ReplayIsExact == TradeSpec => []LoneReplayIsExact
<1>1. TradeInit => AloneIsAlone /\ ClearFirst /\ InsertedSoFar
  BY DEF TradeInit, AloneIsAlone, ClearFirst, InsertedSoFar, Rest0
<1>2. ReplayInvariant /\ [TradeNext]_tradeVars => AloneIsAlone' /\ ClearFirst' /\ InsertedSoFar'
  <2> SUFFICES ASSUME ReplayInvariant, [TradeNext]_tradeVars
               PROVE  AloneIsAlone' /\ ClearFirst' /\ InsertedSoFar'
    OBVIOUS
  <2> USE DEF ReplayInvariant, TradeTypeOK
  <2>1. ASSUME NEW s \in TradeStrategies, Replaced(s)
        PROVE  AloneIsAlone' /\ ClearFirst' /\ InsertedSoFar'
    BY <2>1 DEF Replaced, AloneIsAlone, ClearFirst, InsertedSoFar
  <2>2. ASSUME NEW s \in TradeStrategies, PersistPaper(s)
        PROVE  AloneIsAlone' /\ ClearFirst' /\ InsertedSoFar'
    <3>1. \A market : BacktestIn(journal', market) = BacktestIn(journal, market)
      BY <2>2 DEF PersistPaper, BacktestIn
    <3>2. AloneIsAlone' /\ ClearFirst'
      BY <2>2 DEF PersistPaper, AloneIsAlone, ClearFirst
    <3>3. \A p \in alone : Inserted(journal, replayer[p]) => Inserted(journal', replayer[p])
      BY <3>1 DEF Inserted
    <3>4. InsertedSoFar'
      BY <2>2, <3>3 DEF PersistPaper, InsertedSoFar
    <3> QED
      BY <3>2, <3>4
  <2>3. ASSUME NEW p \in Replayers, NEW market \in Scanners, NEW horizon \in Horizons,
               BeginReplay(p, market, horizon)
        PROVE  AloneIsAlone' /\ ClearFirst' /\ InsertedSoFar'
    <3>1. PICK replay \in SUBSET Entries :
            replayer' = [replayer EXCEPT ![p] =
              [pc |-> "clear", cmd |-> replays + 1, scanner |-> market,
               replay |-> replay, todo |-> replay]]
      BY <2>3 DEF BeginReplay
    <3>0. /\ replayer[p].pc = "off"
          /\ alone' = {q \in alone : replayer[q].scanner # market}
                        \cup {q \in {p} : \A r \in Replayers :
                                replayer[r].pc # "off" => replayer[r].scanner # market}
      BY <2>3 DEF BeginReplay
    <3>2. \A q \in alone' : q # p => q \in alone /\ replayer[q].scanner # market
      BY <3>0
    <3>3. p \in alone' =>
            \A q \in Replayers : replayer[q].pc # "off" => replayer[q].scanner # market
      <4>1. p \notin alone
        BY <3>0 DEF AloneIsAlone
      <4> QED
        BY <3>0, <4>1
    <3>4. alone' \subseteq Replayers
      BY <2>3 DEF BeginReplay
    <3>5. AloneIsAlone'
      BY <3>1, <3>2, <3>3, <3>4 DEF AloneIsAlone
    <3>6. ClearFirst'
      BY <3>1 DEF ClearFirst
    <3>7. InsertedSoFar'
      BY <2>3, <3>1, <3>2, <3>4 DEF BeginReplay, InsertedSoFar
    <3> QED
      BY <3>5, <3>6, <3>7
  <2>4. ASSUME NEW p \in Replayers, ClearTrades(p)
        PROVE  AloneIsAlone' /\ ClearFirst' /\ InsertedSoFar'
    <3>1. AloneIsAlone' /\ ClearFirst'
      BY <2>4 DEF ClearTrades, AloneIsAlone, ClearFirst
    <3>2. ASSUME NEW q \in alone, q # p, replayer[q].pc = "insert"
          PROVE  Inserted(journal', replayer[q])
      <4>1. replayer[p].scanner # replayer[q].scanner
        BY <2>4, <3>2 DEF ClearTrades, AloneIsAlone
      <4>2. BacktestIn(journal', replayer[q].scanner) = BacktestIn(journal, replayer[q].scanner)
        BY <2>4, <4>1 DEF ClearTrades, Cleared, BacktestIn
      <4> QED
        BY <3>2, <4>2 DEF InsertedSoFar, Inserted
    <3>3. Inserted(journal', replayer'[p])
      <4>1. BacktestIn(journal', replayer'[p].scanner) = {}
        BY <2>4 DEF ClearTrades, Cleared, BacktestIn
      <4>2. replayer'[p].todo = replayer'[p].replay
        BY <2>4 DEF ClearTrades, ClearFirst
      <4> QED
        BY <4>1, <4>2 DEF Inserted
    <3>4. InsertedSoFar'
      BY <2>4, <3>2, <3>3 DEF ClearTrades, InsertedSoFar
    <3> QED
      BY <3>1, <3>4
  <2>5. ASSUME NEW p \in Replayers, InsertTrade(p)
        PROVE  AloneIsAlone' /\ ClearFirst' /\ InsertedSoFar'
    <3>1. AloneIsAlone' /\ ClearFirst'
      BY <2>5 DEF InsertTrade, AloneIsAlone, ClearFirst
    <3>2. PICK e \in replayer[p].todo :
            /\ journal' = journal \cup {EntryRow(replayer[p], e)}
            /\ replayer' = [replayer EXCEPT ![p].todo = @ \ {e}]
      BY <2>5 DEF InsertTrade, NewRows
    <3>3. ASSUME NEW q \in alone, q # p, replayer[q].pc = "insert"
          PROVE  Inserted(journal', replayer[q])
      <4>1. replayer[p].scanner # replayer[q].scanner
        BY <2>5, <3>3 DEF InsertTrade, AloneIsAlone
      <4>2. BacktestIn(journal', replayer[q].scanner) = BacktestIn(journal, replayer[q].scanner)
        BY <3>2, <4>1 DEF BacktestIn, EntryRow
      <4> QED
        BY <3>3, <4>2 DEF InsertedSoFar, Inserted
    <3>4. ASSUME p \in alone PROVE Inserted(journal', replayer'[p])
      <4>1. Inserted(journal, replayer[p])
        BY <2>5, <3>4 DEF InsertTrade, InsertedSoFar
      <4>2. /\ replayer'[p].scanner = replayer[p].scanner
            /\ replayer'[p].cmd = replayer[p].cmd
            /\ replayer'[p].replay = replayer[p].replay
            /\ replayer'[p].todo = replayer[p].todo \ {e}
        BY <3>2
      <4>3. replayer'[p].replay \ replayer'[p].todo
              = (replayer[p].replay \ replayer[p].todo) \cup {e}
        BY <4>1, <4>2 DEF Inserted
      <4>4. BacktestIn(journal', replayer'[p].scanner)
              = BacktestIn(journal, replayer[p].scanner) \cup {EntryRow(replayer[p], e)}
        BY <3>2, <4>2 DEF BacktestIn, EntryRow
      <4>5. \A x : EntryRow(replayer'[p], x) = EntryRow(replayer[p], x)
        BY <4>2 DEF EntryRow
      <4> QED
        BY <4>1, <4>2, <4>3, <4>4, <4>5 DEF Inserted
    <3>5. InsertedSoFar'
      BY <2>5, <3>2, <3>3, <3>4 DEF InsertTrade, InsertedSoFar
    <3> QED
      BY <3>1, <3>5
  <2>6. ASSUME NEW p \in Replayers, EndReplay(p) \/ StopReplay(p)
        PROVE  AloneIsAlone' /\ ClearFirst' /\ InsertedSoFar'
    <3>1. /\ alone' = alone \ {p} /\ UNCHANGED journal
          /\ replayer' = [replayer EXCEPT ![p] = Rest0]
      BY <2>6 DEF EndReplay, StopReplay
    <3> QED
      BY <3>1 DEF Rest0, AloneIsAlone, ClearFirst, InsertedSoFar
  <2>7. CASE UNCHANGED tradeVars
    BY <2>7 DEF tradeVars, AloneIsAlone, ClearFirst, InsertedSoFar
  <2> QED
    BY <2>1, <2>2, <2>3, <2>4, <2>5, <2>6, <2>7 DEF TradeNext
<1>3. ReplayInvariant => LoneReplayIsExact
  BY DEF ReplayInvariant, InsertedSoFar, Inserted, LoneReplayIsExact, BacktestIn
<1> QED
  BY <1>1, <1>2, <1>3, TradesAreTyped, PTL DEF TradeSpec, ReplayInvariant

-----------------------------------------------------------------------------
(* Rows a read can order: finitely many, and of each date one.             *)
Dated(rows) ==
  /\ IsFiniteSet(rows)
  /\ \A r, q \in rows : r.ts \in Int /\ (r.ts = q.ts => r = q)

Ordered(s) == \A i, j \in DOMAIN s : i < j => s[i].ts < s[j].ts

(* Such rows can be listed by date: a row goes where as many rows are not  *)
(* after it.                                                               *)
LEMMA ListingExists ==
  ASSUME NEW rows, Dated(rows)
  PROVE  \E s \in [1..Cardinality(rows) -> rows] : Ordered(s)
<1> DEFINE N == Cardinality(rows)
<1> DEFINE UpTo(r) == {q \in rows : q.ts <= r.ts}
<1> DEFINE rank == [r \in rows |-> Cardinality(UpTo(r))]
<1>0. /\ IsFiniteSet(rows) /\ N \in Nat
      /\ \A r, q \in rows : r.ts \in Int /\ (r.ts = q.ts => r = q)
  BY FS_CardinalityType DEF Dated
<1>1. \A r \in rows : IsFiniteSet(UpTo(r)) /\ Cardinality(UpTo(r)) \in 1..N
  <2> SUFFICES ASSUME NEW r \in rows
               PROVE  IsFiniteSet(UpTo(r)) /\ Cardinality(UpTo(r)) \in 1..N
    OBVIOUS
  <2>1. UpTo(r) \in SUBSET rows /\ r \in UpTo(r)
    BY <1>0
  <2>2. IsFiniteSet(UpTo(r)) /\ Cardinality(UpTo(r)) <= N
    BY <1>0, <2>1, FS_Subset
  <2>3. Cardinality(UpTo(r)) \in Nat /\ Cardinality(UpTo(r)) # 0
    BY <2>1, <2>2, FS_CardinalityType, FS_EmptySet
  <2> QED
    BY <1>0, <2>2, <2>3
<1>2. \A r, q \in rows : r.ts < q.ts => rank[r] < rank[q]
  <2> SUFFICES ASSUME NEW r \in rows, NEW q \in rows, r.ts < q.ts
               PROVE  Cardinality(UpTo(r)) < Cardinality(UpTo(q))
    OBVIOUS
  <2>1. UpTo(r) \in SUBSET UpTo(q) /\ q \in UpTo(q) /\ q \notin UpTo(r)
    BY <1>0
  <2>2. /\ Cardinality(UpTo(r)) <= Cardinality(UpTo(q))
        /\ Cardinality(UpTo(q)) = Cardinality(UpTo(r)) => UpTo(q) = UpTo(r)
    BY <1>1, <2>1, FS_Subset
  <2> HIDE DEF UpTo
  <2> QED
    BY <1>1, <2>1, <2>2
<1>3. rank \in [rows -> 1..N]
  BY <1>1
<1> HIDE DEF rank, UpTo
<1>4. rank \in Injection(rows, 1..N)
  BY <1>0, <1>2, <1>3 DEF Injection, IsInjective
<1>5. IsFiniteSet(1..N) /\ Cardinality(1..N) = N
  BY <1>0, FS_Interval
<1>6. rank \in Surjection(rows, 1..N)
  BY <1>4, <1>5, FS_Injection
<1>7. \A i \in 1..N : \E r \in rows : rank[r] = i
  BY <1>6 DEF Surjection
<1> DEFINE s == [i \in 1..N |-> CHOOSE r \in rows : rank[r] = i]
<1>8. s \in [1..N -> rows] /\ \A i \in 1..N : rank[s[i]] = i
  BY <1>7
<1> HIDE DEF s
<1>9. Ordered(s)
  <2> SUFFICES ASSUME NEW i \in 1..N, NEW j \in 1..N, i < j
               PROVE  s[i].ts < s[j].ts
    BY <1>8 DEF Ordered
  <2>1. s[i] \in rows /\ s[j] \in rows /\ rank[s[i]] = i /\ rank[s[j]] = j
    BY <1>8
  <2>2. s[i].ts # s[j].ts
    BY <1>0, <2>1
  <2>3. ~(s[j].ts < s[i].ts)
    BY <1>0, <1>2, <2>1
  <2> QED
    BY <1>0, <2>1, <2>2, <2>3
<1> QED
  BY <1>8, <1>9

(* ByTs lists every row, oldest first.                                     *)
LEMMA ListingFacts ==
  ASSUME NEW rows, Dated(rows)
  PROVE  /\ Cardinality(rows) \in Nat
         /\ ByTs(rows) \in [1..Cardinality(rows) -> rows]
         /\ Ordered(ByTs(rows))
         /\ \A r \in rows : \E i \in 1..Cardinality(rows) : ByTs(rows)[i] = r
<1> DEFINE N == Cardinality(rows)
<1> DEFINE s == ByTs(rows)
<1>0. /\ IsFiniteSet(rows) /\ N \in Nat
      /\ \A r \in rows : r.ts \in Int
  BY FS_CardinalityType DEF Dated
<1>1. s \in [1..N -> rows] /\ Ordered(s)
  BY ListingExists DEF ByTs, Ordered
<1>2. s \in Injection(1..N, rows)
  <2>1. \A i, j \in 1..N : s[i] = s[j] => i = j
    <3> SUFFICES ASSUME NEW i \in 1..N, NEW j \in 1..N, s[i] = s[j], i < j
                 PROVE  FALSE
      BY <1>0
    <3>1. s[i].ts < s[j].ts /\ s[i].ts \in Int
      BY <1>0, <1>1 DEF Ordered
    <3> QED
      BY <3>1
  <2> QED
    BY <1>1, <2>1 DEF Injection, IsInjective
<1>3. Cardinality(1..N) = N
  BY <1>0, FS_Interval
<1>4. s \in Surjection(1..N, rows)
  BY <1>0, <1>2, <1>3, FS_Injection
<1> QED
  BY <1>0, <1>1, <1>4 DEF Surjection

(* The newest `lookback` rows: the end of the listing.                     *)
Shown(rows, lookback) ==
  IF lookback >= Cardinality(rows) THEN Cardinality(rows) ELSE lookback

LEMMA NewestIsTheEnd ==
  ASSUME NEW rows, Dated(rows), NEW n \in Nat \ {0}
  PROVE  /\ Newest(rows, n) \in Seq(rows)
         /\ Len(Newest(rows, n)) = Shown(rows, n)
         /\ Shown(rows, n) \in 0..Cardinality(rows)
         /\ \A i \in 1..Shown(rows, n) :
              Newest(rows, n)[i] = ByTs(rows)[Cardinality(rows) - Shown(rows, n) + i]
<1> DEFINE N == Cardinality(rows)
<1> DEFINE s == ByTs(rows)
<1> DEFINE K == Shown(rows, n)
<1>1. N \in Nat /\ s \in [1..N -> rows]
  BY ListingFacts
<1>2. K \in 0..N
  BY <1>1 DEF Shown
<1>3. s \in Seq(rows) /\ Len(s) = N
  <2>1. s \in Seq(rows)
    BY <1>1, SeqDef
  <2>2. DOMAIN s = 1..N /\ DOMAIN s = 1..Len(s) /\ Len(s) \in Nat
    BY <1>1, <2>1, LenProperties
  <2> QED
    BY <1>1, <2>1, <2>2
<1>4. Newest(rows, n) = SubSeq(s, N - K + 1, N)
  <2>1. N - K + 1 = IF n >= N THEN 1 ELSE N - n + 1
    BY <1>1 DEF Shown
  <2>2. Newest(rows, n) = SubSeq(s, IF n >= N THEN 1 ELSE N - n + 1, N)
    BY <1>3 DEF Newest
  <2> HIDE DEF N, s, K
  <2> QED
    BY <2>1, <2>2
<1> HIDE DEF N, s, K
<1>5. \A i \in (N - K + 1)..N : s[i] \in rows
  BY <1>1, <1>2
<1>6. /\ SubSeq(s, N - K + 1, N) \in Seq(rows)
      /\ Len(SubSeq(s, N - K + 1, N)) = IF N - K + 1 <= N THEN N - (N - K + 1) + 1 ELSE 0
      /\ \A i \in 1..(N - (N - K + 1) + 1) : SubSeq(s, N - K + 1, N)[i] = s[(N - K + 1) + i - 1]
  BY <1>1, <1>2, <1>5, SubSeqProperties
<1>7. /\ Len(SubSeq(s, N - K + 1, N)) = K
      /\ \A i \in 1..K : SubSeq(s, N - K + 1, N)[i] = s[N - K + i]
  BY <1>1, <1>2, <1>6
<1> QED
  BY <1>2, <1>4, <1>6, <1>7 DEF N, s, K

(* What callers rely on: oldest first, ending in the newest row, and a     *)
(* longer history only adds older rows.                                    *)
LEMMA NewestFacts ==
  ASSUME NEW rows, Dated(rows), NEW n \in Nat \ {0}
  PROVE  LET h == Newest(rows, n) IN
         /\ h \in Seq(rows) /\ Len(h) <= n
         /\ h = <<>> <=> rows = {}
         /\ rows # {} => /\ Last(h) \in rows
                         /\ \A r \in rows : r.ts <= Last(h).ts
         /\ \A i, j \in DOMAIN h : i < j => h[i].ts < h[j].ts
         /\ IsSuffix(h, Newest(rows, n + 1))
<1> DEFINE N == Cardinality(rows)
<1> DEFINE s == ByTs(rows)
<1> DEFINE h == Newest(rows, n)
<1> DEFINE g == Newest(rows, n + 1)
<1> DEFINE K == Shown(rows, n)
<1> DEFINE L == Shown(rows, n + 1)
<1>1. /\ N \in Nat /\ s \in [1..N -> rows]
      /\ \A i, j \in 1..N : i < j => s[i].ts < s[j].ts
      /\ \A r \in rows : \E i \in 1..N : s[i] = r
  BY ListingFacts DEF Ordered
<1>2. /\ h \in Seq(rows) /\ Len(h) = K /\ K \in 0..N
      /\ \A i \in 1..K : h[i] = s[N - K + i]
  BY NewestIsTheEnd
<1>3. /\ g \in Seq(rows) /\ Len(g) = L /\ L \in 0..N
      /\ \A i \in 1..L : g[i] = s[N - L + i]
  BY NewestIsTheEnd
<1>4. K <= L /\ K <= n /\ (K = 0 <=> N = 0)
  BY <1>1 DEF Shown
<1>5. N = 0 <=> rows = {}
  BY FS_EmptySet DEF Dated
<1>6. \A r \in rows : r.ts \in Int
  BY DEF Dated
<1>7. DOMAIN h = 1..K
  BY <1>2, LenProperties
<1> HIDE DEF N, s, h, g, K, L
<1>8. h = <<>> <=> rows = {}
  BY <1>2, <1>4, <1>5, EmptySeq
<1>9. ASSUME rows # {}
      PROVE  Last(h) \in rows /\ \A r \in rows : r.ts <= Last(h).ts
  <2>1. K \in 1..N
    BY <1>2, <1>4, <1>5, <1>9
  <2>2. Last(h) = s[N] /\ N \in 1..N
    BY <1>1, <1>2, <2>1 DEF Last
  <2>3. s[N] \in rows
    BY <1>1, <2>2
  <2>4. ASSUME NEW r \in rows PROVE r.ts <= s[N].ts
    <3>1. PICK i \in 1..N : s[i] = r
      BY <1>1
    <3>2. i = N \/ i < N
      BY <1>1
    <3> QED
      BY <1>1, <1>6, <2>2, <2>3, <3>1, <3>2
  <2> QED
    BY <2>2, <2>3, <2>4
<1>10. ASSUME NEW i \in 1..K, NEW j \in 1..K, i < j PROVE h[i].ts < h[j].ts
  <2>1. N - K + i \in 1..N /\ N - K + j \in 1..N /\ N - K + i < N - K + j
    BY <1>1, <1>2, <1>10
  <2> QED
    BY <1>1, <1>2, <2>1
<1>11. IsSuffix(h, g)
  <2> DEFINE a == Reverse(h)
  <2> DEFINE b == Reverse(g)
  <2>1. /\ a \in [1..K -> rows] /\ \A i \in 1..K : a[i] = s[N - i + 1]
    <3>1. \A i \in 1..K : (K - i) + 1 \in 1..K /\ h[(K - i) + 1] = s[N - i + 1]
      <4> SUFFICES ASSUME NEW i \in 1..K PROVE (K - i) + 1 \in 1..K /\ h[(K - i) + 1] = s[N - i + 1]
        OBVIOUS
      <4>1. (K - i) + 1 \in 1..K /\ N - K + ((K - i) + 1) = N - i + 1
        BY <1>1, <1>2
      <4> QED
        BY <1>2, <4>1
    <3>2. \A i \in 1..K : s[N - i + 1] \in rows
      BY <1>1, <1>2
    <3> QED
      BY <1>2, <3>1, <3>2 DEF Reverse
  <2>2. /\ b \in [1..L -> rows] /\ \A i \in 1..L : b[i] = s[N - i + 1]
    <3>1. \A i \in 1..L : (L - i) + 1 \in 1..L /\ g[(L - i) + 1] = s[N - i + 1]
      <4> SUFFICES ASSUME NEW i \in 1..L PROVE (L - i) + 1 \in 1..L /\ g[(L - i) + 1] = s[N - i + 1]
        OBVIOUS
      <4>1. (L - i) + 1 \in 1..L /\ N - L + ((L - i) + 1) = N - i + 1
        BY <1>1, <1>3
      <4> QED
        BY <1>3, <4>1
    <3>2. \A i \in 1..L : s[N - i + 1] \in rows
      BY <1>1, <1>3
    <3> QED
      BY <1>3, <3>1, <3>2 DEF Reverse
  <2> HIDE DEF a, b
  <2>3. /\ a \in Seq(rows) /\ Len(a) = K
        /\ b \in Seq(rows) /\ Len(b) = L
    <3>1. a \in Seq(rows) /\ b \in Seq(rows)
      BY <1>2, <1>3, <2>1, <2>2, SeqDef
    <3>2. /\ Len(a) \in Nat /\ 1..Len(a) = 1..K
          /\ Len(b) \in Nat /\ 1..Len(b) = 1..L
      BY <2>1, <2>2, <3>1, LenProperties
    <3> QED
      BY <1>2, <1>3, <3>1, <3>2
  <2>4. SubSeq(a, 1, K) = SubSeq(b, 1, K)
    <3>1. /\ SubSeq(a, 1, K) \in Seq(rows) /\ Len(SubSeq(a, 1, K)) = K
          /\ \A i \in 1..K : SubSeq(a, 1, K)[i] = a[i]
      BY <1>2, <2>1, <2>3, SubSeqProperties
    <3>2. /\ SubSeq(b, 1, K) \in Seq(rows) /\ Len(SubSeq(b, 1, K)) = K
          /\ \A i \in 1..K : SubSeq(b, 1, K)[i] = b[i]
      <4>1. \A i \in 1..K : b[i] \in rows
        BY <1>2, <1>3, <1>4, <2>2
      <4> QED
        BY <1>2, <4>1, SubSeqProperties
    <3>3. \A i \in 1..K : a[i] = b[i]
      BY <1>2, <1>3, <1>4, <2>1, <2>2
    <3> QED
      BY <3>1, <3>2, <3>3, SeqEqual
  <2> QED
    BY <1>4, <2>3, <2>4 DEF IsSuffix, IsPrefix, a, b
<1> QED
  BY <1>2, <1>4, <1>7, <1>8, <1>9, <1>10, <1>11 DEF h, g

(* The tables a read orders are dated, at every cutoff.                    *)
LEMMA DatedRows ==
  ASSUME NEW rows, \A r \in rows : r.ts \in BarDays,
         \A r, q \in rows : r.ts = q.ts => r = q
  PROVE  Dated(rows)
<1> DEFINE f == [r \in rows |-> r.ts]
<1>1. f \in Injection(rows, BarDays)
  BY DEF Injection, IsInjective
<1>2. IsFiniteSet(BarDays)
  BY PitAssumption, FS_Interval DEF BarDays
<1>3. IsFiniteSet(rows)
  BY <1>1, <1>2, FS_Injection
<1> QED
  BY <1>3, PitAssumption DEF Dated, BarDays

-----------------------------------------------------------------------------
(* se scan.  An answer some provider has given: of the live ones at a      *)
(* revision made by now, of the mock the only one there is.                *)
Given(x) == x \in Answers /\ x.revision <= (IF x.by = "live" THEN revision ELSE 0)

(* One row per key; a bar and a feature are knowable from their own day, a *)
(* macro row from its day and the lag of the provider it came from.        *)
RowsAreKeyed ==
  /\ \A r \in bars : r.asOf = r.ts /\ Given(r.value)
  /\ \A r, q \in bars : r.ts = q.ts => r = q
  /\ \A r \in macro : r.asOf = r.ts + LagOf(r.value.by) /\ Given(r.value)
  /\ \A r, q \in macro : r.ts = q.ts /\ r.asOf = q.asOf => r = q
  /\ \A r \in features : r.asOf = r.decision
  /\ \A r, q \in features : r.key = q.key /\ r.decision = q.decision => r = q

DerivedHasItsBar ==
  \A r \in features : r.key = "derived" =>
    /\ Given(r.value)
    /\ \E b \in bars : b.ts = r.decision /\ (~overlapped => NoOlder(b.value, r.value))

(* A scan writes one answer, and past its bars the last of them is stored. *)
ScanIsSound(p) ==
  /\ \A x \in scan[p].held : Given(x)
  /\ scan[p].pc # "off" => scan[p].last \in BarDays
  /\ scan[p].pc \in {"bars", "points"} =>
       \E x : scan[p].held = {x} /\ x.by = scan[p].provider
  /\ scan[p].pc = "features" => \E x : scan[p].held = {x}
  /\ scan[p].pc \notin {"off", "bars"} => \E b \in bars : b.ts = scan[p].last

ScansAreSound == \A p \in Scans : ScanIsSound(p)

(* Without overlap, what the only scan holds replaces nothing newer, and   *)
(* what it is to derive is not ahead of the bar.                           *)
HeldIsInOrder(p) ==
  \A x \in scan[p].held :
    /\ scan[p].pc = "bars" =>
         /\ \A r \in bars : NoOlder(x, r.value)
         /\ \A r \in features : r.key = "derived" => NoOlder(x, r.value)
    /\ scan[p].pc = "points" => \A r \in macro : NoOlder(x, r.value)
    /\ scan[p].pc = "features" =>
         \A b \in bars : b.ts = scan[p].last => NoOlder(b.value, x)

WhileAlone ==
  ~overlapped =>
    /\ \A p, q \in Scans : scan[p].pc # "off" /\ scan[q].pc # "off" => p = q
    /\ \A p \in Scans : HeldIsInOrder(p)

ConsistentStore ==
  PitTypeOK /\ RowsAreKeyed /\ DerivedHasItsBar /\ ScansAreSound /\ WhileAlone

(* Every date a read sees has its newest vintage, as it has at most two:   *)
(* the mock's and the live provider's.                                     *)
LEMMA NewestVintageExists ==
  ASSUME NEW table, \A x \in table : x.ts \in Int /\ (x.asOf = x.ts \/ x.asOf = x.ts + Lag),
         NEW c \in BarDays, NEW r \in Knowable(table, c)
  PROVE  \E n \in NewestVintages(table, c) : n.ts = r.ts /\ r.asOf <= n.asOf
<1>1. Lag \in Nat /\ r \in table /\ \A x \in Knowable(table, c) : x \in table
  BY PitAssumption DEF PitAssumption, Knowable
<1>2. CASE \E n \in Knowable(table, c) : n.ts = r.ts /\ n.asOf = r.ts + Lag
  <2>1. PICK n \in Knowable(table, c) : n.ts = r.ts /\ n.asOf = r.ts + Lag
    BY <1>2
  <2>2. \A x \in Knowable(table, c) : x.ts = r.ts => x.asOf <= n.asOf
    BY <1>1, <2>1
  <2> QED
    BY <2>1, <2>2 DEF NewestVintages
<1>3. CASE \A n \in Knowable(table, c) : n.ts = r.ts => n.asOf = n.ts
  <2>1. \A x \in Knowable(table, c) : x.ts = r.ts => x.asOf <= r.asOf
    BY <1>1, <1>3
  <2> QED
    BY <1>1, <2>1 DEF NewestVintages
<1> QED
  BY <1>1, <1>2, <1>3

LEMMA TwoVintagesAtMost ==
  ASSUME PitTypeOK, RowsAreKeyed
  PROVE  \A x \in macro : x.ts \in Int /\ (x.asOf = x.ts \/ x.asOf = x.ts + Lag)
BY PitAssumption DEF PitAssumption, PitTypeOK, RowsAreKeyed, LagOf, BarDays

(* The tables a read orders are dated, at every cutoff.                    *)
LEMMA ReadsAreDated ==
  ASSUME PitTypeOK, RowsAreKeyed, NEW c \in BarDays
  PROVE  Dated(Knowable(bars, c)) /\ Dated(NewestVintages(macro, c))
<1>1. /\ \A r \in bars : r.ts \in BarDays
      /\ \A r \in macro : r.ts \in BarDays /\ r.asOf \in Int
      /\ \A r, q \in bars : r.ts = q.ts => r = q
      /\ \A r, q \in macro : r.ts = q.ts /\ r.asOf = q.asOf => r = q
  BY PitAssumption DEF PitAssumption, PitTypeOK, RowsAreKeyed
<1>2. Dated(Knowable(bars, c))
  BY <1>1, DatedRows DEF Knowable
<1>3. \A r \in NewestVintages(macro, c) : r.ts \in BarDays
  BY <1>1 DEF NewestVintages, Knowable
<1>4. \A r, q \in NewestVintages(macro, c) : r.ts = q.ts => r = q
  <2> SUFFICES ASSUME NEW r \in NewestVintages(macro, c), NEW q \in NewestVintages(macro, c),
                      r.ts = q.ts
               PROVE  r = q
    OBVIOUS
  <2>1. r \in macro /\ q \in macro /\ r.asOf <= q.asOf /\ q.asOf <= r.asOf
    BY DEF NewestVintages, Knowable
  <2>2. r.asOf = q.asOf
    BY <1>1, <2>1
  <2> QED
    BY <1>1, <2>1, <2>2
<1>5. Dated(NewestVintages(macro, c))
  BY <1>3, <1>4, DatedRows
<1> QED
  BY <1>2, <1>5

(* The newest bar as of a stored bar's day is that bar.                    *)
LEMMA NewestIsTheLastScanned ==
  ASSUME PitTypeOK, RowsAreKeyed, NEW b \in bars
  PROVE  DerivedValues(b.ts) = {b.value} /\ b.value \in Answers
<1> DEFINE rows == Knowable(bars, b.ts)
<1> DEFINE h == BarsAt(b.ts, 1)
<1>0. b.ts \in BarDays /\ b.value \in Answers
  BY DEF PitTypeOK
<1>1. /\ Dated(rows) /\ b \in rows
      /\ \A r \in rows : r \in bars /\ r.ts <= b.ts /\ r.ts \in Int
  <2>1. b.ts \in Int /\ \A r \in bars : r.ts \in Int /\ r.asOf = r.ts
    BY PitAssumption DEF PitAssumption, PitTypeOK, RowsAreKeyed, BarDays
  <2>2. Dated(rows)
    BY <1>0, ReadsAreDated
  <2> QED
    BY <2>1, <2>2 DEF Knowable
<1>2. /\ h \in Seq(rows) /\ Len(h) <= 1 /\ h # <<>>
      /\ Last(h) \in rows /\ \A r \in rows : r.ts <= Last(h).ts
  <2>1. rows # {} /\ 1 \in Nat \ {0}
    BY <1>1
  <2> HIDE DEF rows
  <2>2. LET g == Newest(rows, 1) IN
        /\ g \in Seq(rows) /\ Len(g) <= 1
        /\ g = <<>> <=> rows = {}
        /\ rows # {} => Last(g) \in rows /\ \A r \in rows : r.ts <= Last(g).ts
    BY <1>1, <2>1, NewestFacts
  <2> QED
    BY <2>1, <2>2 DEF BarsAt, rows
<1>3. Last(h) = b
  <2>1. Last(h).ts = b.ts
    BY <1>1, <1>2
  <2>2. Last(h) \in bars /\ b \in bars
    BY <1>1, <1>2
  <2> HIDE DEF h, rows
  <2> QED
    BY <2>1, <2>2 DEF RowsAreKeyed
<1>4. Len(h) = 1 /\ DOMAIN h = 1..1 /\ h[1] = b
  <2>1. h \in Seq(rows) /\ h # <<>> /\ Len(h) <= 1 /\ Last(h) = b
    BY <1>2, <1>3
  <2> HIDE DEF h, rows
  <2>2. Len(h) \in Nat /\ DOMAIN h = 1..Len(h)
    BY <2>1, LenProperties
  <2>3. Len(h) # 0
    BY <2>1, EmptySeq
  <2>4. Len(h) = 1
    BY <2>1, <2>2, <2>3
  <2> QED
    BY <2>1, <2>2, <2>4 DEF Last
<1>5. Range(h) = {b}
  BY <1>4 DEF Range
<1> QED
  BY <1>0, <1>5 DEF DerivedValues

(* No step of a scan binds a value to another column.                      *)
LEMMA StepKeepsTypes == ConsistentStore /\ [PitNext]_pitVars => PitTypeOK'
<1> SUFFICES ASSUME PitTypeOK, RowsAreKeyed, ScansAreSound, [PitNext]_pitVars PROVE PitTypeOK'
  BY DEF ConsistentStore
<1> USE PitAssumption DEF PitAssumption, PitTypeOK
<1>0. /\ BarDays = 1..LastDay /\ Providers = {"live", "mock"}
      /\ LastDay \in Nat \ {0} /\ Lag \in Nat /\ MaxScans \in Nat /\ MaxRevision \in Nat
  BY DEF BarDays, Providers
<1>1. CASE NextDay
  BY <1>0, <1>1 DEF NextDay
<1>2. CASE Revise
  BY <1>0, <1>2 DEF Revise
<1>3. ASSUME NEW p \in Scans, NEW provider \in Providers, NEW to \in BarDays,
             FetchBars(p, provider, to)
      PROVE  PitTypeOK'
  <2>1. PICK last \in {to - 1, to} \cap BarDays :
          scan' = [scan EXCEPT ![p] = [pc |-> "bars", provider |-> provider, to |-> to,
                                       last |-> last, held |-> {Answer(provider)}]]
    BY <1>3 DEF FetchBars
  <2>2. Answer(provider) \in Answers
    BY <1>0 DEF Answer, Answers
  <2>3. to \in 0..LastDay /\ last \in 0..LastDay
    BY <1>0
  <2>4. begunScans' \in 0..MaxScans /\ overlapped' \in BOOLEAN
    BY <1>0, <1>3 DEF FetchBars
  <2>5. UNCHANGED <<today, revision, bars, macro, features>>
    BY <1>3 DEF FetchBars
  <2> QED
    BY <2>1, <2>2, <2>3, <2>4, <2>5
<1>4. ASSUME NEW p \in Scans, WriteBars(p) PROVE PitTypeOK'
  <2>1. scan[p].last \in 0..LastDay /\ scan[p].held \subseteq Answers
    OBVIOUS
  <2>2. \A d \in 1..scan[p].last, x \in scan[p].held :
          BarWritten(d, x) \in [ts : BarDays, asOf : BarDays, value : Answers]
    <3> HIDE DEF PitTypeOK
    <3> QED
      BY <1>0, <2>1 DEF BarWritten
  <2>3. bars' \subseteq [ts : BarDays, asOf : BarDays, value : Answers]
    BY <1>4, <2>2 DEF WriteBars, Upsert
  <2>4. UNCHANGED <<today, revision, macro, features, begunScans, overlapped>>
    BY <1>4 DEF WriteBars
  <2>5. scan' = [scan EXCEPT ![p] = [@ EXCEPT !.pc = "profile", !.held = {}]]
    BY <1>4 DEF WriteBars
  <2> QED
    BY <2>3, <2>4, <2>5
<1>5. ASSUME NEW p \in Scans, scan[p].pc # "off", NEW key \in {"aum_raw", "derived"},
             NEW values \in SUBSET (Answers \cup {Unknown}), WriteFeatures(key, scan[p].last, values)
      PROVE  features' \subseteq [key : {"aum_raw", "derived"}, decision : BarDays,
                                  asOf : BarDays, value : Answers \cup {Unknown}]
  <2>1. scan[p].last \in BarDays
    BY <1>5 DEF ScansAreSound, ScanIsSound
  <2>2. [key : {key}, decision : {scan[p].last}, asOf : {scan[p].last}, value : values]
          \subseteq [key : {"aum_raw", "derived"}, decision : BarDays,
                     asOf : BarDays, value : Answers \cup {Unknown}]
    BY <2>1
  <2> QED
    BY <1>5, <2>2 DEF WriteFeatures, Upsert
<1>6. ASSUME NEW p \in Scans, ScanProfile(p) PROVE PitTypeOK'
  <2>1. features' \subseteq [key : {"aum_raw", "derived"}, decision : BarDays,
                             asOf : BarDays, value : Answers \cup {Unknown}]
    BY <1>5, <1>6 DEF ScanProfile
  <2> QED
    BY <1>6, <2>1 DEF ScanProfile
<1>7. ASSUME NEW p \in Scans, FetchMacro(p) PROVE PitTypeOK'
  <2> DEFINE published == IF today - LagOf(scan[p].provider) < scan[p].to
                            THEN today - LagOf(scan[p].provider) ELSE scan[p].to
  <2>1. Answer(scan[p].provider) \in Answers
    BY <1>0 DEF Answer, Answers
  <2>2. LagOf(scan[p].provider) \in Nat /\ today \in 1..LastDay /\ scan[p].to \in 0..LastDay
    BY <1>0 DEF LagOf
  <2>3. published \in Int /\ (published >= 1 => published \in 0..LastDay)
    BY <1>0, <2>2
  <2>4. \/ /\ published >= 1
           /\ scan' = [scan EXCEPT ![p] = [@ EXCEPT !.pc = "points", !.to = published,
                                                 !.held = {Answer(scan[p].provider)}]]
        \/ scan' = [scan EXCEPT ![p].pc = "derive"]
    BY <1>7 DEF FetchMacro
  <2>5. UNCHANGED <<today, revision, bars, macro, features, begunScans, overlapped>>
    BY <1>7 DEF FetchMacro
  <2> HIDE DEF published
  <2>6. CASE scan' = [scan EXCEPT ![p].pc = "derive"]
    BY <2>5, <2>6
  <2>7. CASE /\ published >= 1
             /\ scan' = [scan EXCEPT ![p] = [@ EXCEPT !.pc = "points", !.to = published,
                                                      !.held = {Answer(scan[p].provider)}]]
    <3>1. published \in 0..LastDay
      BY <2>3, <2>7
    <3>2. scan' \in [Scans -> [pc : {"off", "bars", "profile", "macro", "points",
                                     "derive", "features"},
                               provider : Providers, to : 0..LastDay, last : 0..LastDay,
                               held : SUBSET Answers]]
      BY <2>1, <2>7, <3>1
    <3> QED
      BY <2>5, <3>2
  <2> QED
    BY <2>4, <2>6, <2>7
<1>8. ASSUME NEW p \in Scans, WriteMacro(p) PROVE PitTypeOK'
  <2>1. scan[p].to \in 0..LastDay /\ scan[p].held \subseteq Answers
    OBVIOUS
  <2>2. \A d \in 1..scan[p].to, x \in scan[p].held :
          MacroWritten(d, scan[p].provider, x)
            \in [ts : BarDays, asOf : 1..(LastDay + Lag), value : Answers]
    <3> HIDE DEF PitTypeOK
    <3>1. \A d \in 1..scan[p].to :
            d \in BarDays /\ d + LagOf(scan[p].provider) \in 1..(LastDay + Lag)
      BY <1>0, <2>1 DEF LagOf
    <3> QED
      BY <2>1, <3>1 DEF MacroWritten
  <2>3. macro' \subseteq [ts : BarDays, asOf : 1..(LastDay + Lag), value : Answers]
    BY <1>8, <2>2 DEF WriteMacro, Upsert
  <2>4. UNCHANGED <<today, revision, bars, features, begunScans, overlapped>>
    BY <1>8 DEF WriteMacro
  <2>5. scan' = [scan EXCEPT ![p] = [@ EXCEPT !.pc = "derive", !.held = {}]]
    BY <1>8 DEF WriteMacro
  <2> QED
    BY <2>3, <2>4, <2>5
<1>9. ASSUME NEW p \in Scans, ReadStore(p) PROVE PitTypeOK'
  <2>1. PICK b \in bars : b.ts = scan[p].last
    BY <1>9 DEF ReadStore, ScansAreSound, ScanIsSound
  <2>2. DerivedValues(scan[p].last) = {b.value} /\ b.value \in Answers
    BY <2>1, NewestIsTheLastScanned
  <2>3. scan' = [scan EXCEPT ![p] = [@ EXCEPT !.pc = "features", !.held = {b.value}]]
    BY <1>9, <2>2 DEF ReadStore
  <2>4. UNCHANGED <<today, revision, bars, macro, features, begunScans, overlapped>>
    BY <1>9 DEF ReadStore
  <2> QED
    BY <2>2, <2>3, <2>4
<1>10. ASSUME NEW p \in Scans, WriteDerived(p) PROVE PitTypeOK'
  <2>1. features' \subseteq [key : {"aum_raw", "derived"}, decision : BarDays,
                             asOf : BarDays, value : Answers \cup {Unknown}]
    BY <1>5, <1>10 DEF WriteDerived
  <2> QED
    BY <1>0, <1>10, <2>1 DEF WriteDerived, NoScan
<1>11. ASSUME NEW p \in Scans, StopScan(p) PROVE PitTypeOK'
  BY <1>0, <1>11 DEF StopScan, NoScan
<1>12. CASE UNCHANGED pitVars
  BY <1>12 DEF pitVars
<1> QED
  BY <1>1, <1>2, <1>3, <1>4, <1>6, <1>7, <1>8, <1>9, <1>10, <1>11, <1>12 DEF PitNext

(* Who holds what after a step: what each upsert leaves of a table.        *)
LEMMA BarsUpserted ==
  ASSUME ConsistentStore, NEW p \in Scans, WriteBars(p), NEW x, scan[p].held = {x}
  PROVE  /\ \A r \in bars : \E n \in bars' :
              n.ts = r.ts /\ n.asOf = r.asOf /\ (n = r \/ n.value = x)
         /\ \A n \in bars' : n \in bars \/ (n.asOf = n.ts /\ n.value = x)
         /\ \A n, m \in bars' : n.ts = m.ts => n = m
         /\ \E n \in bars' : n.ts = scan[p].last
<1> DEFINE last == scan[p].last
<1> DEFINE rows == {BarWritten(d, y) : d \in 1..last, y \in scan[p].held}
<1>1. \A n \in rows : n.asOf = n.ts /\ n.value = x
  BY DEF BarWritten
<1>2. \A n, m \in rows : n.ts = m.ts => n = m
  BY DEF BarWritten
<1>3. \E n \in rows : n.ts = last
  <2>1. last \in BarDays
    BY DEF WriteBars, ConsistentStore, ScansAreSound, ScanIsSound
  <2>2. last \in 1..last
    <3> HIDE DEF last
    <3> QED
      BY <2>1, PitAssumption DEF PitAssumption, BarDays
  <2>3. BarWritten(last, x) \in rows /\ BarWritten(last, x).ts = last
    BY <2>2 DEF BarWritten
  <2> HIDE DEF rows, last
  <2> QED
    BY <2>3
<1>4. bars' = {r \in bars : \A n \in rows : n.ts # r.ts} \cup rows
  BY DEF WriteBars, Upsert, BarKey
<1> HIDE DEF rows, last
<1>5. /\ \A r \in bars : r.asOf = r.ts
      /\ \A r, q \in bars : r.ts = q.ts => r = q
  BY DEF ConsistentStore, RowsAreKeyed
<1>6. ASSUME NEW r \in bars
      PROVE  \E n \in bars' : n.ts = r.ts /\ n.asOf = r.asOf /\ (n = r \/ n.value = x)
  <2>1. CASE \E n \in rows : n.ts = r.ts
    BY <1>1, <1>4, <1>5, <2>1
  <2>2. CASE \A n \in rows : n.ts # r.ts
    BY <1>4, <2>2
  <2> QED
    BY <2>1, <2>2
<1>7. \A n, m \in bars' : n.ts = m.ts => n = m
  BY <1>2, <1>4, <1>5
<1>8. \A n \in bars' : n \in bars \/ (n.asOf = n.ts /\ n.value = x)
  BY <1>1, <1>4
<1> QED
  BY <1>3, <1>4, <1>6, <1>7, <1>8 DEF last

LEMMA MacroUpserted ==
  ASSUME ConsistentStore, NEW p \in Scans, WriteMacro(p), NEW x, scan[p].held = {x},
         x.by = scan[p].provider
  PROVE  /\ \A r \in macro : \E n \in macro' :
              n.ts = r.ts /\ n.asOf = r.asOf /\ (n = r \/ n.value = x)
         /\ \A n \in macro' : n \in macro \/ (n.asOf = n.ts + LagOf(x.by) /\ n.value = x)
         /\ \A n, m \in macro' : n.ts = m.ts /\ n.asOf = m.asOf => n = m
<1> DEFINE rows == {MacroWritten(d, scan[p].provider, y) : d \in 1..scan[p].to, y \in scan[p].held}
<1>1. \A n \in rows : n.asOf = n.ts + LagOf(x.by) /\ n.value = x
  BY DEF MacroWritten
<1>2. \A n, m \in rows : n.ts = m.ts => n = m
  BY DEF MacroWritten
<1>4. macro' = {r \in macro : \A n \in rows : n.ts # r.ts \/ n.asOf # r.asOf} \cup rows
  BY DEF WriteMacro, Upsert, MacroKey
<1> HIDE DEF rows
<1>5. \A r, q \in macro : r.ts = q.ts /\ r.asOf = q.asOf => r = q
  BY DEF ConsistentStore, RowsAreKeyed
<1>6. ASSUME NEW r \in macro
      PROVE  \E n \in macro' : n.ts = r.ts /\ n.asOf = r.asOf /\ (n = r \/ n.value = x)
  <2>1. CASE \E n \in rows : n.ts = r.ts /\ n.asOf = r.asOf
    BY <1>1, <1>4, <2>1
  <2>2. CASE \A n \in rows : n.ts # r.ts \/ n.asOf # r.asOf
    BY <1>4, <2>2
  <2> QED
    BY <2>1, <2>2
<1>7. \A n, m \in macro' : n.ts = m.ts /\ n.asOf = m.asOf => n = m
  BY <1>2, <1>4, <1>5
<1>8. \A n \in macro' : n \in macro \/ (n.asOf = n.ts + LagOf(x.by) /\ n.value = x)
  BY <1>1, <1>4
<1> QED
  BY <1>6, <1>7, <1>8

LEMMA FeaturesUpserted ==
  ASSUME ConsistentStore, NEW key, NEW day, NEW x, WriteFeatures(key, day, {x})
  PROVE  /\ \A n \in features' :
              n \in features \/ (n.key = key /\ n.decision = day /\ n.value = x)
         /\ \A n \in features' : n.asOf = n.decision
         /\ \A n, m \in features' : n.key = m.key /\ n.decision = m.decision => n = m
<1> DEFINE row == [key |-> key, decision |-> day, asOf |-> day, value |-> x]
<1>1. [key : {key}, decision : {day}, asOf : {day}, value : {x}] = {row}
  <2>1. row \in [key : {key}, decision : {day}, asOf : {day}, value : {x}]
    OBVIOUS
  <2>2. ASSUME NEW r \in [key : {key}, decision : {day}, asOf : {day}, value : {x}]
        PROVE  r = row
    OBVIOUS
  <2> HIDE DEF row
  <2> QED
    BY <2>1, <2>2
<1>2. features' = {r \in features : row.key # r.key \/ row.decision # r.decision
                                      \/ row.asOf # r.asOf} \cup {row}
  BY <1>1 DEF WriteFeatures, Upsert, FeatureKey
<1>3. row.key = key /\ row.decision = day /\ row.asOf = day /\ row.value = x
  OBVIOUS
<1> HIDE DEF row
<1>4. /\ \A r \in features : r.asOf = r.decision
      /\ \A r, q \in features : r.key = q.key /\ r.decision = q.decision => r = q
  BY DEF ConsistentStore, RowsAreKeyed
<1> QED
  BY <1>2, <1>3, <1>4

(* A step of one scan leaves the others as they were.                      *)
LEMMA OthersStaySound ==
  ASSUME ConsistentStore, NEW p \in Scans, NEW next, scan' = [scan EXCEPT ![p] = next],
         UNCHANGED revision, \A b \in bars : \E n \in bars' : n.ts = b.ts, ScanIsSound(p)'
  PROVE  ScansAreSound'
<1> SUFFICES ASSUME NEW q \in Scans PROVE ScanIsSound(q)'
  BY DEF ScansAreSound
<1>1. CASE q = p
  BY <1>1
<1>2. CASE q # p
  <2>1. scan'[q] = scan[q] /\ ScanIsSound(q)
    BY <1>2 DEF ConsistentStore, PitTypeOK, ScansAreSound
  <2>2. \A x : Given(x) => Given(x)'
    BY DEF Given
  <2> QED
    BY <2>1, <2>2 DEF ScanIsSound
<1> QED
  BY <1>1, <1>2

LEMMA OnlyOneMoves ==
  ASSUME ConsistentStore, NEW p \in Scans, scan[p].pc # "off",
         NEW next, scan' = [scan EXCEPT ![p] = next],
         UNCHANGED overlapped, ~overlapped => HeldIsInOrder(p)'
  PROVE  WhileAlone'
<1> SUFFICES ASSUME ~overlapped
             PROVE  /\ \A q, r \in Scans : scan'[q].pc # "off" /\ scan'[r].pc # "off" => q = r
                    /\ \A q \in Scans : HeldIsInOrder(q)'
  BY DEF WhileAlone
<1>1. \A q \in Scans : q # p => scan[q].pc = "off" /\ scan'[q] = scan[q]
  BY DEF ConsistentStore, PitTypeOK, WhileAlone
<1>2. \A q \in Scans : q # p => HeldIsInOrder(q)'
  BY <1>1 DEF HeldIsInOrder
<1> QED
  BY <1>1, <1>2

(* A request answers with what is given now, no older than any row.        *)
LEMMA AnswersAreNewest ==
  ASSUME ConsistentStore, NEW provider \in Providers
  PROVE  /\ Given(Answer(provider)) /\ Answer(provider).by = provider
         /\ \A x : Given(x) => NoOlder(Answer(provider), x)
<1>1. revision \in 0..MaxRevision /\ MaxRevision \in Nat
  BY PitAssumption DEF PitAssumption, ConsistentStore, PitTypeOK
<1>2. Answer(provider) \in Answers
  BY <1>1 DEF Answer, Answers, Providers
<1>3. \A x : Given(x) => x.revision \in Int
  BY DEF Given, Answers
<1> QED
  BY <1>1, <1>2, <1>3 DEF Given, Answer, NoOlder, Providers

LEMMA NotOlderThanItself == \A x : Given(x) => NoOlder(x, x)
BY DEF Given, Answers, NoOlder

(* The tables keep their keys and no feature is ahead of its bar, whatever *)
(* scans do, and without overlap no write goes back to an older answer.    *)
LEMMA StepKeepsConsistent == ConsistentStore /\ [PitNext]_pitVars => ConsistentStore'
<1> SUFFICES ASSUME ConsistentStore, [PitNext]_pitVars PROVE ConsistentStore'
  OBVIOUS
<1>0. /\ PitTypeOK /\ RowsAreKeyed /\ DerivedHasItsBar /\ ScansAreSound /\ WhileAlone
      /\ \A q \in Scans : ScanIsSound(q)
  BY DEF ConsistentStore, ScansAreSound
<1>a. PitTypeOK'
  BY StepKeepsTypes
<1>b. ASSUME UNCHANGED revision PROVE \A x : Given(x) => Given(x)'
  BY <1>b DEF Given
<1>c. ASSUME NEW p \in Scans, NEW next, scan' = [scan EXCEPT ![p] = next]
      PROVE  scan'[p] = next
  BY <1>0, <1>c DEF PitTypeOK
<1>1. CASE NextDay
  <2>1. UNCHANGED <<revision, bars, macro, features, scan, overlapped>>
    BY <1>1 DEF NextDay
  <2> QED
    BY <1>0, <1>a, <2>1 DEF ConsistentStore, RowsAreKeyed, DerivedHasItsBar, ScansAreSound,
       ScanIsSound, WhileAlone, HeldIsInOrder, Given
<1>2. CASE Revise
  <2>1. UNCHANGED <<bars, macro, features, scan, overlapped>> /\ revision' = revision + 1
    BY <1>2 DEF Revise
  <2>2. \A x : Given(x) => Given(x)'
    BY <1>0, <2>1 DEF Given, Answers, PitTypeOK
  <2>3. RowsAreKeyed'
    BY <1>0, <2>1, <2>2 DEF RowsAreKeyed
  <2>4. DerivedHasItsBar'
    BY <1>0, <2>1, <2>2 DEF DerivedHasItsBar
  <2>5. ScansAreSound'
    BY <1>0, <2>1, <2>2 DEF ScansAreSound, ScanIsSound
  <2>6. WhileAlone'
    BY <1>0, <2>1 DEF WhileAlone, HeldIsInOrder
  <2> QED
    BY <1>a, <2>3, <2>4, <2>5, <2>6 DEF ConsistentStore
<1>3. ASSUME NEW p \in Scans, NEW provider \in Providers, NEW to \in BarDays,
             FetchBars(p, provider, to)
      PROVE  ConsistentStore'
  <2>1. PICK last \in {to - 1, to} \cap BarDays :
          scan' = [scan EXCEPT ![p] = [pc |-> "bars", provider |-> provider, to |-> to,
                                       last |-> last, held |-> {Answer(provider)}]]
    BY <1>3 DEF FetchBars
  <2>2. /\ UNCHANGED <<revision, bars, macro, features>>
        /\ ~overlapped' => ~overlapped /\ \A q \in Scans : scan[q].pc = "off"
    BY <1>3 DEF FetchBars
  <2>3. scan'[p] = [pc |-> "bars", provider |-> provider, to |-> to,
                    last |-> last, held |-> {Answer(provider)}]
    BY <1>c, <2>1
  <2>4. RowsAreKeyed'
    BY <1>0, <1>b, <2>2 DEF RowsAreKeyed
  <2>5. DerivedHasItsBar'
    BY <1>0, <1>b, <2>2 DEF DerivedHasItsBar
  <2>6. ScanIsSound(p)'
    BY <1>b, <2>2, <2>3, AnswersAreNewest DEF ScanIsSound
  <2>7. ScansAreSound'
    BY <2>1, <2>2, <2>6, OthersStaySound
  <2>8. \A q \in Scans : q # p => scan'[q] = scan[q]
    BY <1>0, <2>1 DEF PitTypeOK
  <2>9. ASSUME ~overlapped' PROVE HeldIsInOrder(p)'
    <3>1. /\ \A r \in bars : NoOlder(Answer(provider), r.value)
          /\ \A r \in features : r.key = "derived" => NoOlder(Answer(provider), r.value)
      BY <1>0, AnswersAreNewest DEF RowsAreKeyed, DerivedHasItsBar
    <3> QED
      BY <2>2, <2>3, <3>1 DEF HeldIsInOrder
  <2>10. WhileAlone'
    BY <2>2, <2>8, <2>9 DEF WhileAlone, HeldIsInOrder
  <2> QED
    BY <1>a, <2>4, <2>5, <2>7, <2>10 DEF ConsistentStore
<1>4. ASSUME NEW p \in Scans, WriteBars(p) PROVE ConsistentStore'
  <2>1. /\ scan[p].pc = "bars"
        /\ scan' = [scan EXCEPT ![p] = [scan[p] EXCEPT !.pc = "profile", !.held = {}]]
        /\ UNCHANGED <<revision, macro, features, overlapped>>
    BY <1>4 DEF WriteBars
  <2>2. PICK x : scan[p].held = {x}
    BY <1>0, <2>1 DEF ScanIsSound
  <2>3. /\ \A r \in bars : \E n \in bars' :
             n.ts = r.ts /\ n.asOf = r.asOf /\ (n = r \/ n.value = x)
        /\ \A n \in bars' : n \in bars \/ (n.asOf = n.ts /\ n.value = x)
        /\ \A n, m \in bars' : n.ts = m.ts => n = m
        /\ \E n \in bars' : n.ts = scan[p].last
    BY <1>4, <2>2, BarsUpserted
  <2>4. Given(x) /\ scan[p].last \in BarDays
    BY <1>0, <2>1, <2>2 DEF ScanIsSound
  <2>5. scan'[p].pc = "profile" /\ scan'[p].held = {} /\ scan'[p].last = scan[p].last
    BY <1>0, <1>c, <2>1 DEF PitTypeOK
  <2>6. RowsAreKeyed'
    BY <1>0, <1>b, <2>1, <2>3, <2>4 DEF RowsAreKeyed
  <2>7. DerivedHasItsBar'
    <3> SUFFICES ASSUME NEW r \in features, r.key = "derived"
                 PROVE  \E n \in bars' : n.ts = r.decision /\ (~overlapped => NoOlder(n.value, r.value))
      BY <1>0, <1>b, <2>1 DEF DerivedHasItsBar
    <3>1. PICK b \in bars : b.ts = r.decision /\ (~overlapped => NoOlder(b.value, r.value))
      BY <1>0 DEF DerivedHasItsBar
    <3>2. PICK n \in bars' : n.ts = b.ts /\ (n = b \/ n.value = x)
      BY <2>3
    <3>3. ~overlapped => NoOlder(x, r.value)
      BY <1>0, <2>1, <2>2 DEF WhileAlone, HeldIsInOrder
    <3> QED
      BY <3>1, <3>2, <3>3
  <2>8. ScanIsSound(p)'
    BY <2>3, <2>4, <2>5 DEF ScanIsSound
  <2>9. ScansAreSound'
    BY <2>1, <2>3, <2>8, OthersStaySound
  <2>10. WhileAlone'
    BY <2>1, <2>5, OnlyOneMoves DEF HeldIsInOrder
  <2> QED
    BY <1>a, <2>6, <2>7, <2>9, <2>10 DEF ConsistentStore
<1>5. ASSUME NEW p \in Scans, ScanProfile(p) PROVE ConsistentStore'
  <2>1. /\ scan[p].pc = "profile"
        /\ scan' = [scan EXCEPT ![p] = [scan[p] EXCEPT !.pc = "macro"]]
        /\ UNCHANGED <<revision, bars, macro, overlapped>>
        /\ WriteFeatures("aum_raw", scan[p].last, {Unknown}) \/ UNCHANGED features
    BY <1>5 DEF ScanProfile
  <2>2. scan'[p].pc = "macro" /\ scan'[p].held = scan[p].held /\ scan'[p].last = scan[p].last
    BY <1>0, <1>c, <2>1 DEF PitTypeOK
  <2>3. /\ \A n \in features' : n \in features \/ n.key = "aum_raw"
        /\ \A n \in features' : n.asOf = n.decision
        /\ \A n, m \in features' : n.key = m.key /\ n.decision = m.decision => n = m
    <3>1. CASE UNCHANGED features
      BY <1>0, <3>1 DEF RowsAreKeyed
    <3>2. CASE WriteFeatures("aum_raw", scan[p].last, {Unknown})
      BY <3>2, FeaturesUpserted
    <3> QED
      BY <2>1, <3>1, <3>2
  <2>4. RowsAreKeyed'
    BY <1>0, <1>b, <2>1, <2>3 DEF RowsAreKeyed
  <2>5. DerivedHasItsBar'
    BY <1>0, <1>b, <2>1, <2>3 DEF DerivedHasItsBar
  <2>6. ScanIsSound(p)'
    BY <1>0, <1>b, <2>1, <2>2 DEF ScanIsSound
  <2>7. ScansAreSound'
    BY <2>1, <2>6, OthersStaySound
  <2>8. WhileAlone'
    BY <2>1, <2>2, OnlyOneMoves DEF HeldIsInOrder
  <2> QED
    BY <1>a, <2>4, <2>5, <2>7, <2>8 DEF ConsistentStore
<1>6. ASSUME NEW p \in Scans, FetchMacro(p) PROVE ConsistentStore'
  <2>1. /\ scan[p].pc = "macro"
        /\ UNCHANGED <<revision, bars, macro, features, overlapped>>
    BY <1>6 DEF FetchMacro
  <2>2. RowsAreKeyed' /\ DerivedHasItsBar'
    BY <1>0, <1>b, <2>1 DEF RowsAreKeyed, DerivedHasItsBar
  <2> DEFINE published == IF today - LagOf(scan[p].provider) < scan[p].to
                            THEN today - LagOf(scan[p].provider) ELSE scan[p].to
  <2> DEFINE asked == [scan[p] EXCEPT !.pc = "points", !.to = published,
                                      !.held = {Answer(scan[p].provider)}]
  <2>3. CASE scan' = [scan EXCEPT ![p].pc = "derive"]
    <3>1. scan' = [scan EXCEPT ![p] = [scan[p] EXCEPT !.pc = "derive"]]
      BY <2>3
    <3>2. scan'[p].pc = "derive" /\ scan'[p].held = scan[p].held /\ scan'[p].last = scan[p].last
      BY <1>0, <1>c, <3>1 DEF PitTypeOK
    <3>3. ScanIsSound(p)'
      BY <1>0, <1>b, <2>1, <3>2 DEF ScanIsSound
    <3>4. ScansAreSound'
      BY <2>1, <3>1, <3>3, OthersStaySound
    <3>5. WhileAlone'
      BY <2>1, <3>1, <3>2, OnlyOneMoves DEF HeldIsInOrder
    <3> QED
      BY <1>a, <2>2, <3>4, <3>5 DEF ConsistentStore
  <2>4. CASE scan' = [scan EXCEPT ![p] = asked]
    <3>1. /\ asked.pc = "points" /\ asked.held = {Answer(scan[p].provider)}
          /\ asked.last = scan[p].last /\ asked.provider = scan[p].provider
          /\ scan[p].provider \in Providers
      BY <1>0 DEF PitTypeOK
    <3> HIDE DEF asked
    <3>2. scan'[p] = asked
      BY <1>c, <2>4
    <3>3. ScanIsSound(p)'
      BY <1>0, <1>b, <2>1, <3>1, <3>2, AnswersAreNewest DEF ScanIsSound
    <3>4. ScansAreSound'
      BY <2>1, <2>4, <3>3, OthersStaySound
    <3>5. \A r \in macro : NoOlder(Answer(scan[p].provider), r.value)
      BY <1>0, <3>1, AnswersAreNewest DEF RowsAreKeyed
    <3>6. HeldIsInOrder(p)'
      BY <2>1, <3>1, <3>2, <3>5 DEF HeldIsInOrder
    <3>7. WhileAlone'
      BY <2>1, <2>4, <3>6, OnlyOneMoves
    <3> QED
      BY <1>a, <2>2, <3>4, <3>7 DEF ConsistentStore
  <2>5. scan' = [scan EXCEPT ![p] = asked] \/ scan' = [scan EXCEPT ![p].pc = "derive"]
    BY <1>6 DEF FetchMacro
  <2> QED
    BY <2>3, <2>4, <2>5
<1>7. ASSUME NEW p \in Scans, WriteMacro(p) PROVE ConsistentStore'
  <2>1. /\ scan[p].pc = "points"
        /\ scan' = [scan EXCEPT ![p] = [scan[p] EXCEPT !.pc = "derive", !.held = {}]]
        /\ UNCHANGED <<revision, bars, features, overlapped>>
    BY <1>7 DEF WriteMacro
  <2>2. PICK x : scan[p].held = {x} /\ x.by = scan[p].provider
    BY <1>0, <2>1 DEF ScanIsSound
  <2>3. /\ \A n \in macro' : n \in macro \/ (n.asOf = n.ts + LagOf(x.by) /\ n.value = x)
        /\ \A n, m \in macro' : n.ts = m.ts /\ n.asOf = m.asOf => n = m
    BY <1>7, <2>2, MacroUpserted
  <2>4. Given(x)
    BY <1>0, <2>1, <2>2 DEF ScanIsSound
  <2>5. scan'[p].pc = "derive" /\ scan'[p].held = {} /\ scan'[p].last = scan[p].last
    BY <1>0, <1>c, <2>1 DEF PitTypeOK
  <2>6. RowsAreKeyed'
    BY <1>0, <1>b, <2>1, <2>3, <2>4 DEF RowsAreKeyed, LagOf
  <2>7. DerivedHasItsBar'
    BY <1>0, <1>b, <2>1 DEF DerivedHasItsBar
  <2>8. ScanIsSound(p)'
    BY <1>0, <2>1, <2>5 DEF ScanIsSound
  <2>9. ScansAreSound'
    BY <2>1, <2>8, OthersStaySound
  <2>10. WhileAlone'
    BY <2>1, <2>5, OnlyOneMoves DEF HeldIsInOrder
  <2> QED
    BY <1>a, <2>6, <2>7, <2>9, <2>10 DEF ConsistentStore
<1>8. ASSUME NEW p \in Scans, ReadStore(p) PROVE ConsistentStore'
  <2>1. PICK b \in bars : b.ts = scan[p].last
    BY <1>0, <1>8 DEF ReadStore, ScanIsSound
  <2>2. DerivedValues(scan[p].last) = {b.value}
    BY <1>0, <2>1, NewestIsTheLastScanned
  <2>3. /\ scan[p].pc = "derive"
        /\ scan' = [scan EXCEPT ![p] = [scan[p] EXCEPT !.pc = "features", !.held = {b.value}]]
        /\ UNCHANGED <<revision, bars, macro, features, overlapped>>
    BY <1>8, <2>2 DEF ReadStore
  <2>4. /\ scan'[p].pc = "features" /\ scan'[p].held = {b.value}
        /\ scan'[p].last = scan[p].last
    BY <1>0, <1>c, <2>3 DEF PitTypeOK
  <2>5. RowsAreKeyed' /\ DerivedHasItsBar'
    BY <1>0, <1>b, <2>3 DEF RowsAreKeyed, DerivedHasItsBar
  <2>6. Given(b.value)
    BY <1>0 DEF RowsAreKeyed
  <2>7. ScanIsSound(p)'
    BY <1>0, <1>b, <2>1, <2>3, <2>4, <2>6 DEF ScanIsSound
  <2>8. ScansAreSound'
    BY <2>3, <2>7, OthersStaySound
  <2>9. \A r \in bars : r.ts = scan[p].last => NoOlder(r.value, b.value)
    BY <1>0, <2>1, <2>6, NotOlderThanItself DEF RowsAreKeyed
  <2>10. HeldIsInOrder(p)'
    BY <2>3, <2>4, <2>9 DEF HeldIsInOrder
  <2>11. WhileAlone'
    BY <2>3, <2>10, OnlyOneMoves
  <2> QED
    BY <1>a, <2>5, <2>8, <2>11 DEF ConsistentStore
<1>9. ASSUME NEW p \in Scans, WriteDerived(p) PROVE ConsistentStore'
  <2>1. /\ scan[p].pc = "features" /\ scan' = [scan EXCEPT ![p] = NoScan]
        /\ WriteFeatures("derived", scan[p].last, scan[p].held)
        /\ UNCHANGED <<revision, bars, macro, overlapped>>
    BY <1>9 DEF WriteDerived
  <2>2. PICK x : scan[p].held = {x}
    BY <1>0, <2>1 DEF ScanIsSound
  <2>3. /\ \A n \in features' :
             n \in features \/ (n.key = "derived" /\ n.decision = scan[p].last /\ n.value = x)
        /\ \A n \in features' : n.asOf = n.decision
        /\ \A n, m \in features' : n.key = m.key /\ n.decision = m.decision => n = m
    <3>1. WriteFeatures("derived", scan[p].last, {x})
      BY <2>1, <2>2
    <3> QED
      BY <3>1, FeaturesUpserted
  <2>4. Given(x) /\ \E b \in bars : b.ts = scan[p].last
    BY <1>0, <2>1, <2>2 DEF ScanIsSound
  <2>5. ~overlapped => \A b \in bars : b.ts = scan[p].last => NoOlder(b.value, x)
    BY <1>0, <2>1, <2>2 DEF WhileAlone, HeldIsInOrder
  <2>6. RowsAreKeyed'
    BY <1>0, <1>b, <2>1, <2>3 DEF RowsAreKeyed
  <2>7. DerivedHasItsBar'
    BY <1>0, <1>b, <2>1, <2>3, <2>4, <2>5 DEF DerivedHasItsBar
  <2>8. scan'[p] = NoScan
    BY <1>c, <2>1
  <2>9. ScanIsSound(p)'
    BY <2>8 DEF ScanIsSound, NoScan
  <2>10. ScansAreSound'
    BY <2>1, <2>9, OthersStaySound
  <2>11. HeldIsInOrder(p)'
    BY <2>8 DEF HeldIsInOrder, NoScan
  <2>12. WhileAlone'
    BY <2>1, <2>11, OnlyOneMoves
  <2> QED
    BY <1>a, <2>6, <2>7, <2>10, <2>12 DEF ConsistentStore
<1>10. ASSUME NEW p \in Scans, StopScan(p) PROVE ConsistentStore'
  <2>1. /\ scan[p].pc # "off" /\ scan' = [scan EXCEPT ![p] = NoScan]
        /\ UNCHANGED <<revision, bars, macro, features, overlapped>>
    BY <1>10 DEF StopScan
  <2>2. RowsAreKeyed' /\ DerivedHasItsBar'
    BY <1>0, <1>b, <2>1 DEF RowsAreKeyed, DerivedHasItsBar
  <2>3. scan'[p] = NoScan
    BY <1>c, <2>1
  <2>4. ScanIsSound(p)'
    BY <2>3 DEF ScanIsSound, NoScan
  <2>5. ScansAreSound'
    BY <2>1, <2>4, OthersStaySound
  <2>6. HeldIsInOrder(p)'
    BY <2>3 DEF HeldIsInOrder, NoScan
  <2>7. WhileAlone'
    BY <2>1, <2>6, OnlyOneMoves
  <2> QED
    BY <1>a, <2>2, <2>5, <2>7 DEF ConsistentStore
<1>11. CASE UNCHANGED pitVars
  BY <1>0, <1>a, <1>11 DEF pitVars, ConsistentStore, RowsAreKeyed, DerivedHasItsBar,
     ScansAreSound, ScanIsSound, WhileAlone, HeldIsInOrder, Given
<1> QED
  BY <1>1, <1>2, <1>3, <1>4, <1>5, <1>6, <1>7, <1>8, <1>9, <1>10, <1>11 DEF PitNext

LEMMA StoreStaysConsistent == PitSpec => []ConsistentStore
<1>1. PitInit => ConsistentStore
  <2> SUFFICES ASSUME PitInit PROVE ConsistentStore
    OBVIOUS
  <2>1. PitTypeOK
    <3>1. 0 \in 0..LastDay /\ 0 \in 0..MaxRevision /\ 0 \in 0..MaxScans /\ 1 \in BarDays
      BY PitAssumption DEF PitAssumption, BarDays
    <3>2. NoScan \in [pc : {"off", "bars", "profile", "macro", "points", "derive", "features"},
                      provider : Providers, to : 0..LastDay, last : 0..LastDay,
                      held : SUBSET Answers]
      BY <3>1 DEF NoScan, Providers
    <3> QED
      BY <3>1, <3>2 DEF PitInit, PitTypeOK
  <2>2. \A p \in Scans : scan[p] = NoScan
    BY DEF PitInit
  <2>3. ScansAreSound /\ WhileAlone
    BY <2>2 DEF ScansAreSound, ScanIsSound, WhileAlone, HeldIsInOrder, NoScan
  <2> QED
    BY <2>1, <2>3 DEF PitInit, ConsistentStore, RowsAreKeyed, DerivedHasItsBar
<1> QED
  BY <1>1, StepKeepsConsistent, PTL DEF PitSpec

(* Every read of a consistent store tells the same story at a cutoff.      *)
LEMMA ConsistentReadsAgree == ConsistentStore => PitReadsAgree
<1> SUFFICES ASSUME ConsistentStore, NEW c \in BarDays
             PROVE  /\ \A r \in FeaturesAt(c) : FeatureAt(c, r.key) = r.value
                    /\ \A n \in 1..MaxLookback :
                         LET h == MacroHistory(c, n) IN
                         /\ MacroValueAsOf(c) = IF h = <<>> THEN Unknown ELSE Last(h).value
                         /\ \A i, j \in DOMAIN h : i < j => h[i].ts < h[j].ts
                         /\ \A i \in DOMAIN h, r \in Knowable(macro, c) :
                              r.ts = h[i].ts => r.asOf <= h[i].asOf
                         /\ IsSuffix(h, MacroHistory(c, n + 1))
  BY DEF PitReadsAgree
<1>0. PitTypeOK /\ RowsAreKeyed
  BY DEF ConsistentStore
<1>1. ASSUME NEW r \in FeaturesAt(c)
      PROVE  FeatureAt(c, r.key) = r.value
  <2> DEFINE seen == {x \in KnowableFeatures(c) : x.key = r.key}
  <2> DEFINE top == {q \in seen : \A x \in seen : x.decision < q.decision
                                   \/ (x.decision = q.decision /\ x.asOf <= q.asOf)}
  <2>1. FeatureAt(c, r.key) = IF top = {} THEN Unknown ELSE (CHOOSE x \in top : TRUE).value
    BY DEF FeatureAt
  <2>2. \A x \in seen : x \in features /\ x.key = r.key /\ x.decision \in Int
    BY <1>0, PitAssumption DEF PitAssumption, PitTypeOK, KnowableFeatures, BarDays
  <2>3. r \in top
    BY <1>1 DEF FeaturesAt
  <2>4. \A q \in top : q \in seen /\ r \in seen /\ q.decision = r.decision
    BY <2>2, <2>3
  <2>5. \A q \in top : q = r
    BY <1>0, <2>2, <2>4 DEF RowsAreKeyed
  <2> HIDE DEF top
  <2> QED
    BY <2>1, <2>3, <2>5
<1>2. ASSUME NEW n \in 1..MaxLookback
      PROVE  LET h == MacroHistory(c, n) IN
             /\ MacroValueAsOf(c) = IF h = <<>> THEN Unknown ELSE Last(h).value
             /\ \A i, j \in DOMAIN h : i < j => h[i].ts < h[j].ts
             /\ \A i \in DOMAIN h, r \in Knowable(macro, c) :
                  r.ts = h[i].ts => r.asOf <= h[i].asOf
             /\ IsSuffix(h, MacroHistory(c, n + 1))
  <2> DEFINE all == Knowable(macro, c)
  <2> DEFINE rows == NewestVintages(macro, c)
  <2> DEFINE h == Newest(rows, n)
  <2>1. Dated(rows) /\ MacroHistory(c, n) = h /\ MacroHistory(c, n + 1) = Newest(rows, n + 1)
    BY <1>0, ReadsAreDated DEF MacroHistory
  <2>2. n \in Nat \ {0}
    BY PitAssumption DEF PitAssumption
  <2>3. /\ \A r \in all : r.ts \in Int /\ r.asOf \in Int
        /\ \A r \in rows : r \in all /\ \A x \in all : x.ts = r.ts => x.asOf <= r.asOf
        /\ \A r \in all : \E x \in rows : x.ts = r.ts
    <3>1. \A r \in all : r.ts \in Int /\ r.asOf \in Int
      BY <1>0, PitAssumption DEF PitAssumption, PitTypeOK, Knowable, BarDays
    <3>2. \A r \in all : \E x \in rows : x.ts = r.ts
      BY <1>0, TwoVintagesAtMost, NewestVintageExists
    <3> QED
      BY <3>1, <3>2 DEF NewestVintages
  <2> DEFINE top == {r \in all : \A x \in all :
                       x.ts < r.ts \/ (x.ts = r.ts /\ x.asOf <= r.asOf)}
  <2>4. MacroValueAsOf(c) = IF top = {} THEN Unknown ELSE (CHOOSE r \in top : TRUE).value
    BY DEF MacroValueAsOf
  <2>5. \A r \in top : r \in rows /\ \A x \in rows : x.ts <= r.ts
    <3> SUFFICES ASSUME NEW r \in top PROVE r \in rows /\ \A x \in rows : x.ts <= r.ts
      OBVIOUS
    <3>1. r \in all /\ \A x \in all : x.ts <= r.ts /\ (x.ts = r.ts => x.asOf <= r.asOf)
      BY <2>3
    <3>2. r \in rows
      BY <3>1 DEF NewestVintages
    <3> HIDE DEF all, rows, top
    <3> QED
      BY <2>3, <3>1, <3>2
  <2>6. \A r \in rows : (\A x \in rows : x.ts <= r.ts) => r \in top
    <3> SUFFICES ASSUME NEW r \in rows, \A x \in rows : x.ts <= r.ts,
                        NEW x \in all
                 PROVE  x.ts < r.ts \/ (x.ts = r.ts /\ x.asOf <= r.asOf)
      BY <2>3
    <3> HIDE DEF all, rows, top
    <3>1. x.ts <= r.ts
      BY <2>3
    <3> QED
      BY <2>3, <3>1
  <2>11. rows = {} => top = {}
    BY <2>5
  <2> HIDE DEF all, rows, top
  <2>7. /\ h \in Seq(rows)
        /\ h = <<>> <=> rows = {}
        /\ rows # {} => Last(h) \in rows /\ \A r \in rows : r.ts <= Last(h).ts
        /\ \A i, j \in DOMAIN h : i < j => h[i].ts < h[j].ts
        /\ IsSuffix(h, Newest(rows, n + 1))
    BY <2>1, <2>2, NewestFacts
  <2> HIDE DEF h
  <2>8. rows # {} => Last(h) \in top /\ \A r \in top : r = Last(h)
    <3> SUFFICES ASSUME rows # {} PROVE Last(h) \in top /\ \A r \in top : r = Last(h)
      OBVIOUS
    <3>1. Last(h) \in rows /\ Last(h) \in top
      BY <2>6, <2>7
    <3>2. ASSUME NEW r \in top PROVE r = Last(h)
      <4>1. r \in rows /\ Last(h).ts <= r.ts /\ r.ts <= Last(h).ts
        BY <2>5, <2>7, <3>1
      <4>2. r.ts = Last(h).ts
        BY <2>3, <3>1, <4>1
      <4> QED
        BY <2>1, <3>1, <4>1, <4>2 DEF Dated
    <3> QED
      BY <3>1, <3>2
  <2>9. MacroValueAsOf(c) = IF h = <<>> THEN Unknown ELSE Last(h).value
    <3>1. CASE rows = {}
      BY <2>4, <2>7, <2>11, <3>1
    <3>2. CASE rows # {}
      BY <2>4, <2>7, <2>8, <3>2
    <3> QED
      BY <3>1, <3>2
  <2>10. \A i \in DOMAIN h, r \in all : r.ts = h[i].ts => r.asOf <= h[i].asOf
    <3>1. \A i \in DOMAIN h : h[i] \in rows
      BY <2>7, LenProperties
    <3> QED
      BY <2>3, <3>1
  <2> QED
    BY <2>1, <2>7, <2>9, <2>10 DEF all
<1> QED
  BY <1>1, <1>2

LEMMA ConsistentFeaturesFollow == ConsistentStore => FeaturesFollowTheirBars
<1> SUFFICES ASSUME ConsistentStore, NEW r \in features, r.key = "derived",
                    NEW c \in r.decision..LastDay
             PROVE  \E b \in Knowable(bars, c) :
                      b.ts = r.decision /\ (~overlapped => NoOlder(b.value, r.value))
  BY DEF FeaturesFollowTheirBars
<1>1. PICK b \in bars : b.ts = r.decision /\ (~overlapped => NoOlder(b.value, r.value))
  BY DEF ConsistentStore, DerivedHasItsBar
<1>2. b.asOf = b.ts /\ b.ts <= c
  <2>1. r.decision \in BarDays /\ BarDays \subseteq Int
    BY PitAssumption DEF PitAssumption, ConsistentStore, PitTypeOK, BarDays
  <2>2. b.asOf = b.ts
    BY DEF ConsistentStore, RowsAreKeyed
  <2> QED
    BY <1>1, <2>1, <2>2
<1> QED
  BY <1>1, <1>2 DEF Knowable

(* A step replaces no row a past bar shows by one of an earlier vintage.   *)
LEMMA StepMovesForward ==
  ASSUME ConsistentStore, [PitNext]_pitVars, ConsistentStore', NEW c \in BarDays
  PROVE  /\ \A r \in Knowable(bars, c) : \E n \in Knowable(bars', c) : Succeeds(n, r)
         /\ \A r \in NewestVintages(macro, c) :
              \E n \in NewestVintages(macro', c) : Succeeds(n, r)
<1>0. /\ PitTypeOK /\ RowsAreKeyed /\ WhileAlone /\ ScansAreSound
      /\ PitTypeOK' /\ RowsAreKeyed'
  BY DEF ConsistentStore
<1>1. /\ \A r \in bars : r.ts \in Int /\ r.asOf \in Int /\ NoOlder(r.value, r.value)
      /\ \A r \in macro : r.ts \in Int /\ r.asOf \in Int /\ NoOlder(r.value, r.value)
      /\ \A r \in macro' : r.ts \in Int /\ r.asOf \in Int
  BY <1>0, PitAssumption, NotOlderThanItself
     DEF PitAssumption, PitTypeOK, RowsAreKeyed, BarDays
<1>2. ASSUME UNCHANGED bars
      PROVE  \A r \in Knowable(bars, c) : \E n \in Knowable(bars', c) : Succeeds(n, r)
  BY <1>1, <1>2 DEF Knowable, Succeeds
<1>3. ASSUME UNCHANGED macro
      PROVE  \A r \in NewestVintages(macro, c) :
               \E n \in NewestVintages(macro', c) : Succeeds(n, r)
  <2>1. NewestVintages(macro', c) = NewestVintages(macro, c)
    BY <1>3
  <2> QED
    BY <1>1, <2>1 DEF NewestVintages, Knowable, Succeeds
<1>4. ASSUME NEW p \in Scans, WriteBars(p)
      PROVE  \A r \in Knowable(bars, c) : \E n \in Knowable(bars', c) : Succeeds(n, r)
  <2> SUFFICES ASSUME NEW r \in Knowable(bars, c)
               PROVE  \E n \in Knowable(bars', c) : Succeeds(n, r)
    OBVIOUS
  <2>1. PICK x : scan[p].held = {x}
    BY <1>0, <1>4 DEF WriteBars, ScansAreSound, ScanIsSound
  <2>2. r \in bars /\ r.ts <= c /\ r.asOf <= c
    BY DEF Knowable
  <2>3. PICK n \in bars' : n.ts = r.ts /\ n.asOf = r.asOf /\ (n = r \/ n.value = x)
    BY <1>4, <2>1, <2>2, BarsUpserted
  <2>4. ~overlapped => NoOlder(x, r.value)
    BY <1>0, <1>4, <2>1, <2>2 DEF WriteBars, WhileAlone, HeldIsInOrder
  <2> QED
    BY <1>1, <2>2, <2>3, <2>4 DEF Knowable, Succeeds
<1>5. ASSUME NEW p \in Scans, WriteMacro(p)
      PROVE  \A r \in NewestVintages(macro, c) :
               \E n \in NewestVintages(macro', c) : Succeeds(n, r)
  <2> SUFFICES ASSUME NEW r \in NewestVintages(macro, c)
               PROVE  \E n \in NewestVintages(macro', c) : Succeeds(n, r)
    OBVIOUS
  <2>1. PICK x : scan[p].held = {x} /\ x.by = scan[p].provider
    BY <1>0, <1>5 DEF WriteMacro, ScansAreSound, ScanIsSound
  <2>2. /\ r \in macro /\ r.ts <= c /\ r.asOf <= c
        /\ \A q \in macro : q.ts = r.ts /\ q.asOf <= c => q.asOf <= r.asOf
    BY DEF NewestVintages, Knowable
  <2>3. /\ \E m \in macro' : m.ts = r.ts /\ m.asOf = r.asOf
        /\ \A m \in macro' : m \in macro \/ m.value = x
    BY <1>5, <2>1, <2>2, MacroUpserted
  <2>4. PICK m \in macro' : m.ts = r.ts /\ m.asOf = r.asOf
    BY <2>3
  <2>5. m \in Knowable(macro', c)
    BY <2>2, <2>4 DEF Knowable
  <2>6. PICK n \in NewestVintages(macro', c) : n.ts = m.ts /\ m.asOf <= n.asOf
    <3>1. \A y \in macro' : y.ts \in Int /\ (y.asOf = y.ts \/ y.asOf = y.ts + Lag)
      BY <1>0, PitAssumption DEF PitAssumption, PitTypeOK, RowsAreKeyed, LagOf, BarDays
    <3> QED
      BY <2>5, <3>1, NewestVintageExists
  <2>7. n \in macro' /\ n.asOf <= c /\ n.ts = r.ts /\ r.asOf <= n.asOf
    BY <2>4, <2>6 DEF NewestVintages, Knowable
  <2>8. ~overlapped => NoOlder(x, r.value)
    BY <1>0, <1>5, <2>1, <2>2 DEF WriteMacro, WhileAlone, HeldIsInOrder
  <2>9. n \in macro => n = r
    BY <1>0, <1>1, <2>2, <2>7 DEF RowsAreKeyed
  <2>10. ~overlapped => NoOlder(n.value, r.value)
    BY <1>1, <2>2, <2>3, <2>7, <2>8, <2>9
  <2> QED
    BY <2>6, <2>7, <2>10 DEF Succeeds
<1>6. ASSUME NEW p \in Scans, WriteBars(p) PROVE UNCHANGED macro
  BY <1>6 DEF WriteBars
<1>7. ASSUME NEW p \in Scans, WriteMacro(p) PROVE UNCHANGED bars
  BY <1>7 DEF WriteMacro
<1>8. \/ UNCHANGED <<bars, macro>>
      \/ \E p \in Scans : WriteBars(p) \/ WriteMacro(p)
  <2>1. NextDay \/ Revise \/ UNCHANGED pitVars => UNCHANGED <<bars, macro>>
    BY DEF NextDay, Revise, pitVars
  <2>2. ASSUME NEW p \in Scans, NEW provider, NEW to, FetchBars(p, provider, to)
        PROVE  UNCHANGED <<bars, macro>>
    BY <2>2 DEF FetchBars
  <2>3. ASSUME NEW p \in Scans, \/ ScanProfile(p) \/ FetchMacro(p) \/ ReadStore(p)
                               \/ WriteDerived(p) \/ StopScan(p)
        PROVE  UNCHANGED <<bars, macro>>
    BY <2>3 DEF ScanProfile, FetchMacro, ReadStore, WriteDerived, StopScan
  <2> QED
    BY <2>1, <2>2, <2>3 DEF PitNext
<1> QED
  BY <1>2, <1>3, <1>4, <1>5, <1>6, <1>7, <1>8

-----------------------------------------------------------------------------
(* Side by side, each command behaves as it does alone.                    *)
LEMMA EachCommandIsItself == CommandsSpec => EraSpec /\ TradeSpec /\ PitSpec
<1>1. CommandsInit => EraInit /\ TradeInit /\ PitInit
  BY DEF CommandsInit
<1>2. [CommandsNext]_<<focus, eraVars, tradeVars, pitVars>>
        => [EraNext]_eraVars /\ [TradeNext]_tradeVars /\ [PitNext]_pitVars
  BY DEF CommandsNext
<1> QED
  BY <1>1, <1>2, PTL DEF CommandsSpec, EraSpec, TradeSpec, PitSpec

(* The three commands: whatever overlaps, fails or is killed, no binding   *)
(* of a statement lands in another column.                                 *)
THEOREM CommandsTypeCorrect == CommandsSpec => []CommandsTypeOK
<1>1. EraInvariant => EraTypeOK
  BY DEF EraInvariant
<1>2. ConsistentStore => PitTypeOK
  BY DEF ConsistentStore
<1>3. EraTypeOK /\ TradeTypeOK /\ PitTypeOK => CommandsTypeOK
  BY DEF CommandsTypeOK
<1> QED
  BY <1>1, <1>2, <1>3, EachCommandIsItself, EraIsInvariant, TradesAreTyped,
     StoreStaysConsistent, PTL

(* Whatever a decision read at its bar, a later read at that cutoff finds  *)
(* again, in that vintage or a newer one, and never an older answer unless *)
(* scans overlap, however many scan, stop, and change provider.            *)
THEOREM ViewsMoveForward == CommandsSpec => PastViewsOnlyMoveForward
<1>1. ConsistentStore /\ [PitNext]_pitVars /\ ConsistentStore' =>
        [\A c \in BarDays :
           /\ \A r \in Knowable(bars, c) : \E n \in Knowable(bars', c) : Succeeds(n, r)
           /\ \A r \in NewestVintages(macro, c) :
                \E n \in NewestVintages(macro', c) : Succeeds(n, r)]_pitVars
  BY StepMovesForward
<1>2. PitSpec => PastViewsOnlyMoveForward
  BY <1>1, StoreStaysConsistent, PTL DEF PitSpec, PastViewsOnlyMoveForward
<1> QED
  BY <1>2, EachCommandIsItself, PTL

(* pit.rs: at every cutoff the reads of the store agree, and a derived     *)
(* feature is shown with its bar, ahead of it only if scans overlapped,    *)
(* for every lag, lookback, number of processes, days and revisions,       *)
(* whatever scans are killed half way.                                     *)
THEOREM StoreIsAlwaysConsistent == CommandsSpec => []StoreIsConsistent
<1>1. ConsistentStore => StoreIsConsistent
  BY ConsistentReadsAgree, ConsistentFeaturesFollow DEF StoreIsConsistent
<1> QED
  BY <1>1, EachCommandIsItself, StoreStaysConsistent, PTL
=============================================================================
