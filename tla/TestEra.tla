------------------------------ MODULE TestEra ------------------------------
(***************************************************************************)
(* `se test-era-score` (test_era.rs): every promoted strategy is scored    *)
(* once on the reserved era.  A command loads the promoted strategies,     *)
(* and for each looks for a row of test_era_scores, has the worker read    *)
(* the era, which takes minutes, inserts the result and reads the newest   *)
(* score to print the optimism gap.  Nothing locks the table meanwhile:    *)
(* commands may overlap, fail and be killed.  One era; a result is named   *)
(* by the number of the command that measured it.                          *)
(***************************************************************************)
EXTENDS Naturals

CONSTANTS
  EraStrategies,
  Scorers,     \* processes of the command
  Nothing,       \* no row, or no strategy in hand
  MaxCommands  \* bound on the commands ever begun

ASSUME TestEraAssumption ==
  /\ MaxCommands \in Nat \ {0}
  /\ Nothing \notin EraStrategies \cup (1..MaxCommands)

Commands == 1..MaxCommands

VARIABLES
  eraPromoted,  \* strategies with status promoted
  testEra,      \* test_era_scores: strategy -> its row
  begun,        \* number of commands begun
  scorer,       \* each process: pc, its command's number, what is left, what it holds
  gapOf,        \* printed gaps: <<command, strategy>>
  readings,     \* history: completed readings of the era per strategy
  disturbed     \* history: a command overlapped another, or ended early

eraVars == <<eraPromoted, testEra, begun, scorer, gapOf, readings, disturbed>>

Off == [pc |-> "off", cmd |-> 0, todo |-> {}, held |-> Nothing]

EraTypeOK ==
  /\ eraPromoted \subseteq EraStrategies
  /\ testEra \in [EraStrategies -> Commands \cup {Nothing}]
  /\ begun \in 0..MaxCommands
  /\ scorer \in [Scorers -> [pc : {"off", "check", "evaluate", "insert", "report"},
                             cmd : 0..MaxCommands, todo : SUBSET EraStrategies,
                             held : EraStrategies \cup {Nothing}]]
  /\ gapOf \subseteq Commands \X EraStrategies
  /\ readings \in [EraStrategies -> Nat]
  /\ disturbed \in BOOLEAN

EraInit ==
  /\ eraPromoted \in SUBSET EraStrategies
  /\ testEra = [s \in EraStrategies |-> Nothing]
  /\ begun = 0 /\ scorer = [p \in Scorers |-> Off] /\ gapOf = {}
  /\ readings = [s \in EraStrategies |-> 0] /\ disturbed = FALSE

-----------------------------------------------------------------------------
(* A search or a monitor changes the status of a strategy.                 *)
Reassessed(s) ==
  /\ \/ eraPromoted' = eraPromoted \cup {s} \/ eraPromoted' = eraPromoted \ {s}
  /\ UNCHANGED <<testEra, begun, scorer, gapOf, readings, disturbed>>

(* load_promoted, once; nothing promoted, nothing to score.                *)
BeginScoring(p) ==
  /\ scorer[p].pc = "off" /\ begun < MaxCommands /\ eraPromoted # {}
  /\ begun' = begun + 1
  /\ scorer' = [scorer EXCEPT ![p] = [pc |-> "check", cmd |-> begun + 1,
                                      todo |-> eraPromoted, held |-> Nothing]]
  /\ disturbed' = (disturbed \/ \E q \in Scorers : scorer[q].pc # "off")
  /\ UNCHANGED <<eraPromoted, testEra, gapOf, readings>>

(* Mutant: the era is read again for a strategy already scored.            *)
MayReadAgain(s) == TRUE

(* SELECT 1 FROM test_era_scores: a scored strategy is refused.            *)
MayRead(s) == testEra[s] = Nothing

(* The next strategy: refused, skipped for too few entries, or evaluated.  *)
CheckRow(p, s) ==
  /\ scorer[p].pc = "check" /\ s \in scorer[p].todo
  /\ \/ scorer' = [scorer EXCEPT ![p].todo = @ \ {s}]
     \/ /\ MayRead(s)
        /\ scorer' = [scorer EXCEPT ![p].pc = "evaluate", ![p].held = s,
                                    ![p].todo = @ \ {s}]
  /\ UNCHANGED <<eraPromoted, testEra, begun, gapOf, readings, disturbed>>

(* evaluate_with: the worker fits before the era and measures in it, or    *)
(* the call fails and the strategy is skipped.                             *)
EvaluateEra(p) ==
  /\ scorer[p].pc = "evaluate"
  /\ \/ /\ scorer' = [scorer EXCEPT ![p].pc = "insert"]
        /\ readings' = [readings EXCEPT ![scorer[p].held] = @ + 1]
     \/ /\ scorer' = [scorer EXCEPT ![p].pc = "check", ![p].held = Nothing]
        /\ UNCHANGED readings
  /\ UNCHANGED <<eraPromoted, testEra, begun, gapOf, disturbed>>

(* Mutant: ON CONFLICT DO UPDATE.                                          *)
AfterInsertReplacing(s, result) == result

(* Mutant: two bindings of the statement are swapped.                      *)
AfterInsertSwapped(s, result) == s

(* INSERT ... ON CONFLICT DO NOTHING.                                      *)
AfterInsert(s, result) == IF testEra[s] = Nothing THEN result ELSE testEra[s]

InsertEra(p) ==
  /\ scorer[p].pc = "insert"
  /\ testEra' = [testEra EXCEPT ![scorer[p].held] =
                   AfterInsert(scorer[p].held, scorer[p].cmd)]
  /\ scorer' = [scorer EXCEPT ![p].pc = "report"]
  /\ UNCHANGED <<eraPromoted, begun, gapOf, readings, disturbed>>

(* latest_oos_score, and the gap to what this command measured, if the     *)
(* strategy has a score with a precision.                                  *)
ReportGap(p) ==
  /\ scorer[p].pc = "report"
  /\ \/ gapOf' = gapOf \cup {<<scorer[p].cmd, scorer[p].held>>} \/ UNCHANGED gapOf
  /\ scorer' = [scorer EXCEPT ![p].pc = "check", ![p].held = Nothing]
  /\ UNCHANGED <<eraPromoted, testEra, begun, readings, disturbed>>

EndScoring(p) ==
  /\ scorer[p].pc = "check" /\ scorer[p].todo = {}
  /\ scorer' = [scorer EXCEPT ![p] = Off]
  /\ UNCHANGED <<eraPromoted, testEra, begun, gapOf, readings, disturbed>>

(* A failing statement or a kill.                                          *)
StopScoring(p) ==
  /\ scorer[p].pc # "off"
  /\ scorer' = [scorer EXCEPT ![p] = Off]
  /\ disturbed' = TRUE
  /\ UNCHANGED <<eraPromoted, testEra, begun, gapOf, readings>>

EraNext ==
  \/ \E s \in EraStrategies : Reassessed(s)
  \/ \E p \in Scorers :
       \/ BeginScoring(p) \/ EvaluateEra(p) \/ InsertEra(p) \/ ReportGap(p)
       \/ EndScoring(p) \/ StopScoring(p)
       \/ \E s \in EraStrategies : CheckRow(p, s)

EraSpec == EraInit /\ [][EraNext]_eraVars

-----------------------------------------------------------------------------
(* The once-only promise of the table, and of whoever opens the era: the   *)
(* primary key keeps the first result, the check keeps later commands out. *)
Looking == {<<p, scorer[p].held>> : p \in {q \in Scorers :
              scorer[q].pc \in {"evaluate", "insert"}}}

Once == INSTANCE OnceOnly WITH
  Strategies <- EraStrategies, Readers <- Scorers, Results <- Commands,
  NoResult <- Nothing, ledger <- testEra, looking <- Looking

EraIsOnceOnly == Once!OnceSpec

(* As long as commands neither overlap nor end early, the era is read at   *)
(* most once for every strategy, no reading is lost, and every printed gap *)
(* is the recorded one.  (Two overlapping commands both read it, and the   *)
(* loser prints a gap that is not on record: the check is minutes before   *)
(* the insert.)                                                            *)
QuietEraIsReadOnce ==
  ~disturbed =>
    /\ \A s \in EraStrategies :
         /\ readings[s] <= 1
         /\ readings[s] = 1 /\ testEra[s] = Nothing =>
              \E p \in Scorers : scorer[p].pc = "insert" /\ scorer[p].held = s
    /\ \A g \in gapOf : testEra[g[2]] = g[1]
=============================================================================
