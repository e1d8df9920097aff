--------------------------- MODULE StrategyTable ---------------------------
(***************************************************************************)
(* The two PostgreSQL tables every lifecycle decision goes through:        *)
(* `strategies` (one row per StrategyId: genome and status) and            *)
(* `oos_scores` (the out-of-sample scoreboard), with the statements of     *)
(* se-search/persist.rs and se-monitor/lib.rs that write them.  Each       *)
(* statement commits on its own (sqlx pool, no transaction), so each is    *)
(* one atomic operator here and a process may stop between any two.        *)
(*                                                                         *)
(* A genome stands for its canonical signature: two genomes that fire and  *)
(* manage risk identically are the same element of Genomes.                *)
(***************************************************************************)
EXTENDS Naturals, FiniteSets

CONSTANTS
  Genomes,     \* canonical genome signatures
  Ids,         \* StrategyId values (fresh random UUIDs)
  Actionable,  \* genomes with a trigger or location predicate
  ScoreSpace,  \* the out-of-sample results the validator may return
  NoRow,       \* no row with this primary key
  NoScore      \* no score: the genome was not, or could not be, validated

(***************************************************************************)
(* What the lifecycle reads of an OosScore: whether the hard gate passed   *)
(* (gate), whether expectancy and DSR are positive and PBO below one half  *)
(* (edge: three of the gate's four conditions), and whether enough trades  *)
(* were acted on with a Wilson lower bound over the floor (track).         *)
(***************************************************************************)
Scores == {s \in [gate : BOOLEAN, edge : BOOLEAN, track : BOOLEAN] :
             s.gate => s.edge}

ASSUME TableAssumption ==
  /\ Actionable \subseteq Genomes
  /\ ScoreSpace \subseteq Scores
  /\ NoScore \notin Scores

Status == {"candidate", "promoted", "quarantined", "demoted", "retired"}

Row == [genome : Genomes, status : Status]

ASSUME RowAssumption == NoRow \notin Row

VARIABLES
  strategies,  \* strategies: primary key -> row, or NoRow
  oosLatest,   \* the newest oos_scores row of each strategy, or NoScore
  touched      \* rows whose updated_at lies in the current ISO week

tableVars == <<strategies, oosLatest, touched>>

TableTypeOK ==
  /\ strategies \in [Ids -> Row \cup {NoRow}]
  /\ oosLatest \in [Ids -> ScoreSpace \cup {NoScore}]
  /\ touched \in SUBSET Ids

Stored == {id \in Ids : strategies[id] # NoRow}

HasStatus(id, st) == id \in Stored /\ strategies[id].status = st

(* can_surface: only a promoted strategy is loaded for signal generation.  *)
PromotedIds == {id \in Ids : HasStatus(id, "promoted")}

(* Evaluated::survives and Evaluated::promotable.                          *)
Survives(sc) == sc # NoScore /\ (sc.gate \/ sc.edge)

Promotable(g, sc) ==
  /\ sc # NoScore
  /\ sc.gate
  /\ g \in Actionable
  /\ sc.track

TableInit ==
  /\ strategies = [id \in Ids |-> NoRow]
  /\ oosLatest = [id \in Ids |-> NoScore]
  /\ touched = {}

(* Mutant: the conflict clause leaves the status of the row as it is.      *)
UpsertKeepingStatus(id, g, st) ==
  /\ strategies' = [strategies EXCEPT ![id] =
       [genome |-> g, status |-> IF @ = NoRow THEN st ELSE @.status]]
  /\ touched' = touched \cup {id}

(* INSERT ... ON CONFLICT (strategy_id) DO UPDATE: genome and status are   *)
(* both overwritten by the caller's values.                                *)
UpsertStrategy(id, g, st) ==
  /\ strategies' = [strategies EXCEPT ![id] = [genome |-> g, status |-> st]]
  /\ touched' = touched \cup {id}

(* Mutant: the update forgets updated_at.                                  *)
UpdateStatusUndated(id, st) ==
  /\ strategies' = IF id \in Stored THEN [strategies EXCEPT ![id].status = st] ELSE strategies
  /\ UNCHANGED touched

(* UPDATE strategies SET status WHERE strategy_id: unconditional on the    *)
(* current status, and a no-op when there is no such row.                  *)
UpdateStatus(id, st) ==
  IF id \in Stored
  THEN /\ strategies' = [strategies EXCEPT ![id].status = st]
       /\ touched' = touched \cup {id}
  ELSE UNCHANGED <<strategies, touched>>

(* Mutant: the first score of a strategy is never superseded.              *)
InsertFirstScoreOnly(id, sc) ==
  oosLatest' = [oosLatest EXCEPT ![id] = IF @ = NoScore THEN sc ELSE @]

(* INSERT INTO oos_scores: evaluated_at defaults to now(), so the row just *)
(* inserted is the newest one of its strategy.                             *)
InsertOosScore(id, sc) == oosLatest' = [oosLatest EXCEPT ![id] = sc]

(* A strategy that may surface signals has a newest out-of-sample score    *)
(* that passed the gate and the promotion guardrails, at every moment of   *)
(* any number of overlapping or aborted runs: re-persisting an elite       *)
(* lowers its row to candidate before a worse score can be inserted.       *)
PromotedHasPassingScore ==
  \A id \in PromotedIds : Promotable(strategies[id].genome, oosLatest[id])
=============================================================================
