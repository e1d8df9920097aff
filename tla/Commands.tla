------------------------------ MODULE Commands ------------------------------
(***************************************************************************)
(* The three commands that own their table: `se test-era-score`,           *)
(* `se trades` and `se scan`.  Each is its own module; they share no row,  *)
(* so a behaviour begins by choosing which of them to follow.              *)
(***************************************************************************)
EXTENDS TestEra, TradeReplay, PitStore

VARIABLE focus

CommandsInit ==
  /\ focus \in {"test-era-score", "trades", "scan"}
  /\ EraInit /\ TradeInit /\ PitInit
  /\ focus # "test-era-score" => eraPromoted = {}
  /\ focus # "trades" => tradePromoted = {}

CommandsNext ==
  /\ UNCHANGED focus
  /\ \/ focus = "test-era-score" /\ EraNext /\ UNCHANGED <<tradeVars, pitVars>>
     \/ focus = "trades" /\ TradeNext /\ UNCHANGED <<eraVars, pitVars>>
     \/ focus = "scan" /\ PitNext /\ UNCHANGED <<eraVars, tradeVars>>

CommandsSpec ==
  CommandsInit /\ [][CommandsNext]_<<focus, eraVars, tradeVars, pitVars>>

-----------------------------------------------------------------------------
(* test_era.rs, trades.rs, store.rs: the tables keep their types, so that  *)
(* no binding of a statement lands in another column.                      *)
CommandsTypeOK == EraTypeOK /\ TradeTypeOK /\ PitTypeOK

(* pit.rs: every read of the store tells the same story at a cutoff, a     *)
(* feature is never shown without the bar it was computed from, and of     *)
(* scans that do not overlap never runs ahead of it.                       *)
StoreIsConsistent == PitReadsAgree /\ FeaturesFollowTheirBars
=============================================================================
