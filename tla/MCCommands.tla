----------------------------- MODULE MCCommands -----------------------------
(* The commands one at a time: one search, two strategies to score, three  *)
(* of two scanners to replay, or two scans.                                *)
EXTENDS Commands, MCSearch

CONSTANTS e1, e2, a1, a2, b1, p1, p2

Profiles ==
  [s \in {a1, a2, b1} |->
     [scanner |-> IF s = b1 THEN "equity" ELSE "etf",
      horizon |-> IF s = a2 THEN "position" ELSE "swing"]]

OneCommandInit ==
  /\ SearchInit
  /\ \/ CommandsInit
     \/ /\ focus = "search"
        /\ EraInit /\ TradeInit /\ PitInit
        /\ eraPromoted = {} /\ tradePromoted = {}

OneCommandNext ==
  \/ CommandsNext /\ UNCHANGED searchVars
  \/ focus = "search" /\ SearchNext /\ UNCHANGED <<focus, eraVars, tradeVars, pitVars>>

OneCommandSpec ==
  OneCommandInit
    /\ [][OneCommandNext]_<<focus, eraVars, tradeVars, pitVars, searchVars>>

(* The two processes of a command are interchangeable.                     *)
ProcessSymmetry == Permutations({p1, p2})
=============================================================================
