------------------------------ MODULE OnceOnly ------------------------------
(***************************************************************************)
(* What the locked test era promises: a strategy's result is recorded at   *)
(* most once and never replaced, and no reader opens the era for a         *)
(* strategy whose result is on record.  Readers may look at the same time, *)
(* and a reader may give up.                                               *)
(***************************************************************************)
CONSTANTS
  Strategies,
  Readers,
  Results,
  NoResult    \* nothing recorded

VARIABLES
  ledger,   \* the recorded result of each strategy
  looking   \* <<reader, strategy>>: readings begun and not yet over

onceVars == <<ledger, looking>>

OnceInit == ledger = [s \in Strategies |-> NoResult] /\ looking = {}

Open(r, s) ==
  /\ ledger[s] = NoResult /\ <<r, s>> \notin looking
  /\ looking' = looking \cup {<<r, s>>}
  /\ UNCHANGED ledger

Close(r, s) ==
  /\ <<r, s>> \in looking
  /\ looking' = looking \ {<<r, s>>}
  /\ \/ UNCHANGED ledger
     \/ /\ ledger[s] = NoResult
        /\ \E x \in Results : ledger' = [ledger EXCEPT ![s] = x]

OnceNext == \E r \in Readers, s \in Strategies : Open(r, s) \/ Close(r, s)

OnceSpec == OnceInit /\ [][OnceNext]_onceVars
=============================================================================
