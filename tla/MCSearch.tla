------------------------------ MODULE MCSearch ------------------------------
(* Model values and the small score spaces for checking Search.            *)
EXTENDS Search, TLC

(* Every result the validator can return.                                  *)
AllScores == Scores

(* One result of each verdict: promotable, kept, retired.                  *)
VerdictScores ==
  {[gate |-> TRUE, edge |-> TRUE, track |-> TRUE],
   [gate |-> FALSE, edge |-> TRUE, track |-> TRUE],
   [gate |-> FALSE, edge |-> FALSE, track |-> FALSE]}
=============================================================================
