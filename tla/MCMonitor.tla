----------------------------- MODULE MCMonitor -----------------------------
(* Score and breach spaces for checking Monitor, and the casts one run     *)
(* plays in turn: fresh sources with nights that end early over several    *)
(* weeks, or stale ones in the undisturbed nights of one week.             *)
EXTENDS Monitor

(* A promotable result, and one that fails the gate.                       *)
PassFail ==
  {[gate |-> TRUE, edge |-> TRUE, track |-> TRUE],
   [gate |-> FALSE, edge |-> FALSE, track |-> FALSE]}

(* No breach, one that condemns alone, and the bad streak that meets every *)
(* other condition at once.                                                *)
Breaches ==
  {{}, {"quarantine_gap"}, {"shrink_gap", "miscalibrated", "drawdown", "decay"}}

VARIABLE cast

Casts == {[sources |-> {}, weeks |-> MaxWeek, ends |-> MaxCrash],
          [sources |-> Sources, weeks |-> 1, ends |-> 0]}

CastInit == MonitorInit /\ cast \in Casts

InCast ==
  /\ UNCHANGED cast
  /\ week' <= cast.weeks
  /\ crashes' <= cast.ends
  /\ \A s \in queue' : s.id \in Ids \cup cast.sources

CastNext == MonitorNext /\ InCast
=============================================================================
