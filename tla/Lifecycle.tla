----------------------------- MODULE Lifecycle -----------------------------
(***************************************************************************)
(* The search and the monitor over one strategies table, as separate       *)
(* processes: `se nightly` runs its monitor while any `se search` may be   *)
(* between two statements of a generation.  Neither takes a lock; each     *)
(* trusts what it read.  The table starts empty, so every row in it was    *)
(* written by the modelled code.                                           *)
(***************************************************************************)
EXTENDS Search, Monitor

monitorLocals == <<nightVars, events, week, breach, changelog, crashes, removed>>

lifecycleVars == <<tableVars, runVars, monitorLocals>>

LifecycleInit == SearchInit /\ MonitorLocalInit

LifecycleNext ==
  \/ SearchNext /\ UNCHANGED monitorLocals
  \/ MonitorNext /\ UNCHANGED runVars

LifecycleSpec == LifecycleInit /\ [][LifecycleNext]_lifecycleVars

-----------------------------------------------------------------------------
Condemned(id) ==
  HasStatus(id, "quarantined") \/ HasStatus(id, "demoted") \/ HasStatus(id, "retired")

(* Runs that still hold a strategy under its id.                           *)
Holders(id) ==
  {r \in Runs : pc[r] \notin {"done", "crashed"} /\ \E g \in Genomes : idFor[r][g] = id}

(* Once the run that found a strategy has ended, the monitor's verdict on  *)
(* it is final: no other search, however it overlaps, takes the row out of *)
(* quarantined, demoted or retired again.                                  *)
VerdictOutlivesTheRun ==
  [][\A id \in Ids : Condemned(id) /\ Holders(id) = {} => Condemned(id)']_lifecycleVars

(* What the proofs rest on: the monitor keeps what the searches rely on,   *)
(* since a flip it owes only ever condemns, and what it queued are rows.   *)
OwedFlipsCondemn ==
  \A i \in DOMAIN todo : todo[i].op = "status" =>
    todo[i].status \in {"quarantined", "demoted", "retired"}

WatchedAreStrategies == mpc = "strategies" => \A s \in queue : s.id \in Ids

(* As long as no promotion outlives its score: se-monitor/lib.rs:136-139   *)
(* expects that one can, by a score another build has written.             *)
RegateQueueIsEmpty == mpc = "regate" => queue = {}

SharedTableInvariant ==
  /\ SearchInvariant
  /\ MonitorTypeOK
  /\ OwedFlipsCondemn
  /\ WatchedAreStrategies
  /\ RegateQueueIsEmpty

(* A search never writes the statuses a reason is due for, so quarantines  *)
(* and demotions stay on record beside it, although it may write the very  *)
(* row the monitor is about to flip.                                       *)
OwedFlipsHaveReasons == ReasonsComeFirst(todo, events, DemotedBy)

(* A night that is over owes nothing, however it ended.                    *)
NothingOwedAtRest == mpc = "idle" => todo = <<>>

LifecycleInvariant ==
  /\ SharedTableInvariant
  /\ CondemnationIsOnRecord
  /\ OwedFlipsHaveReasons
  /\ NothingOwedAtRest
=============================================================================
