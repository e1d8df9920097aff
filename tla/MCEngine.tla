------------------------------ MODULE MCEngine ------------------------------
(* The casts of the monitor, and the algorithms of the engine, which share *)
(* no state: a behaviour is either nights of the monitor, with no case in  *)
(* hand, or one case, with no night ever begun.                            *)
EXTENDS MCMonitor, MCAlgorithms

NoCase == [kind |-> "none"]

engineVars == <<monitorVars, cast, case>>

(* The cases come with one monitor, the smallest of its initial states.    *)
AnyCast == [sources |-> {}, weeks |-> 1, ends |-> 0]

RestInit ==
  /\ cast = AnyCast
  /\ MonitorInit
  /\ strategies \in [Ids -> [genome : Genomes, status : {"candidate"}]]
  /\ oosLatest = [id \in Ids |-> NoScore]

EngineInit ==
  \/ CastInit /\ case = NoCase
  \/ RestInit /\ CaseInit

Nights(A) == case = NoCase /\ A /\ UNCHANGED case

EngineNext ==
  \/ Nights(CastNext)
  \/ case # NoCase /\ CaseNext /\ UNCHANGED <<monitorVars, cast>>

(* A cast leaves every step of a night possible, so the night stays fair.  *)
EngineSpec ==
  /\ EngineInit
  /\ [][EngineNext]_engineVars
  /\ WF_engineVars(Nights(Night /\ InCast))
=============================================================================
