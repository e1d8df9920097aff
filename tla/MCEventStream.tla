--------------------------- MODULE MCEventStream ---------------------------
(* The bounds a run of EventStream plays in turn: sockets while no poll    *)
(* fails, or failing polls over a longer time while nobody is connected.   *)
EXTENDS EventStream

VARIABLE cast

Casts ==
  {[viewers |-> Viewers, clock |-> MaxClock - 1, fails |-> 0],
   [viewers |-> {}, clock |-> MaxClock, fails |-> MaxFail]}

CastInit == StreamInit /\ cast \in Casts

CastNext ==
  /\ StreamNext
  /\ UNCHANGED cast
  /\ clock' <= cast.clock
  /\ failed' <= cast.fails
  /\ \A v \in Viewers \ cast.viewers : cursor'[v] = NoCursor

CastSpec == CastInit /\ [][CastNext]_<<streamVars, cast>> /\ WF_streamVars(Poller)
=============================================================================
