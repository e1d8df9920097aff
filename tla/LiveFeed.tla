------------------------------ MODULE LiveFeed ------------------------------
(***************************************************************************)
(* What an operator watching /api/stream may rely on, with no poller, no   *)
(* high-water mark and no broadcast ring: a connection shows stored rows,  *)
(* each at most once, and those of one feed in timestamp order.  It does   *)
(* not promise that every row is shown.                                    *)
(***************************************************************************)
EXTENDS Naturals, Sequences

CONSTANTS
  Feeds,    \* the streamed tables
  Viewers   \* sockets

VARIABLES
  table,  \* rows stored so far: [feed, ts, id]
  got     \* what each viewer's current connection has shown, in order

feedVars == <<table, got>>

FeedInit == table = {} /\ got = [v \in Viewers |-> <<>>]

(* A writer stores rows.                                                   *)
Store == /\ \E new \in SUBSET table' : table' = table \cup new
         /\ UNCHANGED got

(* A connection starts, or ends: nothing of an earlier one is remembered.  *)
Restart == /\ UNCHANGED table
           /\ \E gone \in SUBSET Viewers :
                got' = [v \in Viewers |-> IF v \in gone THEN <<>> ELSE got[v]]

(* A row is shown: not shown before, and not older than its feed's last.   *)
Show(v, row) ==
  /\ row \in table
  /\ \A k \in DOMAIN got[v] :
       /\ got[v][k] # row
       /\ got[v][k].feed = row.feed => got[v][k].ts <= row.ts
  /\ got' = [got EXCEPT ![v] = Append(@, row)]
  /\ UNCHANGED table

FeedNext == Store \/ Restart \/ \E v \in Viewers, row \in table : Show(v, row)

FeedSpec == FeedInit /\ [][FeedNext]_feedVars
=============================================================================
