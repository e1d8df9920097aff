---------------------------- MODULE EventStream ----------------------------
(***************************************************************************)
(* se-api/stream.rs: one background poller reads rows newer than its       *)
(* high-water marks from `signals` and `monitor_events` and publishes them *)
(* on a tokio broadcast channel that every WebSocket reads at its own      *)
(* pace.  The writers are other processes: a signal is stamped now() by    *)
(* its own INSERT, while all events of a monitor night carry the one `now` *)
(* the night began with, however much later they are written.              *)
(***************************************************************************)
EXTENDS Naturals, Sequences, FiniteSets

CONSTANTS
  Viewers,   \* WebSocket connections
  Limit,     \* LIMIT of the poll queries (100)
  Cap,       \* CHANNEL_CAP (256)
  MaxRows,   \* bound: rows ever stored
  MaxClock,  \* bound: last instant
  MaxFail,   \* bound: failed poll queries
  MaxStop,   \* bound: times the API process stops
  NoCursor   \* a socket that is not connected

Feeds == {"signal", "monitor"}

ASSUME StreamAssumption ==
  /\ Limit \in Nat \ {0}
  /\ Cap \in Nat \ {0}
  /\ MaxRows \in Nat /\ MaxClock \in Nat \ {0} /\ MaxFail \in Nat /\ MaxStop \in Nat
  /\ NoCursor \notin Nat

StreamRow == [feed : Feeds, ts : 0..MaxClock, id : 1..MaxRows]

VARIABLES
  table,   \* rows of both tables
  clock,   \* the current instant
  night,   \* `now` of the monitor night in progress
  up,      \* the API process runs
  mark,    \* last_signal, last_event
  turn,    \* the feed the poller reads next
  batch,   \* rows read and not yet published
  sent,    \* frames published by this process, oldest first
  cursor,  \* next frame of each socket, or NoCursor
  got,     \* frames each socket's current connection was sent
  failed,  \* failed poll queries
  stops,   \* times the process stopped
  since    \* history: the marks the process started with

writerVars == <<table, clock, night>>
pollerVars == <<mark, turn, batch, sent>>
socketVars == <<cursor, got>>
streamVars == <<writerVars, up, pollerVars, socketVars, failed, stops, since>>

StreamTypeOK ==
  /\ table \subseteq StreamRow
  /\ clock \in 0..MaxClock
  /\ night \in 0..MaxClock
  /\ up \in BOOLEAN
  /\ mark \in [Feeds -> 0..MaxClock]
  /\ turn \in Feeds
  /\ batch \in Seq(StreamRow)
  /\ sent \in Seq(StreamRow)
  /\ cursor \in [Viewers -> (Nat \ {0}) \cup {NoCursor}]
  /\ got \in [Viewers -> Seq(StreamRow)]
  /\ failed \in 0..MaxFail
  /\ stops \in 0..MaxStop
  /\ since \in [Feeds -> 0..MaxClock]

StreamInit ==
  /\ table = {}
  /\ clock = 0
  /\ night = 0
  /\ up = FALSE
  /\ mark = [f \in Feeds |-> 0]
  /\ turn = "signal"
  /\ batch = <<>>
  /\ sent = <<>>
  /\ cursor = [v \in Viewers |-> NoCursor]
  /\ got = [v \in Viewers |-> <<>>]
  /\ failed = 0
  /\ stops = 0
  /\ since = [f \in Feeds |-> 0]

-----------------------------------------------------------------------------
(* Rows of a feed, and those strictly after an instant.                    *)
Rows(f) == {row \in table : row.feed = f}

Newer(f, t) == {row \in Rows(f) : row.ts > t}

NewRow(f, t) == [feed |-> f, ts |-> t, id |-> Cardinality(table) + 1]

(* persist_signal: created_at defaults to the now() of the statement; one  *)
(* process emits signals, so each row is stamped later than the one before.*)
EmitSignal ==
  /\ Cardinality(table) < MaxRows
  /\ clock < MaxClock
  /\ clock' = clock + 1
  /\ table' = table \cup {NewRow("signal", clock + 1)}
  /\ UNCHANGED <<night, up, pollerVars, socketVars, failed, stops, since>>

(* run_daily_with takes `now` once.                                        *)
StartNight ==
  /\ clock < MaxClock
  /\ clock' = clock + 1
  /\ night' = clock + 1
  /\ UNCHANGED <<table, up, pollerVars, socketVars, failed, stops, since>>

(* write_event: the row carries the night's `now`.                         *)
EmitEvent ==
  /\ night > 0
  /\ Cardinality(table) < MaxRows
  /\ table' = table \cup {NewRow("monitor", night)}
  /\ UNCHANGED <<clock, night, up, pollerVars, socketVars, failed, stops, since>>

-----------------------------------------------------------------------------
Latest(f) == {row.ts : row \in {x \in Rows(f) : \A y \in Rows(f) : y.ts <= x.ts}}

(* max_signal_ts, max_event_ts: MAX over the table, or now when the table  *)
(* is empty or the query fails.                                            *)
StartMarks == {m \in [Feeds -> 0..MaxClock] : \A f \in Feeds : m[f] \in Latest(f) \cup {clock}}

StartApi ==
  /\ ~up
  /\ up' = TRUE
  /\ \E m \in StartMarks : mark' = m /\ since' = m
  /\ turn' = "signal"
  /\ UNCHANGED <<writerVars, batch, sent, socketVars, failed, stops>>

(* The results a poll query may return: at most Limit rows after the mark, *)
(* ORDER BY ts ASC; rows with equal timestamps come in any order.          *)
Batches(f) ==
  LET newer == Newer(f, mark[f])
      sizes == {k \in 0..Limit : k = Limit \/ k = Cardinality(newer)}
  IN  UNION {{b \in [1..k -> newer] :
        /\ \A i, j \in 1..k : i < j => b[i] # b[j] /\ b[i].ts <= b[j].ts
        /\ \A row \in newer : (\E i \in 1..k : b[i] = row) \/ \A i \in 1..k : b[i].ts <= row.ts} :
        k \in sizes}

(* Mutant: the mark becomes the present instant.                           *)
MarkNow(f, b) == IF b = <<>> THEN mark[f] ELSE clock

(* Mutant: the mark stops short of the last row.                           *)
MarkFirst(f, b) == IF b = <<>> THEN mark[f] ELSE b[1].ts

(* Mutant: a failed query also moves the mark.                             *)
PollFailsForward ==
  /\ up
  /\ batch = <<>>
  /\ failed < MaxFail
  /\ failed' = failed + 1
  /\ mark' = [mark EXCEPT ![turn] = clock]
  /\ turn' = turn
  /\ UNCHANGED <<writerVars, up, batch, sent, socketVars, stops, since>>

(* hw: the timestamp of the last row returned.                             *)
MarkAfter(f, b) == IF b = <<>> THEN mark[f] ELSE b[Len(b)].ts

OtherFeed(f) == IF f = "signal" THEN "monitor" ELSE "signal"

(* new_signals, new_events: the mark moves before the rows are published.  *)
Poll ==
  /\ up
  /\ batch = <<>>
  /\ \E b \in Batches(turn) :
       /\ batch' = b
       /\ mark' = [mark EXCEPT ![turn] = MarkAfter(turn, b)]
  /\ turn' = OtherFeed(turn)
  /\ UNCHANGED <<writerVars, up, sent, socketVars, failed, stops, since>>

(* A poll query that fails leaves the mark and publishes nothing.          *)
PollFails ==
  /\ up
  /\ batch = <<>>
  /\ failed < MaxFail
  /\ failed' = failed + 1
  /\ turn' = OtherFeed(turn)
  /\ UNCHANGED <<writerVars, up, mark, batch, sent, socketVars, stops, since>>

(* StreamHub::publish, one frame at a time; sockets run in between.        *)
Publish ==
  /\ batch # <<>>
  /\ sent' = Append(sent, Head(batch))
  /\ batch' = Tail(batch)
  /\ UNCHANGED <<writerVars, up, mark, turn, socketVars, failed, stops, since>>

(* The process ends: hub and connections go with it.                       *)
StopApi ==
  /\ up
  /\ stops < MaxStop
  /\ stops' = stops + 1
  /\ up' = FALSE
  /\ batch' = <<>>
  /\ sent' = <<>>
  /\ cursor' = [v \in Viewers |-> NoCursor]
  /\ got' = [v \in Viewers |-> <<>>]
  /\ UNCHANGED <<writerVars, mark, turn, failed, since>>

-----------------------------------------------------------------------------
(* StreamHub::subscribe: a new receiver sees frames sent from now on.      *)
Connect(v) ==
  /\ up
  /\ cursor[v] = NoCursor
  /\ cursor' = [cursor EXCEPT ![v] = Len(sent) + 1]
  /\ got' = [got EXCEPT ![v] = <<>>]
  /\ UNCHANGED <<writerVars, up, pollerVars, failed, stops, since>>

(* The ring keeps the last Cap frames; a receiver behind it gets Lagged.   *)
Lagging(v) == cursor[v] + Cap <= Len(sent)

Pending(v) == cursor[v] # NoCursor /\ cursor[v] <= Len(sent)

(* serve_socket: forward the next frame, ...                               *)
Receive(v) ==
  /\ Pending(v)
  /\ ~Lagging(v)
  /\ got' = [got EXCEPT ![v] = Append(@, sent[cursor[v]])]
  /\ cursor' = [cursor EXCEPT ![v] = @ + 1]
  /\ UNCHANGED <<writerVars, up, pollerVars, failed, stops, since>>

(* ... or, after Lagged, go on with the oldest frame still in the ring.    *)
SkipAhead(v) ==
  /\ Pending(v)
  /\ Lagging(v)
  /\ cursor' = [cursor EXCEPT ![v] = Len(sent) - Cap + 1]
  /\ UNCHANGED <<writerVars, up, pollerVars, got, failed, stops, since>>

(* The client is gone.                                                     *)
Disconnect(v) ==
  /\ cursor[v] # NoCursor
  /\ cursor' = [cursor EXCEPT ![v] = NoCursor]
  /\ UNCHANGED <<writerVars, up, pollerVars, got, failed, stops, since>>

-----------------------------------------------------------------------------
Writer == EmitSignal \/ StartNight \/ EmitEvent

Poller == Poll \/ Publish

Socket(v) == Connect(v) \/ Receive(v) \/ SkipAhead(v) \/ Disconnect(v)

StreamNext ==
  \/ Writer
  \/ StartApi
  \/ Poller
  \/ PollFails
  \/ StopApi
  \/ \E v \in Viewers : Socket(v)

StreamSpec == StreamInit /\ [][StreamNext]_streamVars

(* The interval ticker fires for ever and publish never blocks, so the     *)
(* poller is fair; it runs whether or not anybody is connected.            *)
FairStreamSpec == StreamSpec /\ WF_streamVars(Poller)

-----------------------------------------------------------------------------
(* Rows the poller has taken from the table since it started.              *)
Offered == {sent[i] : i \in DOMAIN sent} \cup {batch[i] : i \in DOMAIN batch}

(* Rows that no later poll will return and that were never taken.          *)
Skipped == {row \in table : row.ts > since[row.feed] /\ row.ts <= mark[row.feed] /\ row \notin Offered}

(* A signal stamped after the marks the poller started with is taken or    *)
(* still ahead of the mark, also when more than Limit rows arrive between  *)
(* two polls and when polls fail.                                          *)
SignalsAreNeverSkipped == up => \A row \in Skipped : row.feed # "signal"

(* Only a row that shares its timestamp with one already taken is lost.    *)
LossNeedsATie ==
  up => \A row \in Skipped : \E x \in Offered : x.feed = row.feed /\ x.ts = row.ts

(* A signal emitted while the API runs is eventually published.            *)
SignalsArePublished ==
  \A id \in 1..MaxRows :
    (up /\ \E row \in Rows("signal") : row.id = id /\ row.ts > since["signal"])
      ~> (~up \/ \E i \in DOMAIN sent : sent[i].id = id)

(* Every connection shows rows at most once and each feed in order.        *)
Feed == INSTANCE LiveFeed WITH
  Feeds <- Feeds, Viewers <- Viewers, table <- table, got <- got

ImplementsLiveFeed == Feed!FeedSpec

(* stream.rs:86 says the poller streams the rows that appear after its     *)
(* startup: a monitor event of a night begun after startup is streamed.    *)
EventsAfterStartupAreStreamed ==
  up => \A row \in Skipped : row.feed # "monitor"

-----------------------------------------------------------------------------
(* The inductive strengthening behind ImplementsLiveFeed.  Frames leave in *)
(* an order in which a later one is another row, not older in its feed.    *)
MayPrecede(x, y) == x # y /\ (x.feed = y.feed => x.ts <= y.ts)

(* Frames sent, then frames waiting, are rows in that order.               *)
FramesAreOrdered ==
  /\ \A i, j \in 1..Len(sent) : i < j => MayPrecede(sent[i], sent[j])
  /\ \A i, j \in 1..Len(batch) : i < j => MayPrecede(batch[i], batch[j])
  /\ \A i \in 1..Len(sent), j \in 1..Len(batch) : MayPrecede(sent[i], batch[j])

(* Whatever was taken is stored, and behind the mark of its feed, so no    *)
(* later poll returns it again.                                            *)
FramesAreBehindMark ==
  /\ \A i \in 1..Len(sent) : sent[i] \in table /\ sent[i].ts <= mark[sent[i].feed]
  /\ \A i \in 1..Len(batch) : batch[i] \in table /\ batch[i].ts <= mark[batch[i].feed]

(* A connection has shown only frames before its cursor.                   *)
ShownIsBeforeCursor ==
  \A v \in Viewers : cursor[v] # NoCursor =>
    /\ cursor[v] <= Len(sent) + 1
    /\ \A k \in 1..Len(got[v]) : \E i \in 1..(cursor[v] - 1) : got[v][k] = sent[i]

(* Nothing outlives the process.                                           *)
DownIsEmpty ==
  ~up => sent = <<>> /\ batch = <<>> /\ \A v \in Viewers : cursor[v] = NoCursor

(* Frames as a whole: typed, in order, behind the marks, shown once.       *)
FrameInvariant ==
  /\ StreamTypeOK
  /\ IsFiniteSet(table)
  /\ FramesAreOrdered
  /\ FramesAreBehindMark
  /\ ShownIsBeforeCursor
  /\ DownIsEmpty

(* No stamp lies in the future, none of an event after its night, and no   *)
(* two signals bear the same one.                                          *)
StampsAreCurrent ==
  /\ night <= clock
  /\ \A f \in Feeds : mark[f] <= clock
  /\ \A row \in table : row.ts <= clock /\ (row.feed = "monitor" => row.ts <= night)
  /\ \A x, y \in Rows("signal") : x.ts = y.ts => x = y

(* A mark that has moved since the process started lies at a row taken.    *)
MarkIsTaken ==
  up => \A f \in Feeds :
    mark[f] = since[f] \/ \E x \in Offered : x.feed = f /\ x.ts = mark[f]

(* The stream as a whole: frames leave once and in order, and the marks    *)
(* the poller goes by are those of rows it has taken.                      *)
StreamInvariant ==
  /\ FrameInvariant
  /\ StampsAreCurrent
  /\ MarkIsTaken
=============================================================================
