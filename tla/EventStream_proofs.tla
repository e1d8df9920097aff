------------------------- MODULE EventStream_proofs -------------------------
(***************************************************************************)
(* The event stream implements LiveFeed for every number of viewers, every *)
(* LIMIT and every channel capacity: no connection ever shows a row twice  *)
(* or out of order within its feed, across polls, lag and restarts.  What  *)
(* the poller leaves behind its marks it has taken, up to rows of one and  *)
(* the same instant.                                                       *)
(***************************************************************************)
EXTENDS EventStream, FiniteSetTheorems, TLAPS

(* A row a writer adds has the declared shape, whatever its timestamp.     *)
LEMMA NewRowIsTyped ==
  ASSUME IsFiniteSet(table), Cardinality(table) < MaxRows,
         NEW f \in Feeds, NEW t \in 0..MaxClock
  PROVE  NewRow(f, t) \in StreamRow
<1>1. Cardinality(table) \in Nat
  BY FS_CardinalityType
<1> QED
  BY <1>1, StreamAssumption DEF NewRow, StreamRow

(* What a poll returns: distinct rows after the mark, in timestamp order,  *)
(* and a mark at the last of them.                                         *)
LEMMA BatchIsSound ==
  ASSUME StreamTypeOK, NEW f \in Feeds, NEW b \in Batches(f)
  PROVE  /\ b \in Seq(StreamRow)
         /\ \A i \in 1..Len(b) : b[i] \in table /\ b[i].feed = f /\ b[i].ts > mark[f]
         /\ \A i, j \in 1..Len(b) : i < j => MayPrecede(b[i], b[j])
         /\ MarkAfter(f, b) \in 0..MaxClock
         /\ MarkAfter(f, b) >= mark[f]
         /\ \A i \in 1..Len(b) : b[i].ts <= MarkAfter(f, b)
<1> DEFINE newer == Newer(f, mark[f])
<1>1. PICK k \in 0..Limit :
        /\ b \in [1..k -> newer]
        /\ \A i, j \in 1..k : i < j => b[i] # b[j] /\ b[i].ts <= b[j].ts
  BY DEF Batches
<1>2. k \in Nat /\ mark[f] \in 0..MaxClock /\ MaxClock \in Nat
  BY <1>1, StreamAssumption DEF StreamTypeOK
<1>3. newer \subseteq StreamRow /\ \A row \in newer : row \in table /\ row.feed = f /\ row.ts > mark[f]
  BY DEF Newer, Rows, StreamTypeOK
<1>4. b \in Seq(newer) /\ Len(b) = k
  BY <1>1, <1>2
<1>5. b \in Seq(StreamRow)
  BY <1>3, <1>4
<1>6. \A i \in 1..k : b[i] \in newer /\ b[i].ts \in 0..MaxClock
  BY <1>1, <1>3 DEF StreamRow
<1>7. \A i, j \in 1..Len(b) : i < j => MayPrecede(b[i], b[j])
  BY <1>1, <1>4 DEF MayPrecede
<1>8. CASE b = <<>>
  BY <1>2, <1>5, <1>8 DEF MarkAfter
<1>9. CASE b # <<>>
  <2>1. k \in 1..k
    BY <1>2, <1>4, <1>9
  <2>2. MarkAfter(f, b) = b[k].ts
    BY <1>4, <1>9 DEF MarkAfter
  <2>3. \A i \in 1..k : b[i].ts <= b[k].ts
    <3> SUFFICES ASSUME NEW i \in 1..k PROVE b[i].ts <= b[k].ts
      OBVIOUS
    <3>1. CASE i < k
      BY <1>1, <2>1, <3>1
    <3>2. CASE i = k
      BY <1>6, <2>1, <3>2
    <3> QED
      BY <3>1, <3>2, <1>2
  <2>4. b[k].ts > mark[f] /\ b[k].ts \in 0..MaxClock
    BY <1>3, <1>6, <2>1
  <2> QED
    BY <1>2, <1>3, <1>4, <1>5, <1>6, <1>7, <2>2, <2>3, <2>4
<1> QED
  BY <1>8, <1>9

-----------------------------------------------------------------------------
LEMMA StreamInitHolds == StreamInit => FrameInvariant
<1> SUFFICES ASSUME StreamInit PROVE FrameInvariant
  OBVIOUS
<1> USE DEF StreamInit
<1>1. StreamTypeOK
  <2>1. <<>> \in Seq(StreamRow)
    OBVIOUS
  <2>2. 0 \in 0..MaxClock /\ 0 \in 0..MaxFail /\ 0 \in 0..MaxStop
    BY StreamAssumption
  <2>3. /\ mark \in [Feeds -> 0..MaxClock] /\ since \in [Feeds -> 0..MaxClock]
        /\ cursor \in [Viewers -> (Nat \ {0}) \cup {NoCursor}]
        /\ got \in [Viewers -> Seq(StreamRow)]
    BY <2>1, <2>2
  <2>4. turn \in Feeds /\ up \in BOOLEAN
    BY DEF Feeds
  <2> QED
    BY <2>1, <2>2, <2>3, <2>4 DEF StreamTypeOK
<1>2. IsFiniteSet(table)
  BY FS_EmptySet
<1>3. FramesAreOrdered /\ FramesAreBehindMark /\ ShownIsBeforeCursor /\ DownIsEmpty
  BY DEF FramesAreOrdered, FramesAreBehindMark, ShownIsBeforeCursor, DownIsEmpty
<1> QED
  BY <1>1, <1>2, <1>3 DEF FrameInvariant

(* Writers only add rows; nothing the invariant says of frames changes.    *)
LEMMA WriterStep ==
  ASSUME FrameInvariant, Writer
  PROVE  FrameInvariant'
<1>0. StreamTypeOK /\ IsFiniteSet(table)
  BY DEF FrameInvariant
<1>1. UNCHANGED <<up, mark, turn, batch, sent, cursor, got, failed, stops, since>>
  BY DEF Writer, EmitSignal, StartNight, EmitEvent, pollerVars, socketVars
<1>2. PICK new \in SUBSET StreamRow : table' = table \cup new /\ IsFiniteSet(new)
  <2>1. CASE EmitSignal
    <3>1. NewRow("signal", clock + 1) \in StreamRow
      BY <1>0, <2>1, NewRowIsTyped, StreamAssumption DEF EmitSignal, Feeds, StreamTypeOK
    <3>2. IsFiniteSet({NewRow("signal", clock + 1)})
      BY FS_Singleton
    <3>3. table' = table \cup {NewRow("signal", clock + 1)}
      BY <2>1 DEF EmitSignal
    <3> QED
      BY <3>1, <3>2, <3>3
  <2>2. CASE StartNight
    <3>1. table' = table \cup {}
      BY <2>2 DEF StartNight
    <3> QED
      BY <3>1, FS_EmptySet
  <2>3. CASE EmitEvent
    <3>1. NewRow("monitor", night) \in StreamRow
      BY <1>0, <2>3, NewRowIsTyped DEF EmitEvent, Feeds, StreamTypeOK
    <3>2. IsFiniteSet({NewRow("monitor", night)})
      BY FS_Singleton
    <3>3. table' = table \cup {NewRow("monitor", night)}
      BY <2>3 DEF EmitEvent
    <3> QED
      BY <3>1, <3>2, <3>3
  <2> QED
    BY <2>1, <2>2, <2>3 DEF Writer
<1>3. clock' \in 0..MaxClock /\ night' \in 0..MaxClock
  BY <1>0, StreamAssumption DEF Writer, EmitSignal, StartNight, EmitEvent, StreamTypeOK
<1>4. StreamTypeOK'
  BY <1>0, <1>1, <1>2, <1>3 DEF StreamTypeOK
<1>5. IsFiniteSet(table')
  BY <1>0, <1>2, FS_Union
<1>6. table \subseteq table'
  BY <1>2
<1>7. FramesAreOrdered' /\ ShownIsBeforeCursor' /\ DownIsEmpty'
  BY <1>1 DEF FrameInvariant, FramesAreOrdered, ShownIsBeforeCursor, DownIsEmpty
<1>8. FramesAreBehindMark'
  BY <1>1, <1>6 DEF FrameInvariant, FramesAreBehindMark
<1> QED
  BY <1>4, <1>5, <1>7, <1>8 DEF FrameInvariant

(* A new process starts with no frames and no sockets.                     *)
LEMMA StartApiStep ==
  ASSUME FrameInvariant, StartApi
  PROVE  FrameInvariant'
<1>0. StreamTypeOK /\ IsFiniteSet(table) /\ DownIsEmpty /\ ~up
  BY DEF FrameInvariant, StartApi
<1>1. /\ sent = <<>> /\ batch = <<>> /\ \A v \in Viewers : cursor[v] = NoCursor
      /\ UNCHANGED <<table, clock, night, batch, sent, cursor, got, failed, stops>>
      /\ up' = TRUE /\ turn' = "signal"
      /\ mark' \in [Feeds -> 0..MaxClock] /\ since' \in [Feeds -> 0..MaxClock]
  BY <1>0 DEF DownIsEmpty, StartApi, StartMarks, writerVars, socketVars
<1>2. StreamTypeOK'
  BY <1>0, <1>1 DEF StreamTypeOK, Feeds
<1>3. FramesAreOrdered' /\ FramesAreBehindMark' /\ ShownIsBeforeCursor' /\ DownIsEmpty'
  BY <1>1 DEF FramesAreOrdered, FramesAreBehindMark, ShownIsBeforeCursor, DownIsEmpty
<1> QED
  BY <1>0, <1>1, <1>2, <1>3 DEF FrameInvariant

(* Rows read lie after everything taken before, and the mark follows them. *)
LEMMA PollStep ==
  ASSUME FrameInvariant, Poll
  PROVE  FrameInvariant'
<1>0. /\ StreamTypeOK /\ IsFiniteSet(table) /\ FramesAreOrdered /\ FramesAreBehindMark
      /\ ShownIsBeforeCursor /\ up /\ batch = <<>> /\ turn \in Feeds
  BY DEF FrameInvariant, Poll, StreamTypeOK
<1>1. PICK b \in Batches(turn) : batch' = b /\ mark' = [mark EXCEPT ![turn] = MarkAfter(turn, b)]
  BY DEF Poll
<1>2. /\ b \in Seq(StreamRow)
      /\ \A i \in 1..Len(b) : b[i] \in table /\ b[i].feed = turn /\ b[i].ts > mark[turn]
      /\ \A i, j \in 1..Len(b) : i < j => MayPrecede(b[i], b[j])
      /\ MarkAfter(turn, b) \in 0..MaxClock
      /\ MarkAfter(turn, b) >= mark[turn]
      /\ \A i \in 1..Len(b) : b[i].ts <= MarkAfter(turn, b)
  BY <1>0, <1>1, BatchIsSound
<1>3. /\ UNCHANGED <<table, clock, night, up, sent, cursor, got, failed, stops, since>>
      /\ turn' \in Feeds
  BY <1>0 DEF Poll, OtherFeed, Feeds, writerVars, socketVars
<1>4. /\ mark'[turn] = MarkAfter(turn, b)
      /\ \A f \in Feeds : f # turn => mark'[f] = mark[f]
      /\ \A f \in Feeds : mark[f] \in 0..MaxClock /\ mark'[f] \in 0..MaxClock
      /\ mark' \in [Feeds -> 0..MaxClock]
  BY <1>0, <1>1, <1>2 DEF StreamTypeOK
<1>5. StreamTypeOK'
  BY <1>0, <1>1, <1>2, <1>3, <1>4 DEF StreamTypeOK
<1>6. \A i \in 1..Len(sent) :
        /\ sent[i].feed \in Feeds
        /\ sent[i].ts \in 0..MaxClock
        /\ sent[i].ts <= mark[sent[i].feed]
        /\ sent[i].ts <= mark'[sent[i].feed]
  <2> SUFFICES ASSUME NEW i \in 1..Len(sent)
               PROVE  /\ sent[i].feed \in Feeds
                      /\ sent[i].ts \in 0..MaxClock
                      /\ sent[i].ts <= mark[sent[i].feed]
                      /\ sent[i].ts <= mark'[sent[i].feed]
    OBVIOUS
  <2>1. sent[i] \in StreamRow /\ sent[i].ts <= mark[sent[i].feed]
    BY <1>0 DEF StreamTypeOK, FramesAreBehindMark
  <2>2. sent[i].feed \in Feeds /\ sent[i].ts \in 0..MaxClock
    BY <2>1 DEF StreamRow
  <2>3. CASE sent[i].feed = turn
    BY <1>2, <1>4, <2>1, <2>2, <2>3, StreamAssumption
  <2>4. CASE sent[i].feed # turn
    BY <1>4, <2>1, <2>2, <2>4
  <2> QED
    BY <2>1, <2>2, <2>3, <2>4
<1>7. \A i \in 1..Len(b) : b[i].ts \in 0..MaxClock
  <2>1. \A i \in 1..Len(b) : b[i] \in StreamRow
    BY <1>2
  <2> QED
    BY <2>1 DEF StreamRow
<1>8. FramesAreOrdered'
  <2>1. ASSUME NEW i \in 1..Len(sent), NEW j \in 1..Len(b)
        PROVE  MayPrecede(sent[i], b[j])
    <3>1. CASE sent[i].feed = turn
      <4>1. sent[i].ts < b[j].ts
        BY <1>2, <1>4, <1>6, <1>7, <3>1, StreamAssumption
      <4> QED
        BY <1>6, <1>7, <4>1, StreamAssumption DEF MayPrecede
    <3>2. CASE sent[i].feed # turn
      BY <1>2, <3>2 DEF MayPrecede
    <3> QED
      BY <3>1, <3>2
  <2> QED
    BY <1>0, <1>1, <1>2, <1>3, <2>1 DEF FramesAreOrdered
<1>9. FramesAreBehindMark'
  BY <1>0, <1>1, <1>2, <1>3, <1>4, <1>6 DEF FramesAreBehindMark
<1>10. ShownIsBeforeCursor' /\ DownIsEmpty'
  BY <1>0, <1>3 DEF ShownIsBeforeCursor, DownIsEmpty
<1> QED
  BY <1>0, <1>3, <1>5, <1>8, <1>9, <1>10 DEF FrameInvariant

LEMMA PollFailsStep ==
  ASSUME FrameInvariant, PollFails
  PROVE  FrameInvariant'
<1>0. FrameInvariant
  OBVIOUS
<1>1. UNCHANGED <<table, clock, night, up, mark, batch, sent, cursor, got, stops, since>>
  BY DEF PollFails, writerVars, socketVars
<1>2. turn' \in Feeds /\ failed' \in 0..MaxFail
  BY StreamAssumption DEF PollFails, OtherFeed, Feeds, FrameInvariant, StreamTypeOK
<1> QED
  BY <1>1, <1>2 DEF FrameInvariant, StreamTypeOK, FramesAreOrdered, FramesAreBehindMark,
     ShownIsBeforeCursor, DownIsEmpty

(* The head of the batch becomes the last frame sent.                      *)
LEMMA PublishStep ==
  ASSUME FrameInvariant, Publish
  PROVE  FrameInvariant'
<1>0. /\ StreamTypeOK /\ IsFiniteSet(table) /\ FramesAreOrdered /\ FramesAreBehindMark
      /\ ShownIsBeforeCursor /\ DownIsEmpty /\ batch # <<>>
      /\ sent \in Seq(StreamRow) /\ batch \in Seq(StreamRow)
  BY DEF FrameInvariant, Publish, StreamTypeOK
<1>1. /\ sent' = Append(sent, Head(batch)) /\ batch' = Tail(batch)
      /\ UNCHANGED <<table, clock, night, up, mark, turn, cursor, got, failed, stops, since>>
  BY DEF Publish, writerVars, socketVars
<1> DEFINE n == Len(sent)
<1>2. /\ Head(batch) = batch[1] /\ batch[1] \in StreamRow
      /\ 1 \in 1..Len(batch)
      /\ Tail(batch) \in Seq(StreamRow)
      /\ Len(batch') = Len(batch) - 1
      /\ \A i \in 1..Len(batch') : i + 1 \in 1..Len(batch) /\ i + 1 > 1 /\ batch'[i] = batch[i + 1]
      /\ n \in Nat
      /\ Len(sent') = n + 1
      /\ sent'[n + 1] = batch[1]
      /\ \A i \in 1..n : sent'[i] = sent[i]
      /\ \A i \in 1..(n + 1) : i \in 1..n \/ i = n + 1
  BY <1>0, <1>1
<1>3. StreamTypeOK'
  BY <1>0, <1>1, <1>2 DEF StreamTypeOK
<1>4. FramesAreOrdered'
  <2>1. ASSUME NEW i \in 1..Len(sent'), NEW j \in 1..Len(sent'), i < j
        PROVE  MayPrecede(sent'[i], sent'[j])
    <3>1. i \in 1..n
      BY <1>2, <2>1
    <3>2. CASE j \in 1..n
      BY <1>0, <1>2, <2>1, <3>1, <3>2 DEF FramesAreOrdered
    <3>3. CASE j = n + 1
      BY <1>0, <1>2, <3>1, <3>3 DEF FramesAreOrdered
    <3> QED
      BY <1>2, <3>2, <3>3
  <2>2. ASSUME NEW i \in 1..Len(batch'), NEW j \in 1..Len(batch'), i < j
        PROVE  MayPrecede(batch'[i], batch'[j])
    <3>1. /\ i + 1 \in 1..Len(batch) /\ j + 1 \in 1..Len(batch) /\ i + 1 < j + 1
          /\ batch'[i] = batch[i + 1] /\ batch'[j] = batch[j + 1]
      BY <1>2, <2>2
    <3> QED
      BY <1>0, <3>1 DEF FramesAreOrdered
  <2>3. ASSUME NEW i \in 1..Len(sent'), NEW j \in 1..Len(batch')
        PROVE  MayPrecede(sent'[i], batch'[j])
    <3>1. j + 1 \in 1..Len(batch) /\ 1 < j + 1 /\ batch'[j] = batch[j + 1]
      BY <1>2
    <3>2. CASE i \in 1..n
      BY <1>0, <1>2, <3>1, <3>2 DEF FramesAreOrdered
    <3>3. CASE i = n + 1
      BY <1>0, <1>2, <3>1, <3>3 DEF FramesAreOrdered
    <3> QED
      BY <1>2, <3>2, <3>3
  <2> QED
    BY <2>1, <2>2, <2>3 DEF FramesAreOrdered
<1>5. FramesAreBehindMark'
  <2>1. ASSUME NEW i \in 1..Len(sent')
        PROVE  sent'[i] \in table /\ sent'[i].ts <= mark[sent'[i].feed]
    <3>1. CASE i \in 1..n
      BY <1>0, <1>2, <3>1 DEF FramesAreBehindMark
    <3>2. CASE i = n + 1
      BY <1>0, <1>2, <3>2 DEF FramesAreBehindMark
    <3> QED
      BY <1>2, <3>1, <3>2
  <2>2. ASSUME NEW i \in 1..Len(batch')
        PROVE  batch'[i] \in table /\ batch'[i].ts <= mark[batch'[i].feed]
    BY <1>0, <1>2 DEF FramesAreBehindMark
  <2> QED
    BY <1>1, <2>1, <2>2 DEF FramesAreBehindMark
<1>6. ShownIsBeforeCursor'
  <2> SUFFICES ASSUME NEW v \in Viewers, cursor[v] # NoCursor
               PROVE  /\ cursor[v] <= Len(sent') + 1
                      /\ \A k \in 1..Len(got[v]) : \E i \in 1..(cursor[v] - 1) : got[v][k] = sent'[i]
    BY <1>1 DEF ShownIsBeforeCursor
  <2>1. /\ cursor[v] \in Nat /\ cursor[v] <= n + 1
        /\ \A k \in 1..Len(got[v]) : \E i \in 1..(cursor[v] - 1) : got[v][k] = sent[i]
    BY <1>0 DEF ShownIsBeforeCursor, StreamTypeOK
  <2>2. \A i \in 1..(cursor[v] - 1) : i \in 1..n
    BY <1>2, <2>1
  <2>3. \A i \in 1..(cursor[v] - 1) : sent'[i] = sent[i]
    BY <1>2, <2>2
  <2> QED
    BY <1>2, <2>1, <2>3
<1>7. DownIsEmpty'
  BY <1>0, <1>1 DEF DownIsEmpty
<1> QED
  BY <1>0, <1>1, <1>3, <1>4, <1>5, <1>6, <1>7 DEF FrameInvariant

LEMMA StopApiStep ==
  ASSUME FrameInvariant, StopApi
  PROVE  FrameInvariant'
<1>0. StreamTypeOK /\ IsFiniteSet(table)
  BY DEF FrameInvariant
<1>1. /\ up' = FALSE /\ batch' = <<>> /\ sent' = <<>>
      /\ cursor' = [v \in Viewers |-> NoCursor]
      /\ got' = [v \in Viewers |-> <<>>]
      /\ UNCHANGED <<table, clock, night, mark, turn, failed, since>>
      /\ stops' \in 0..MaxStop
  BY <1>0, StreamAssumption DEF StopApi, writerVars, StreamTypeOK
<1>2. <<>> \in Seq(StreamRow)
  OBVIOUS
<1>3. StreamTypeOK'
  BY <1>0, <1>1, <1>2 DEF StreamTypeOK
<1>4. FramesAreOrdered' /\ FramesAreBehindMark' /\ ShownIsBeforeCursor' /\ DownIsEmpty'
  BY <1>1 DEF FramesAreOrdered, FramesAreBehindMark, ShownIsBeforeCursor, DownIsEmpty
<1> QED
  BY <1>0, <1>1, <1>3, <1>4 DEF FrameInvariant

(* Each socket moves its own cursor over frames that stay put.             *)
LEMMA SocketStep ==
  ASSUME FrameInvariant, NEW v \in Viewers, Socket(v)
  PROVE  FrameInvariant'
<1>0. /\ StreamTypeOK /\ IsFiniteSet(table) /\ FramesAreOrdered /\ FramesAreBehindMark
      /\ ShownIsBeforeCursor /\ DownIsEmpty
      /\ sent \in Seq(StreamRow) /\ Len(sent) \in Nat /\ got[v] \in Seq(StreamRow)
      /\ NoCursor \notin Nat /\ Cap \in Nat \ {0}
  BY StreamAssumption DEF FrameInvariant, StreamTypeOK
<1>1. UNCHANGED <<table, clock, night, up, mark, turn, batch, sent, failed, stops, since>>
  BY DEF Socket, Connect, Receive, SkipAhead, Disconnect, writerVars, pollerVars
<1>2. /\ \A w \in Viewers : w # v => cursor'[w] = cursor[w] /\ got'[w] = got[w]
      /\ up \/ cursor'[v] = NoCursor
  BY <1>0 DEF Socket, Connect, Receive, SkipAhead, Disconnect, Pending, StreamTypeOK, DownIsEmpty
<1>3. /\ cursor' \in [Viewers -> (Nat \ {0}) \cup {NoCursor}]
      /\ got' \in [Viewers -> Seq(StreamRow)]
      /\ cursor'[v] # NoCursor =>
           /\ cursor'[v] <= Len(sent) + 1
           /\ \A k \in 1..Len(got'[v]) : \E i \in 1..(cursor'[v] - 1) : got'[v][k] = sent[i]
  <2> USE DEF StreamTypeOK
  <2>1. CASE Connect(v)
    <3>1. /\ cursor' = [cursor EXCEPT ![v] = Len(sent) + 1]
          /\ got' = [got EXCEPT ![v] = <<>>]
      BY <2>1 DEF Connect
    <3>2. <<>> \in Seq(StreamRow) /\ Len(sent) + 1 \in Nat \ {0}
      BY <1>0
    <3> QED
      BY <1>0, <3>1, <3>2
  <2>2. CASE Receive(v)
    <3> DEFINE c == cursor[v]
    <3>1. /\ c \in 1..Len(sent) /\ c \in Nat
          /\ sent[c] \in StreamRow
          /\ cursor' = [cursor EXCEPT ![v] = c + 1]
          /\ got' = [got EXCEPT ![v] = Append(got[v], sent[c])]
      BY <1>0, <2>2 DEF Receive, Pending
    <3>2. cursor'[v] = c + 1 /\ got'[v] = Append(got[v], sent[c])
      BY <1>0, <3>1
    <3>3. \A k \in 1..Len(got[v]) : \E i \in 1..(c - 1) : got[v][k] = sent[i]
      BY <1>0, <2>2 DEF ShownIsBeforeCursor, Receive, Pending
    <3>4. ASSUME NEW k \in 1..Len(got'[v])
          PROVE  \E i \in 1..c : got'[v][k] = sent[i]
      <4>1. CASE k \in 1..Len(got[v])
        <5>1. got'[v][k] = got[v][k]
          BY <1>0, <3>1, <3>2, <4>1
        <5> QED
          BY <3>1, <3>3, <4>1, <5>1
      <4>2. CASE k = Len(got[v]) + 1
        <5>1. got'[v][k] = sent[c]
          BY <1>0, <3>1, <3>2, <4>2
        <5> QED
          BY <3>1, <5>1
      <4> QED
        BY <1>0, <3>1, <3>2, <4>1, <4>2
    <3>5. /\ cursor' \in [Viewers -> (Nat \ {0}) \cup {NoCursor}]
          /\ got' \in [Viewers -> Seq(StreamRow)]
      BY <1>0, <3>1
    <3>6. cursor'[v] <= Len(sent) + 1 /\ cursor'[v] - 1 = c
      BY <1>0, <3>1, <3>2
    <3> QED
      BY <3>4, <3>5, <3>6
  <2>3. CASE SkipAhead(v)
    <3> DEFINE c == Len(sent) - Cap + 1
    <3>1. /\ cursor[v] \in Nat \ {0} /\ cursor[v] # NoCursor
          /\ c \in Nat \ {0} /\ cursor[v] <= c /\ c <= Len(sent) + 1
          /\ cursor' = [cursor EXCEPT ![v] = c] /\ got' = got
      BY <1>0, <2>3 DEF SkipAhead, Pending, Lagging
    <3>2. \A k \in 1..Len(got[v]) : \E i \in 1..(cursor[v] - 1) : got[v][k] = sent[i]
      BY <1>0, <3>1 DEF ShownIsBeforeCursor
    <3>3. \A i \in 1..(cursor[v] - 1) : i \in 1..(c - 1)
      BY <3>1
    <3>4. cursor'[v] = c
      BY <1>0, <3>1
    <3> QED
      BY <1>0, <3>1, <3>2, <3>3, <3>4
  <2>4. CASE Disconnect(v)
    BY <1>0, <2>4 DEF Disconnect
  <2> QED
    BY <2>1, <2>2, <2>3, <2>4 DEF Socket
<1>4. StreamTypeOK'
  BY <1>0, <1>1, <1>3 DEF StreamTypeOK
<1>5. ShownIsBeforeCursor'
  <2> SUFFICES ASSUME NEW w \in Viewers, cursor'[w] # NoCursor
               PROVE  /\ cursor'[w] <= Len(sent) + 1
                      /\ \A k \in 1..Len(got'[w]) : \E i \in 1..(cursor'[w] - 1) : got'[w][k] = sent[i]
    BY <1>1 DEF ShownIsBeforeCursor
  <2>1. CASE w = v
    BY <1>3, <2>1
  <2>2. CASE w # v
    BY <1>0, <1>2, <2>2 DEF ShownIsBeforeCursor
  <2> QED
    BY <2>1, <2>2
<1>6. DownIsEmpty'
  BY <1>0, <1>1, <1>2 DEF DownIsEmpty
<1>7. FramesAreOrdered' /\ FramesAreBehindMark'
  BY <1>0, <1>1 DEF FramesAreOrdered, FramesAreBehindMark
<1> QED
  BY <1>0, <1>1, <1>4, <1>5, <1>6, <1>7 DEF FrameInvariant

-----------------------------------------------------------------------------
LEMMA StreamStepHolds == FrameInvariant /\ [StreamNext]_streamVars => FrameInvariant'
<1> SUFFICES ASSUME FrameInvariant, [StreamNext]_streamVars PROVE FrameInvariant'
  OBVIOUS
<1>1. CASE StreamNext
  BY <1>1, WriterStep, StartApiStep, PollStep, PublishStep, PollFailsStep, StopApiStep, SocketStep
     DEF StreamNext, Poller
<1>2. CASE UNCHANGED streamVars
  <2>1. UNCHANGED <<table, clock, night, up, mark, turn, batch, sent, cursor, got, failed, stops, since>>
    BY <1>2 DEF streamVars, writerVars, pollerVars, socketVars
  <2> QED
    BY <2>1 DEF FrameInvariant, StreamTypeOK, FramesAreOrdered, FramesAreBehindMark,
       ShownIsBeforeCursor, DownIsEmpty
<1> QED
  BY <1>1, <1>2

(* What the invariant says of frames holds in every behaviour.             *)
LEMMA FramesHold == StreamSpec => []FrameInvariant
<1> QED
  BY StreamInitHolds, StreamStepHolds, PTL DEF StreamSpec

(* Every variable of the stream keeps its declared type.                   *)
THEOREM StreamTypeCorrect == StreamSpec => []StreamTypeOK
<1>1. FrameInvariant => StreamTypeOK
  BY DEF FrameInvariant
<1> QED
  BY <1>1, FramesHold, PTL

(* A frame forwarded to a socket is a row it may show next.                *)
LEMMA ReceiveShows ==
  ASSUME FrameInvariant, NEW v \in Viewers, Receive(v)
  PROVE  \E row \in table : Feed!Show(v, row)
<1> DEFINE c == cursor[v]
<1>1. /\ c \in 1..Len(sent) /\ c \in Nat /\ c # NoCursor
      /\ got' = [got EXCEPT ![v] = Append(@, sent[c])]
      /\ UNCHANGED table
      /\ got[v] \in Seq(StreamRow)
      /\ FramesAreOrdered /\ FramesAreBehindMark /\ ShownIsBeforeCursor
  BY StreamAssumption DEF Receive, Pending, FrameInvariant, StreamTypeOK, writerVars
<1>2. sent[c] \in table
  BY <1>1 DEF FramesAreBehindMark
<1>3. ASSUME NEW k \in DOMAIN got[v]
      PROVE  MayPrecede(got[v][k], sent[c])
  <2>1. k \in 1..Len(got[v])
    BY <1>1
  <2>2. PICK i \in 1..(c - 1) : got[v][k] = sent[i]
    BY <1>1, <2>1 DEF ShownIsBeforeCursor
  <2>3. i \in 1..Len(sent) /\ i < c
    BY <1>1
  <2> QED
    BY <1>1, <2>2, <2>3 DEF FramesAreOrdered
<1> QED
  BY <1>1, <1>2, <1>3 DEF Feed!Show, MayPrecede

(* The stream implements LiveFeed: under the identity mapping every step   *)
(* stores rows, restarts connections, shows one row, or changes nothing    *)
(* an operator can see.                                                    *)
THEOREM StreamImplementsLiveFeed == StreamSpec => ImplementsLiveFeed
<1>1. StreamInit => Feed!FeedInit
  BY DEF StreamInit, Feed!FeedInit
<1>2. FrameInvariant /\ [StreamNext]_streamVars => [Feed!FeedNext]_Feed!feedVars
  <2> SUFFICES ASSUME FrameInvariant, [StreamNext]_streamVars
               PROVE  Feed!FeedNext \/ UNCHANGED <<table, got>>
    BY DEF Feed!feedVars
  <2>1. CASE Writer
    <3>1. got' = got /\ table \subseteq table'
      BY <2>1 DEF Writer, EmitSignal, StartNight, EmitEvent, socketVars
    <3>2. table' = table \cup table'
      BY <3>1
    <3> QED
      BY <3>1, <3>2 DEF Feed!FeedNext, Feed!Store
  <2>2. CASE StopApi
    <3>1. UNCHANGED table /\ got' = [v \in Viewers |-> <<>>]
      BY <2>2 DEF StopApi, writerVars
    <3>2. got' = [v \in Viewers |-> IF v \in Viewers THEN <<>> ELSE got[v]]
      BY <3>1
    <3> QED
      BY <3>1, <3>2 DEF Feed!FeedNext, Feed!Restart
  <2>3. ASSUME NEW v \in Viewers, Connect(v)
        PROVE  Feed!FeedNext
    <3>1. UNCHANGED table /\ got' = [got EXCEPT ![v] = <<>>]
      BY <2>3 DEF Connect, writerVars
    <3>2. got' = [w \in Viewers |-> IF w \in {v} THEN <<>> ELSE got[w]]
      BY <3>1 DEF FrameInvariant, StreamTypeOK
    <3> QED
      BY <3>1, <3>2 DEF Feed!FeedNext, Feed!Restart
  <2>4. ASSUME NEW v \in Viewers, Receive(v)
        PROVE  Feed!FeedNext
    BY <2>4, ReceiveShows DEF Feed!FeedNext
  <2>5. ASSUME NEW v \in Viewers, SkipAhead(v) \/ Disconnect(v)
        PROVE  UNCHANGED <<table, got>>
    BY <2>5 DEF SkipAhead, Disconnect, writerVars
  <2>6. CASE StartApi \/ Poller \/ PollFails
    BY <2>6 DEF StartApi, Poller, Poll, Publish, PollFails, writerVars, socketVars
  <2>7. CASE UNCHANGED streamVars
    BY <2>7 DEF streamVars, writerVars, socketVars
  <2> QED
    BY <2>1, <2>2, <2>3, <2>4, <2>5, <2>6, <2>7 DEF StreamNext, Socket
<1> QED
  BY <1>1, <1>2, FramesHold, PTL DEF StreamSpec, ImplementsLiveFeed, Feed!FeedSpec

-----------------------------------------------------------------------------
(* What a poll leaves behind its mark it has taken, or it has taken a row  *)
(* of the same instant.                                                    *)
LEMMA BatchReachesItsMark ==
  ASSUME StreamTypeOK, NEW f \in Feeds, NEW b \in Batches(f)
  PROVE  /\ \A row \in Newer(f, mark[f]) :
              row.ts <= MarkAfter(f, b) => \E i \in 1..Len(b) : b[i].ts = row.ts
         /\ b # <<>> => Len(b) \in 1..Len(b) /\ b[Len(b)].ts = MarkAfter(f, b)
         /\ b = <<>> => MarkAfter(f, b) = mark[f]
<1> DEFINE newer == Newer(f, mark[f])
<1>1. PICK k \in 0..Limit :
        /\ b \in [1..k -> newer]
        /\ \A row \in newer : (\E i \in 1..k : b[i] = row) \/ \A i \in 1..k : b[i].ts <= row.ts
  BY DEF Batches
<1>2. k \in Nat /\ b \in Seq(newer) /\ Len(b) = k
  BY <1>1, StreamAssumption
<1>3. \A row \in newer : row.ts > mark[f] /\ row.ts \in 0..MaxClock
  BY DEF Newer, Rows, StreamTypeOK, StreamRow
<1>4. mark[f] \in 0..MaxClock /\ MaxClock \in Nat
  BY StreamAssumption DEF StreamTypeOK
<1>5. CASE b = <<>>
  <2>1. MarkAfter(f, b) = mark[f]
    BY <1>5 DEF MarkAfter
  <2> QED
    BY <1>3, <1>4, <1>5, <2>1
<1>6. CASE b # <<>>
  <2>1. k \in 1..k /\ MarkAfter(f, b) = b[k].ts /\ b[k].ts \in 0..MaxClock
    BY <1>1, <1>2, <1>3, <1>6 DEF MarkAfter
  <2>2. ASSUME NEW row \in newer, row.ts <= b[k].ts
        PROVE  \E i \in 1..k : b[i].ts = row.ts
    <3>1. CASE \A i \in 1..k : b[i].ts <= row.ts
      BY <1>3, <1>4, <2>1, <2>2, <3>1
    <3> QED
      BY <1>1, <2>2, <3>1
  <2> QED
    BY <1>2, <1>6, <2>1, <2>2
<1> QED
  BY <1>5, <1>6

(* Publishing moves a row from the batch to the frames: what was taken     *)
(* stays what it is.                                                       *)
LEMMA PublishKeepsTaken ==
  ASSUME StreamTypeOK, Publish
  PROVE  Offered' = Offered
<1>1. /\ sent \in Seq(StreamRow) /\ batch \in Seq(StreamRow) /\ batch # <<>>
      /\ sent' = Append(sent, Head(batch)) /\ batch' = Tail(batch)
  BY DEF StreamTypeOK, Publish
<1> DEFINE n == Len(sent)
<1> DEFINE m == Len(batch)
<1>2. /\ n \in Nat /\ m \in Nat /\ 1 \in DOMAIN batch
      /\ DOMAIN sent = 1..n /\ DOMAIN batch = 1..m
      /\ DOMAIN sent' = 1..(n + 1) /\ DOMAIN batch' = 1..(m - 1)
      /\ n + 1 \in DOMAIN sent' /\ sent'[n + 1] = batch[1]
      /\ \A i \in DOMAIN sent : i \in DOMAIN sent' /\ sent'[i] = sent[i]
      /\ \A i \in DOMAIN batch' : i + 1 \in DOMAIN batch /\ batch'[i] = batch[i + 1]
      /\ \A i \in DOMAIN sent' : i \in DOMAIN sent \/ i = n + 1
      /\ \A i \in DOMAIN batch : i # 1 => i - 1 \in DOMAIN batch' /\ batch'[i - 1] = batch[i]
  BY <1>1
<1> HIDE DEF n, m
<1>3. ASSUME NEW x \in Offered
      PROVE  x \in Offered'
  <2>1. CASE \E i \in DOMAIN sent : x = sent[i]
    BY <1>2, <2>1 DEF Offered
  <2>2. CASE \E i \in DOMAIN batch : x = batch[i]
    <3>1. PICK i \in DOMAIN batch : x = batch[i]
      BY <2>2
    <3>2. CASE i = 1
      BY <1>2, <3>1, <3>2 DEF Offered
    <3>3. CASE i # 1
      <4>1. i - 1 \in DOMAIN batch' /\ batch'[i - 1] = x
        BY <1>2, <3>1, <3>3
      <4> QED
        BY <4>1 DEF Offered
    <3> QED
      BY <3>2, <3>3
  <2> QED
    BY <2>1, <2>2 DEF Offered
<1>4. ASSUME NEW x \in Offered'
      PROVE  x \in Offered
  <2>1. CASE \E i \in DOMAIN sent' : x = sent'[i]
    <3>1. PICK i \in DOMAIN sent' : x = sent'[i]
      BY <2>1
    <3> QED
      BY <1>2, <3>1 DEF Offered
  <2>2. CASE \E i \in DOMAIN batch' : x = batch'[i]
    BY <1>2, <2>2 DEF Offered
  <2> QED
    BY <2>1, <2>2 DEF Offered
<1> QED
  BY <1>3, <1>4

LEMMA TakenIsStored ==
  ASSUME FrameInvariant
  PROVE  Offered \subseteq table
BY DEF FrameInvariant, StreamTypeOK, FramesAreBehindMark, Offered

-----------------------------------------------------------------------------
LEMMA StampTypes ==
  ASSUME StreamTypeOK
  PROVE  /\ MaxClock \in Nat /\ clock \in Nat /\ night \in Nat
         /\ \A f \in Feeds : mark[f] \in Nat /\ since[f] \in Nat
         /\ \A row \in table : row \in StreamRow /\ row.ts \in Nat /\ row.feed \in Feeds
<1>1. MaxClock \in Nat
  BY StreamAssumption
<1>2. 0..MaxClock \subseteq Nat
  BY <1>1
<1>3. ASSUME NEW row \in table
      PROVE  row \in StreamRow /\ row.ts \in Nat /\ row.feed \in Feeds
  BY <1>2 DEF StreamTypeOK, StreamRow
<1>4. ASSUME NEW f \in Feeds
      PROVE  mark[f] \in Nat /\ since[f] \in Nat
  BY <1>2 DEF StreamTypeOK
<1> QED
  BY <1>1, <1>2, <1>3, <1>4 DEF StreamTypeOK

LEMMA StampsStep ==
  ASSUME FrameInvariant, StampsAreCurrent, [StreamNext]_streamVars
  PROVE  StampsAreCurrent'
<1>0. /\ StreamTypeOK /\ MaxClock \in Nat /\ clock \in Nat /\ night \in Nat
      /\ \A f \in Feeds : mark[f] \in Nat
      /\ \A row \in table : row.ts \in Nat
  BY StampTypes DEF FrameInvariant
<1>1. CASE EmitSignal
  <2>1. /\ table' = table \cup {NewRow("signal", clock + 1)} /\ clock' = clock + 1
        /\ UNCHANGED <<night, mark>>
    BY <1>1 DEF EmitSignal, pollerVars
  <2>2. NewRow("signal", clock + 1).ts = clock + 1 /\ NewRow("signal", clock + 1).feed = "signal"
    BY DEF NewRow
  <2>3. \A row \in table : row.ts # clock + 1
    BY <1>0 DEF StampsAreCurrent
  <2> QED
    BY <1>0, <2>1, <2>2, <2>3 DEF StampsAreCurrent, Rows
<1>2. CASE StartNight
  <2>1. clock' = clock + 1 /\ night' = clock + 1 /\ UNCHANGED <<table, mark>>
    BY <1>2 DEF StartNight, pollerVars
  <2> QED
    BY <1>0, <2>1 DEF StampsAreCurrent, Rows
<1>3. CASE EmitEvent
  <2>1. table' = table \cup {NewRow("monitor", night)} /\ UNCHANGED <<clock, night, mark>>
    BY <1>3 DEF EmitEvent, pollerVars
  <2>2. NewRow("monitor", night).ts = night /\ NewRow("monitor", night).feed = "monitor"
    BY DEF NewRow
  <2> QED
    BY <1>0, <2>1, <2>2 DEF StampsAreCurrent, Rows
<1>4. CASE StartApi
  <2>1. PICK m \in StartMarks : mark' = m
    BY <1>4 DEF StartApi
  <2>2. UNCHANGED <<table, clock, night>>
    BY <1>4 DEF StartApi, writerVars
  <2>3. ASSUME NEW f \in Feeds
        PROVE  m[f] <= clock
    <3>1. m[f] \in Latest(f) \cup {clock}
      BY DEF StartMarks
    <3>2. ASSUME m[f] \in Latest(f)
          PROVE  m[f] <= clock
      BY <3>2 DEF Latest, Rows, StampsAreCurrent
    <3> QED
      BY <1>0, <3>1, <3>2
  <2> QED
    BY <2>1, <2>2, <2>3 DEF StampsAreCurrent, Rows
<1>5. CASE Poll
  <2>1. PICK b \in Batches(turn) : mark' = [mark EXCEPT ![turn] = MarkAfter(turn, b)]
    BY <1>5 DEF Poll
  <2>2. turn \in Feeds /\ mark \in [Feeds -> 0..MaxClock]
    BY <1>0 DEF StreamTypeOK
  <2>3. MarkAfter(turn, b) <= clock
    <3>1. CASE b = <<>>
      BY <1>0, <2>2, <3>1, BatchReachesItsMark DEF StampsAreCurrent
    <3>2. CASE b # <<>>
      <4>1. Len(b) \in 1..Len(b) /\ b[Len(b)].ts = MarkAfter(turn, b) /\ b[Len(b)] \in table
        BY <1>0, <2>2, <3>2, BatchReachesItsMark, BatchIsSound
      <4> QED
        BY <4>1 DEF StampsAreCurrent
    <3> QED
      BY <3>1, <3>2
  <2>4. UNCHANGED <<table, clock, night>>
    BY <1>5 DEF Poll, writerVars
  <2> QED
    BY <2>1, <2>2, <2>3, <2>4 DEF StampsAreCurrent, Rows
<1>6. CASE UNCHANGED <<table, clock, night, mark>>
  BY <1>6 DEF StampsAreCurrent, Rows
<1>7. CASE Publish \/ PollFails \/ StopApi \/ (\E v \in Viewers : Socket(v)) \/ UNCHANGED streamVars
  BY <1>6, <1>7
  DEF Publish, PollFails, StopApi, Socket, Connect, Receive, SkipAhead, Disconnect, writerVars,
      pollerVars, streamVars
<1> QED
  BY <1>1, <1>2, <1>3, <1>4, <1>5, <1>7 DEF StreamNext, Writer, Poller

(* The kinds of step, as far as what was taken goes.                       *)
LEMMA TakenCases ==
  ASSUME StreamTypeOK, [StreamNext]_streamVars
  PROVE  \/ ~up'
         \/ StartApi
         \/ Poll
         \/ /\ up' = up /\ Offered' = Offered /\ UNCHANGED <<mark, since>>
            /\ table' = table \/ EmitSignal \/ EmitEvent
<1>1. CASE Publish
  <2>1. UNCHANGED <<up, mark, since, table>>
    BY <1>1 DEF Publish, writerVars
  <2> QED
    BY <1>1, <2>1, PublishKeepsTaken
<1>2. CASE Writer \/ PollFails \/ (\E v \in Viewers : Socket(v)) \/ UNCHANGED streamVars
  <2>1. UNCHANGED <<up, mark, since, sent, batch>> /\ (table' = table \/ EmitSignal \/ EmitEvent)
    BY <1>2
    DEF Writer, StartNight, EmitSignal, EmitEvent, PollFails, Socket, Connect, Receive, SkipAhead,
        Disconnect, writerVars, pollerVars, streamVars
  <2> QED
    BY <2>1 DEF Offered
<1>3. CASE StopApi
  BY <1>3 DEF StopApi
<1> QED
  BY <1>1, <1>2, <1>3 DEF StreamNext, Poller

(* What a poll takes, and where its mark goes.                             *)
LEMMA PollTakes ==
  ASSUME StreamTypeOK, Poll
  PROVE  \E b \in Batches(turn) :
           /\ turn \in Feeds
           /\ Offered' = Offered \cup {b[i] : i \in 1..Len(b)}
           /\ mark'[turn] = MarkAfter(turn, b)
           /\ \A f \in Feeds \ {turn} : mark'[f] = mark[f]
           /\ UNCHANGED <<up, since, table>>
<1>1. PICK b \in Batches(turn) : batch' = b /\ mark' = [mark EXCEPT ![turn] = MarkAfter(turn, b)]
  BY DEF Poll
<1>2. turn \in Feeds /\ mark \in [Feeds -> 0..MaxClock]
  BY DEF StreamTypeOK
<1>3. b \in Seq(StreamRow) /\ batch = <<>> /\ UNCHANGED <<sent, up, since, table>>
  BY <1>2, BatchIsSound DEF Poll, writerVars
<1>4. Offered' = Offered \cup {b[i] : i \in 1..Len(b)}
  BY <1>1, <1>3 DEF Offered
<1> QED
  BY <1>1, <1>2, <1>3, <1>4

LEMMA MarkStep ==
  ASSUME FrameInvariant, MarkIsTaken, [StreamNext]_streamVars
  PROVE  MarkIsTaken'
<1>0. StreamTypeOK
  BY DEF FrameInvariant
<1>1. CASE ~up'
  BY <1>1 DEF MarkIsTaken
<1>2. CASE StartApi
  BY <1>2 DEF StartApi, MarkIsTaken
<1>3. CASE Poll
  <2>1. PICK b \in Batches(turn) :
           /\ turn \in Feeds
           /\ Offered' = Offered \cup {b[i] : i \in 1..Len(b)}
           /\ mark'[turn] = MarkAfter(turn, b)
           /\ \A f \in Feeds \ {turn} : mark'[f] = mark[f]
           /\ UNCHANGED <<up, since, table>>
    BY <1>0, <1>3, PollTakes
  <2>2. up
    BY <1>3 DEF Poll
  <2>3. ASSUME NEW f \in Feeds
        PROVE  mark'[f] = since[f] \/ \E x \in Offered' : x.feed = f /\ x.ts = mark'[f]
    <3>1. CASE f # turn \/ b = <<>>
      <4>1. mark'[f] = mark[f]
        BY <1>0, <2>1, <3>1, BatchReachesItsMark
      <4> QED
        BY <2>1, <2>2, <4>1 DEF MarkIsTaken
    <3>2. CASE f = turn /\ b # <<>>
      <4>1. Len(b) \in 1..Len(b) /\ b[Len(b)].ts = mark'[f] /\ b[Len(b)].feed = f
        BY <1>0, <2>1, <3>2, BatchReachesItsMark, BatchIsSound
      <4> QED
        BY <2>1, <4>1
    <3> QED
      BY <3>1, <3>2
  <2> QED
    BY <2>1, <2>3 DEF MarkIsTaken
<1>4. CASE up' = up /\ Offered' = Offered /\ UNCHANGED <<mark, since>>
  BY <1>4 DEF MarkIsTaken
<1> QED
  BY <1>0, <1>1, <1>2, <1>3, <1>4, TakenCases

LEMMA StreamStepKeeps == StreamInvariant /\ [StreamNext]_streamVars => StreamInvariant'
BY StreamStepHolds, StampsStep, MarkStep DEF StreamInvariant

(* The stream as a whole: frames leave once, in order and behind the       *)
(* marks, and the marks are those of rows taken, for any number of         *)
(* viewers, any LIMIT and any channel capacity.                            *)
THEOREM StreamIsInvariant == StreamSpec => []StreamInvariant
<1>1. StreamInit => StreamInvariant
  <2> SUFFICES ASSUME StreamInit
               PROVE  StampsAreCurrent /\ MarkIsTaken
    BY StreamInitHolds DEF StreamInvariant
  <2> QED
    BY DEF StreamInit, StampsAreCurrent, MarkIsTaken, Rows
<1> QED
  BY <1>1, StreamStepKeeps, PTL DEF StreamSpec

(* An event written late bears the stamp of its night: it is lost only if  *)
(* a row of that very night was taken.                                     *)
LEMMA LossStep ==
  ASSUME StreamInvariant, LossNeedsATie, [StreamNext]_streamVars
  PROVE  LossNeedsATie'
<1>0. /\ StreamTypeOK /\ FrameInvariant /\ StampsAreCurrent /\ MarkIsTaken
      /\ \A f \in Feeds : mark[f] \in Nat /\ since[f] \in Nat
      /\ \A row \in table : row \in StreamRow /\ row.ts \in Nat /\ row.feed \in Feeds
      /\ clock \in Nat /\ night \in Nat
  BY StampTypes DEF StreamInvariant, FrameInvariant
<1>1. CASE ~up'
  BY <1>1 DEF LossNeedsATie
<1>2. CASE StartApi
  <2>1. mark' = since' /\ mark' \in [Feeds -> 0..MaxClock] /\ table' = table
    BY <1>2 DEF StartApi, StartMarks, writerVars
  <2>2. \A row \in table : ~(row.ts > since'[row.feed] /\ row.ts <= mark'[row.feed])
    BY <1>0, <2>1, StreamAssumption
  <2> QED
    BY <2>1, <2>2 DEF LossNeedsATie, Skipped
<1>3. CASE Poll
  <2>1. PICK b \in Batches(turn) :
           /\ turn \in Feeds
           /\ Offered' = Offered \cup {b[i] : i \in 1..Len(b)}
           /\ mark'[turn] = MarkAfter(turn, b)
           /\ \A f \in Feeds \ {turn} : mark'[f] = mark[f]
           /\ UNCHANGED <<up, since, table>>
    BY <1>0, <1>3, PollTakes
  <2>2. up
    BY <1>3 DEF Poll
  <2>3. ASSUME NEW row \in table, row.ts > since[row.feed], row.ts <= mark'[row.feed],
               row \notin Offered'
        PROVE  \E x \in Offered' : x.feed = row.feed /\ x.ts = row.ts
    <3>1. CASE row.ts <= mark[row.feed]
      <4>1. row \in Skipped
        BY <2>1, <2>3, <3>1 DEF Skipped
      <4> QED
        BY <2>1, <2>2, <4>1 DEF LossNeedsATie
    <3>2. CASE ~(row.ts <= mark[row.feed])
      <4>1. row.feed = turn /\ row \in Newer(turn, mark[turn])
        BY <1>0, <2>1, <2>3, <3>2 DEF Newer, Rows
      <4>2. \E i \in 1..Len(b) : b[i].ts = row.ts
        BY <1>0, <2>1, <2>3, <4>1, BatchReachesItsMark
      <4> QED
        BY <1>0, <2>1, <4>1, <4>2, BatchIsSound
    <3> QED
      BY <3>1, <3>2
  <2> QED
    BY <2>1, <2>3 DEF LossNeedsATie, Skipped
<1>4. ASSUME up' = up, Offered' = Offered, UNCHANGED <<mark, since>>,
             table' = table \/ EmitSignal \/ EmitEvent
      PROVE  LossNeedsATie'
  <2>1. CASE table' = table
    BY <1>4, <2>1 DEF LossNeedsATie, Skipped
  <2>2. CASE EmitSignal
    <3>1. table' = table \cup {NewRow("signal", clock + 1)}
      BY <2>2 DEF EmitSignal
    <3>2. ~(NewRow("signal", clock + 1).ts <= mark["signal"])
      BY <1>0 DEF NewRow, StampsAreCurrent, Feeds
    <3>3. NewRow("signal", clock + 1).feed = "signal"
      BY DEF NewRow
    <3>4. Skipped' \subseteq Skipped
      BY <1>4, <3>1, <3>2, <3>3 DEF Skipped
    <3> QED
      BY <1>4, <3>4 DEF LossNeedsATie
  <2>3. CASE EmitEvent
    <3> DEFINE new == NewRow("monitor", night)
    <3>1. table' = table \cup {new} /\ new.feed = "monitor" /\ new.ts = night
      BY <2>3 DEF EmitEvent, NewRow
    <3> HIDE DEF new
    <3>2. ASSUME up, night > since["monitor"], night <= mark["monitor"]
          PROVE  \E x \in Offered : x.feed = "monitor" /\ x.ts = night
      <4>1. "monitor" \in Feeds /\ mark["monitor"] # since["monitor"]
        BY <1>0, <3>2 DEF Feeds
      <4>2. PICK x \in Offered : x.feed = "monitor" /\ x.ts = mark["monitor"]
        BY <1>0, <3>2, <4>1 DEF MarkIsTaken
      <4>3. x \in table /\ x.ts <= night
        BY <1>0, <4>2, TakenIsStored DEF StampsAreCurrent
      <4>4. x.ts = night
        BY <1>0, <3>2, <4>2, <4>3
      <4> QED
        BY <4>2, <4>4
    <3>3. \A row \in Skipped' : row \in Skipped \/ row = new
      BY <1>4, <3>1 DEF Skipped
    <3>4. new \in Skipped' => night > since["monitor"] /\ night <= mark["monitor"]
      BY <1>4, <3>1 DEF Skipped
    <3> QED
      BY <1>4, <3>1, <3>2, <3>3, <3>4 DEF LossNeedsATie
  <2> QED
    BY <1>4, <2>1, <2>2, <2>3
<1> QED
  BY <1>0, <1>1, <1>2, <1>3, <1>4, TakenCases

(* A row behind the mark that was never taken shares its instant with one  *)
(* that was: LIMIT, failed polls and late events cost nothing else.        *)
THEOREM OnlyTiesAreLost == StreamSpec => []LossNeedsATie
<1>1. StreamInit => LossNeedsATie
  BY DEF StreamInit, LossNeedsATie
<1>2. StreamInvariant /\ LossNeedsATie /\ [StreamNext]_streamVars => LossNeedsATie'
  BY LossStep
<1> QED
  BY <1>1, <1>2, StreamIsInvariant, PTL DEF StreamSpec

(* A signal stamped since the poller started is taken, or still ahead of   *)
(* the mark.                                                               *)
THEOREM NoSignalIsSkipped == StreamSpec => []SignalsAreNeverSkipped
<1>1. StreamInvariant /\ LossNeedsATie => SignalsAreNeverSkipped
  <2> SUFFICES ASSUME StreamInvariant, LossNeedsATie, up, NEW row \in Skipped, row.feed = "signal"
               PROVE  FALSE
    BY DEF SignalsAreNeverSkipped
  <2>1. PICK x \in Offered : x.feed = row.feed /\ x.ts = row.ts
    BY DEF LossNeedsATie
  <2>2. x \in table /\ row \in table /\ row \notin Offered
    BY TakenIsStored DEF StreamInvariant, Skipped
  <2>3. x = row
    BY <2>1, <2>2 DEF StreamInvariant, StampsAreCurrent, Rows
  <2> QED
    BY <2>2, <2>3
<1> QED
  BY <1>1, StreamIsInvariant, OnlyTiesAreLost, PTL
=============================================================================
