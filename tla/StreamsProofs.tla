---------------------------- MODULE StreamsProofs ----------------------------
(***************************************************************************)
(* What live views guarantee for every number of appenders and viewers and *)
(* every bound: types, and that no update is ahead of the log.             *)
(***************************************************************************)
EXTENDS Streams, SequenceTheorems, TLAPS

Versions == 1 .. MaxVersion
Pcs == {"closed", "authenticated", "snapshot", "subscribe", "live"}
AppRecords == [pc : {"idle", "append", "publish"}, expected : 0 .. MaxVersion,
               first : 0 .. MaxVersion]
Views == [pc : Pcs, queue : Seq(Versions), sent : SUBSET Versions, gap : SUBSET Versions]

\* The types; a connection that is about to send its snapshot has it and nothing else.
Shape ==
  /\ ver \in 0 .. MaxVersion
  /\ app \in [Appenders -> AppRecords]
  /\ view \in [Viewers -> Views]
  /\ \A v \in Viewers : /\ view[v].pc = "snapshot" => Len(view[v].queue) = 1
                        /\ view[v].queue # <<>> => view[v].pc \in {"snapshot", "live"}
  /\ lost \subseteq Versions /\ faults \in 0 .. MaxFaults

\* An appender that has committed announces a version the log has reached, and
\* one that has not yet expects no later one.
NotAhead ==
  \A a \in Appenders : /\ app[a].pc # "idle" => app[a].expected <= ver
                       /\ app[a].pc = "publish" => app[a].expected >= 1

\* What is queued or was sent is in the log.
Behind(r) ==
  /\ \A n \in r.sent : n <= ver
  /\ \A k \in 1 .. Len(r.queue) : r.queue[k] <= ver

IInv == Shape /\ NotAhead /\ \A v \in Viewers : Behind(view[v])
-----------------------------------------------------------------------------
\* Fields of a connection.
LEMMA ViewFields ==
  ASSUME NEW r \in Views
  PROVE  /\ r.pc \in Pcs /\ r.queue \in Seq(Versions)
         /\ r.sent \in SUBSET Versions /\ r.gap \in SUBSET Versions
BY DEF Views

\* The record of a connection that is closed.
LEMMA ClosedFacts ==
  Closed \in Views /\ Closed.pc = "closed" /\ Closed.queue = <<>> /\ Closed.sent = {}
<1>1. <<>> \in Seq(Versions)
  OBVIOUS
<1> QED
  BY <1>1 DEF Closed, Views, Pcs

\* A connection with another pc.
LEMMA BecomeFacts ==
  ASSUME NEW r \in Views, NEW pc \in Pcs
  PROVE  LET q == [r EXCEPT !.pc = pc]
         IN q \in Views /\ q.pc = pc /\ q.queue = r.queue /\ q.sent = r.sent
BY DEF Views

\* What Redis appends to a queue.
LEMMA QueueFacts ==
  ASSUME NEW r \in Views, NEW n \in Versions
  PROVE  LET q == [r EXCEPT !.queue = Append(@, n)]
         IN /\ q \in Views /\ q.pc = r.pc /\ q.sent = r.sent /\ q.queue # <<>>
            /\ Len(q.queue) = Len(r.queue) + 1
            /\ \A k \in 1 .. Len(r.queue) : q.queue[k] = r.queue[k]
            /\ q.queue[Len(r.queue) + 1] = n
<1>1. r.queue \in Seq(Versions)
  BY ViewFields
<1>2. PICK new \in Seq(Versions) : new = Append(r.queue, n)
  BY <1>1, AppendProperties
<1>3. /\ new # <<>> /\ Len(new) = Len(r.queue) + 1 /\ new[Len(r.queue) + 1] = n
      /\ \A k \in 1 .. Len(r.queue) : new[k] = r.queue[k]
  BY <1>1, <1>2, AppendProperties
<1>4. LET q == [r EXCEPT !.queue = new]
      IN q \in Views /\ q.pc = r.pc /\ q.sent = r.sent /\ q.queue = new
  BY DEF Views
<1>5. [r EXCEPT !.queue = Append(@, n)] = [r EXCEPT !.queue = new]
  BY <1>2
<1> QED
  BY <1>3, <1>4, <1>5

\* What was missed between the snapshot and the subscription.
LEMMA GapFacts ==
  ASSUME NEW r \in Views, NEW n \in Versions
  PROVE  LET q == [r EXCEPT !.gap = @ \cup {n}]
         IN q \in Views /\ q.pc = r.pc /\ q.queue = r.queue /\ q.sent = r.sent
BY DEF Views

\* The first of a queue is sent: nothing is sent that was not queued.
LEMMA SentFacts ==
  ASSUME Shape, NEW v \in Viewers, view[v].queue # <<>>, Behind(view[v])
  PROVE  LET q == SentFirst(v)
         IN q \in Views /\ q.pc = view[v].pc /\ Behind(q) /\ q.queue = Tail(view[v].queue)
<1>1. view[v] \in Views /\ view[v].queue \in Seq(Versions)
  BY ViewFields DEF Shape
<1>2. PICK rest \in Seq(Versions) : rest = Tail(view[v].queue)
  BY <1>1, HeadTailProperties
<1>3. PICK n \in Versions : n = Head(view[v].queue)
  BY <1>1, HeadTailProperties
<1>4. Len(view[v].queue) \in Nat \ {0} /\ n = view[v].queue[1]
  BY <1>1, <1>3, EmptySeq, LenProperties
<1>5. /\ Len(rest) = Len(view[v].queue) - 1
      /\ \A k \in 1 .. Len(rest) : rest[k] = view[v].queue[k + 1]
  BY <1>1, <1>2, HeadTailProperties
<1>6. n <= ver /\ \A k \in 1 .. Len(rest) : rest[k] <= ver
  BY <1>4, <1>5 DEF Behind
<1> DEFINE q == [view[v] EXCEPT !.sent = @ \cup {n}, !.queue = rest]
<1>7. SentFirst(v) = q
  BY <1>1, <1>2, <1>3 DEF SentFirst, Views
<1>8. q \in Views /\ q.pc = view[v].pc /\ q.sent = view[v].sent \cup {n} /\ q.queue = rest
  BY <1>1 DEF Views
<1> HIDE DEF q
<1>9. Behind(q)
  BY <1>6, <1>8 DEF Behind
<1> QED
  BY <1>2, <1>7, <1>8, <1>9
-----------------------------------------------------------------------------
\* Nothing has been announced at the start.
LEMMA InitIInv == Init => IInv
<1> SUFFICES ASSUME Init PROVE IInv
  OBVIOUS
<1>1. Shape
  <2>1. IdleAppender \in AppRecords
    BY StreamsAssumption DEF IdleAppender, AppRecords
  <2> QED
    BY <2>1, ClosedFacts, StreamsAssumption DEF Init, Shape
<1>2. NotAhead
  BY DEF Init, NotAhead, IdleAppender
<1>3. \A v \in Viewers : Behind(view[v])
  BY ClosedFacts, EmptySeq DEF Init, Behind
<1> QED
  BY <1>1, <1>2, <1>3 DEF IInv

\* An appender that moves changes no connection and takes no version back.
LEMMA AppenderStep ==
  ASSUME IInv, NEW a \in Appenders, NEW rec \in AppRecords,
         app' = [app EXCEPT ![a] = rec], UNCHANGED view,
         ver' \in 0 .. MaxVersion, ver <= ver', lost' \subseteq Versions,
         faults' \in 0 .. MaxFaults,
         rec.pc # "idle" => rec.expected <= ver', rec.pc = "publish" => rec.expected >= 1
  PROVE  IInv'
<1>1. ver \in Int /\ ver' \in Int
  BY DEF IInv, Shape
<1>2. Shape'
  BY DEF IInv, Shape
<1>3. NotAhead'
  <2> SUFFICES ASSUME NEW b \in Appenders
               PROVE  /\ app'[b].pc # "idle" => app'[b].expected <= ver'
                      /\ app'[b].pc = "publish" => app'[b].expected >= 1
    BY DEF NotAhead
  <2>1. app[b] \in AppRecords /\ app[b].expected \in Int
    BY StreamsAssumption DEF IInv, Shape, AppRecords
  <2>2. CASE b = a
    BY <2>2 DEF IInv, Shape
  <2>3. CASE b # a
    BY <1>1, <2>1, <2>3 DEF IInv, Shape, NotAhead
  <2> QED
    BY <2>2, <2>3
<1>4. (\A v \in Viewers : Behind(view[v]))'
  <2> SUFFICES ASSUME NEW v \in Viewers
               PROVE  /\ \A n \in view[v].sent : n <= ver'
                      /\ \A k \in 1 .. Len(view[v].queue) : view[v].queue[k] <= ver'
    BY DEF Behind
  <2>1. view[v].queue \in Seq(Versions) /\ view[v].sent \in SUBSET Versions
    BY ViewFields DEF IInv, Shape
  <2>2. \A n \in Versions : n \in Int
    BY StreamsAssumption DEF Versions
  <2>3. \A k \in 1 .. Len(view[v].queue) : view[v].queue[k] \in Int
    BY <2>1, <2>2, ElementOfSeq
  <2> QED
    BY <1>1, <2>1, <2>2, <2>3 DEF IInv, Behind
<1> QED
  BY <1>2, <1>3, <1>4 DEF IInv

\* A connection that moves is again one that knows nothing the log does not.
LEMMA ViewerStep ==
  ASSUME IInv, NEW new \in [Viewers -> Views], view' = new,
         \A v \in Viewers : /\ new[v].pc = "snapshot" => Len(new[v].queue) = 1
                            /\ new[v].queue # <<>> => new[v].pc \in {"snapshot", "live"}
                            /\ Behind(new[v]),
         UNCHANGED <<ver, lost>>, faults' \in 0 .. MaxFaults,
         app' \in [Appenders -> AppRecords],
         \A a \in Appenders : app'[a].pc # "idle" => app'[a] = app[a]
  PROVE  IInv'
<1>1. Shape'
  BY DEF IInv, Shape
<1>2. NotAhead'
  BY DEF IInv, NotAhead
<1>3. (\A v \in Viewers : Behind(view[v]))'
  BY DEF Behind
<1> QED
  BY <1>1, <1>2, <1>3 DEF IInv

\* One connection moves, and nothing else.
LEMMA OneViewer ==
  ASSUME IInv, NEW v \in Viewers, NEW rec \in Views, view' = [view EXCEPT ![v] = rec],
         rec.pc = "snapshot" => Len(rec.queue) = 1,
         rec.queue # <<>> => rec.pc \in {"snapshot", "live"}, Behind(rec),
         UNCHANGED <<ver, app, lost>>, faults' \in 0 .. MaxFaults
  PROVE  IInv'
<1>1. PICK new \in [Viewers -> Views] : new = [view EXCEPT ![v] = rec]
  BY DEF IInv, Shape
<1>2. \A u \in Viewers : /\ new[u].pc = "snapshot" => Len(new[u].queue) = 1
                         /\ new[u].queue # <<>> => new[u].pc \in {"snapshot", "live"}
                         /\ Behind(new[u])
  <2> SUFFICES ASSUME NEW u \in Viewers
               PROVE  /\ new[u].pc = "snapshot" => Len(new[u].queue) = 1
                      /\ new[u].queue # <<>> => new[u].pc \in {"snapshot", "live"}
                      /\ Behind(new[u])
    OBVIOUS
  <2>1. CASE u = v
    <3>1. new[u] = rec
      BY <1>1, <2>1 DEF IInv, Shape
    <3> QED
      BY <3>1
  <2>2. CASE u # v
    <3>1. new[u] = view[u]
      BY <1>1, <2>2 DEF IInv, Shape
    <3> QED
      BY <3>1 DEF IInv, Shape
  <2> QED
    BY <2>1, <2>2
<1>3. app' \in [Appenders -> AppRecords] /\ \A a \in Appenders : app'[a] = app[a]
  BY DEF IInv, Shape
<1> QED
  BY <1>1, <1>2, <1>3, ViewerStep

\* An update that is published announces a version of the log.
LEMMA PublishIInv ==
  ASSUME IInv, NEW a \in Appenders, Publish(a)
  PROVE  IInv'
<1>1. app[a] \in AppRecords /\ view \in [Viewers -> Views]
  BY DEF IInv, Shape
<1>2. app[a].expected <= ver /\ app[a].expected >= 1
  BY DEF Publish, IInv, NotAhead
<1>3. PICK n \in Versions : n = UpdateVersion(a)
  BY <1>1, <1>2, StreamsAssumption DEF UpdateVersion, AppRecords, Versions
<1>4. PICK new : new = Delivered(n)
  OBVIOUS
<1>5. ASSUME NEW v \in Viewers
      PROVE  /\ new[v] \in Views /\ new[v].pc = view[v].pc
             /\ new[v].pc = "snapshot" => Len(new[v].queue) = 1
             /\ new[v].queue # <<>> => new[v].pc \in {"snapshot", "live"}
             /\ Behind(new[v])
  <2>1. /\ view[v] \in Views /\ Behind(view[v])
        /\ view[v].pc = "snapshot" => Len(view[v].queue) = 1
        /\ view[v].queue # <<>> => view[v].pc \in {"snapshot", "live"}
    BY DEF IInv, Shape
  <2>2. CASE view[v].pc = "live"
    <3>1. new[v] = [view[v] EXCEPT !.queue = Append(@, n)]
      BY <1>4, <2>2 DEF Delivered
    <3>2. /\ new[v] \in Views /\ new[v].pc = "live" /\ new[v].sent = view[v].sent
          /\ Len(new[v].queue) = Len(view[v].queue) + 1
          /\ \A k \in 1 .. Len(view[v].queue) : new[v].queue[k] = view[v].queue[k]
          /\ new[v].queue[Len(view[v].queue) + 1] = n
      BY <2>1, <2>2, <3>1, QueueFacts
    <3>3. n <= ver /\ Len(view[v].queue) \in Nat
      BY <1>2, <1>3, <2>1, ViewFields, LenProperties DEF UpdateVersion
    <3>4. Behind(new[v])
      <4>1. \A k \in 1 .. Len(new[v].queue) :
              k \in 1 .. Len(view[v].queue) \/ k = Len(view[v].queue) + 1
        BY <3>2, <3>3
      <4>2. \A k \in 1 .. Len(new[v].queue) : new[v].queue[k] <= ver
        BY <2>1, <3>2, <3>3, <4>1 DEF Behind
      <4> QED
        BY <2>1, <3>2, <4>2 DEF Behind
    <3> QED
      BY <2>2, <3>2, <3>4
  <2>3. CASE view[v].pc \in {"snapshot", "subscribe"}
    <3>1. new[v] = [view[v] EXCEPT !.gap = @ \cup {n}]
      BY <1>4, <2>3 DEF Delivered
    <3>2. /\ new[v] \in Views /\ new[v].pc = view[v].pc /\ new[v].queue = view[v].queue
          /\ new[v].sent = view[v].sent
      BY <2>1, <3>1, GapFacts
    <3>3. Behind(new[v])
      BY <2>1, <3>2 DEF Behind
    <3> QED
      BY <2>1, <3>2, <3>3
  <2>4. CASE view[v].pc \notin {"live", "snapshot", "subscribe"}
    <3>1. new[v] = view[v]
      BY <1>4, <2>4 DEF Delivered
    <3> QED
      BY <2>1, <3>1
  <2> QED
    BY <2>2, <2>3, <2>4
<1>6. new \in [Viewers -> Views]
  BY <1>4, <1>5 DEF Delivered
<1>7. view' = new /\ UNCHANGED <<ver, lost, faults>> /\ app' = [app EXCEPT ![a] = IdleAppender]
  BY <1>3, <1>4 DEF Publish
<1>8. IdleAppender \in AppRecords /\ IdleAppender.pc = "idle"
  BY StreamsAssumption DEF IdleAppender, AppRecords
<1>9. /\ app' \in [Appenders -> AppRecords]
      /\ \A b \in Appenders : app'[b].pc # "idle" => app'[b] = app[b]
  BY <1>7, <1>8 DEF IInv, Shape
<1>10. faults' \in 0 .. MaxFaults
  BY <1>7 DEF IInv, Shape
<1> QED
  BY <1>5, <1>6, <1>7, <1>9, <1>10, ViewerStep

\* Every other step of an appender.
LEMMA AppendsIInv ==
  ASSUME IInv, NEW a \in Appenders, Appends(a)
  PROVE  IInv'
<1>1. /\ app[a] \in AppRecords /\ ver \in 0 .. MaxVersion
      /\ lost \subseteq Versions /\ faults \in 0 .. MaxFaults
  BY DEF IInv, Shape
<1>2. MaxVersion \in Nat /\ MaxFaults \in Nat /\ MaxBatch \in Nat
  BY StreamsAssumption
<1>3. IdleAppender \in AppRecords /\ IdleAppender.pc = "idle"
  BY StreamsAssumption DEF IdleAppender, AppRecords
<1>0. ver <= ver /\ ver + 0 = ver
  BY <1>1, <1>2
<1>4. CASE Load(a)
  <2> DEFINE rec == [IdleAppender EXCEPT !.pc = "append", !.expected = ver]
  <2>1. rec \in AppRecords /\ rec.pc = "append" /\ rec.expected = ver
    BY <1>1, <1>3 DEF AppRecords, IdleAppender
  <2>2. app' = [app EXCEPT ![a] = rec] /\ UNCHANGED <<ver, view, lost, faults>>
    BY <1>4 DEF Load
  <2> HIDE DEF rec
  <2>3. /\ ver' \in 0 .. MaxVersion /\ ver <= ver' /\ rec.expected <= ver'
        /\ lost' \subseteq Versions /\ faults' \in 0 .. MaxFaults
    BY <1>0, <1>1, <2>1, <2>2
  <2> QED
    BY <2>1, <2>2, <2>3, AppenderStep
<1>5. CASE Conflict(a)
  <2>1. /\ ver' \in 0 .. MaxVersion /\ ver <= ver' /\ UNCHANGED view
        /\ lost' \subseteq Versions /\ faults' \in 0 .. MaxFaults
        /\ app' = [app EXCEPT ![a] = IdleAppender]
    BY <1>0, <1>1, <1>5 DEF Conflict
  <2> QED
    BY <1>3, <2>1, AppenderStep
<1>6. CASE Publish(a)
  BY <1>6, PublishIInv
<1>7. CASE PublicationLost(a)
  <2>1. app[a].expected \in Versions
    BY <1>1, <1>2, <1>7 DEF PublicationLost, IInv, NotAhead, AppRecords, Versions
  <2>2. /\ lost' \subseteq Versions /\ faults' \in 0 .. MaxFaults
        /\ app' = [app EXCEPT ![a] = IdleAppender] /\ UNCHANGED <<ver, view>>
    BY <1>1, <1>2, <1>7, <2>1 DEF PublicationLost, UseFault, UpdateVersion
  <2>3. ver' \in 0 .. MaxVersion /\ ver <= ver'
    BY <1>0, <1>1, <2>2
  <2> QED
    BY <1>3, <2>2, <2>3, AppenderStep
<1>8. ASSUME NEW n \in 1 .. MaxBatch, Commit(a, n) PROVE IInv'
  <2>1. n \in Nat /\ n >= 1 /\ ver \in Nat /\ ver + n <= MaxVersion
    BY <1>1, <1>2, <1>8 DEF Commit
  <2> DEFINE rec == [app[a] EXCEPT !.pc = "publish", !.first = ver + 1, !.expected = ver + n]
  <2>0. PICK last \in 0 .. MaxVersion, first \in 0 .. MaxVersion :
          last = ver + n /\ first = ver + 1
    BY <1>2, <2>1
  <2>2. rec \in AppRecords /\ rec.pc = "publish" /\ rec.expected = ver + n
    BY <1>1, <2>0 DEF AppRecords
  <2>3. /\ app' = [app EXCEPT ![a] = rec] /\ UNCHANGED <<view, lost, faults>>
        /\ ver' = ver + n
    BY <1>8 DEF Commit
  <2> HIDE DEF rec
  <2>4. ver' \in 0 .. MaxVersion /\ ver <= ver' /\ rec.expected <= ver' /\ rec.expected >= 1
    BY <1>2, <2>1, <2>2, <2>3
  <2>5. lost' \subseteq Versions /\ faults' \in 0 .. MaxFaults
    BY <1>1, <2>3
  <2> QED
    BY <2>2, <2>3, <2>4, <2>5, AppenderStep
<1> QED
  BY <1>4, <1>5, <1>6, <1>7, <1>8 DEF Appends

\* Every step of a connection.
LEMMA ViewersIInv ==
  ASSUME IInv, NEW v \in Viewers, Connect(v) \/ Streaming(v) \/ Close(v)
  PROVE  IInv'
<1>1. /\ view \in [Viewers -> Views] /\ view[v] \in Views /\ Behind(view[v])
      /\ ver \in 0 .. MaxVersion /\ faults \in 0 .. MaxFaults /\ MaxVersion \in Nat
      /\ view[v].pc = "snapshot" => Len(view[v].queue) = 1
      /\ view[v].queue # <<>> => view[v].pc \in {"snapshot", "live"}
  BY StreamsAssumption DEF IInv, Shape
<1>2. Behind(Closed)
  BY ClosedFacts, EmptySeq DEF Behind
<1>3. ASSUME NEW pc \in Pcs, Become(v, pc), view[v].queue = <<>>, pc # "snapshot",
             UNCHANGED <<ver, app, lost, faults>>
      PROVE  IInv'
  <2>1. PICK rec \in Views : /\ rec = [view[v] EXCEPT !.pc = pc] /\ rec.pc = pc
                             /\ rec.queue = view[v].queue /\ rec.sent = view[v].sent
    BY <1>1, BecomeFacts
  <2>2. view' = [view EXCEPT ![v] = rec]
    BY <1>1, <1>3, <2>1 DEF Become
  <2>3. Behind(rec)
    BY <1>1, <2>1 DEF Behind
  <2> QED
    BY <1>1, <1>3, <2>1, <2>2, <2>3, OneViewer
<1>4. CASE Connect(v)
  BY <1>1, <1>3, <1>4 DEF Connect, Pcs
<1>5. CASE ReadSnapshot(v)
  <2>1. CASE ver = 0
    BY <1>1, <1>2, <1>5, <2>1, ClosedFacts, OneViewer DEF ReadSnapshot
  <2>2. CASE ver # 0
    <3> DEFINE rec == [Closed EXCEPT !.pc = "snapshot", !.queue = <<ver>>]
    <3>0. ver \in Versions
      BY <1>1, <2>2 DEF Versions
    <3>1. PICK one : one = <<ver>>
      OBVIOUS
    <3>2. one # <<>> /\ Len(one) = 1 /\ one[1] = ver /\ one \in Seq(Versions)
      BY <3>0, <3>1
    <3>3. rec \in Views /\ rec.pc = "snapshot" /\ rec.queue = one /\ rec.sent = {}
      BY <3>1, <3>2 DEF Closed, Views, Pcs
    <3>4. view' = [view EXCEPT ![v] = rec] /\ UNCHANGED <<ver, app, lost, faults>>
      BY <1>5, <2>2 DEF ReadSnapshot
    <3> HIDE DEF rec
    <3>5. Behind(rec)
      <4>0. Len(rec.queue) = 1
        BY <3>2, <3>3
      <4>1. \A k \in 1 .. Len(rec.queue) : k = 1
        BY <4>0
      <4>2. ver <= ver
        BY <1>1
      <4> QED
        BY <3>2, <3>3, <4>1, <4>2 DEF Behind
    <3> QED
      BY <1>1, <3>2, <3>3, <3>4, <3>5, OneViewer
  <2> QED
    BY <2>1, <2>2
<1>6. CASE SendSnapshot(v)
  <2>0. view[v].queue \in Seq(Versions) /\ Len(view[v].queue) = 1
    BY <1>1, <1>6, ViewFields DEF SendSnapshot
  <2>1. /\ view[v].pc = "snapshot" /\ view[v].queue # <<>>
        /\ Tail(view[v].queue) = <<>>
    <3>1. view[v].pc = "snapshot" /\ view[v].queue # <<>>
      BY <1>6, <2>0, EmptySeq DEF SendSnapshot
    <3>2. PICK rest \in Seq(Versions) :
            rest = Tail(view[v].queue) /\ Len(rest) = Len(view[v].queue) - 1
      BY <2>0, <3>1, HeadTailProperties
    <3>3. rest = <<>>
      BY <2>0, <3>2, EmptySeq
    <3> QED
      BY <3>1, <3>2, <3>3
  <2>2. PICK q \in Views : /\ q = SentFirst(v) /\ q.pc = view[v].pc /\ Behind(q)
                           /\ q.queue = Tail(view[v].queue)
    BY <1>1, <2>1, SentFacts DEF IInv
  <2>3. PICK rec \in Views : /\ rec = [q EXCEPT !.pc = "subscribe"] /\ rec.pc = "subscribe"
                             /\ rec.queue = q.queue /\ rec.sent = q.sent
    BY BecomeFacts DEF Pcs
  <2>4. view' = [view EXCEPT ![v] = rec] /\ UNCHANGED <<ver, app, lost, faults>>
    BY <1>6, <2>2, <2>3 DEF SendSnapshot
  <2>5. Behind(rec)
    BY <2>2, <2>3 DEF Behind
  <2>6. rec.queue = <<>>
    BY <2>1, <2>2, <2>3
  <2> QED
    BY <1>1, <2>3, <2>4, <2>5, <2>6, OneViewer
<1>7. CASE Subscribe(v)
  BY <1>1, <1>3, <1>7 DEF Subscribe, Pcs
<1>8. CASE Relay(v)
  <2>1. PICK q \in Views : q = SentFirst(v) /\ q.pc = view[v].pc /\ Behind(q)
    BY <1>1, <1>8, SentFacts DEF IInv, Relay
  <2>2. view' = [view EXCEPT ![v] = q] /\ q.pc = "live" /\ UNCHANGED <<ver, app, lost, faults>>
    BY <1>8, <2>1 DEF Relay
  <2> QED
    BY <1>1, <2>1, <2>2, OneViewer
<1>9. CASE Close(v)
  <2>1. faults' \in 0 .. MaxFaults
    BY <1>1, <1>9, StreamsAssumption DEF Close, UseFault
  <2> QED
    BY <1>2, <1>9, <2>1, ClosedFacts, OneViewer DEF Close
<1> QED
  BY <1>4, <1>5, <1>6, <1>7, <1>8, <1>9 DEF Streaming
-----------------------------------------------------------------------------
\* No reachable state has a connection that knows more than the log.
THEOREM StreamsInvariant == Spec => []IInv
<1>1. ASSUME IInv, [Next]_vars PROVE IInv'
  <2>1. CASE UNCHANGED vars
    <3>1. Shape' /\ NotAhead'
      BY <1>1, <2>1 DEF vars, IInv, Shape, NotAhead
    <3>2. (\A v \in Viewers : Behind(view[v]))'
      BY <1>1, <2>1 DEF vars, IInv, Behind
    <3> QED
      BY <3>1, <3>2 DEF IInv
  <2>2. ASSUME NEW a \in Appenders, Appends(a) PROVE IInv'
    BY <1>1, <2>2, AppendsIInv
  <2>3. ASSUME NEW v \in Viewers, Connect(v) \/ Streaming(v) \/ Close(v) PROVE IInv'
    BY <1>1, <2>3, ViewersIInv
  <2> QED
    BY <1>1, <2>1, <2>2, <2>3 DEF Next
<1> QED
  BY <1>1, InitIInv, PTL DEF Spec

\* The log, the appenders and the WebSocket connections keep their shape, and
\* nothing is queued for a connection that is not subscribed.
THEOREM StreamsTypeCorrect == Spec => []TypeOK
<1>1. IInv => TypeOK
  <2> SUFFICES ASSUME IInv PROVE TypeOK
    OBVIOUS
  <2>1. \A v \in Viewers :
          /\ view[v].pc \in Pcs /\ view[v].queue \in Seq(Versions)
          /\ view[v].sent \in SUBSET Versions /\ view[v].gap \in SUBSET Versions
          /\ view[v].queue # <<>> => view[v].pc \in {"snapshot", "live"}
    BY ViewFields DEF IInv, Shape
  <2> QED
    BY <2>1 DEF IInv, Shape, TypeOK, AppRecords, Versions, Pcs
<1> QED
  BY <1>1, StreamsInvariant, PTL

\* Whatever the appenders' publications overtake, no browser is told, or is about
\* to be told, of a version that is not committed.
THEOREM StreamsCorrect == Spec => []NeverAheadOfLog
<1>1. IInv => NeverAheadOfLog
  <2> SUFFICES ASSUME IInv, NEW v \in Viewers,
                      NEW n \in view[v].sent \cup ToSet(view[v].queue)
               PROVE  n <= ver
    BY DEF NeverAheadOfLog
  <2>1. view[v].queue \in Seq(Versions) /\ Behind(view[v])
    BY ViewFields DEF IInv, Shape
  <2>2. DOMAIN view[v].queue = 1 .. Len(view[v].queue)
    BY <2>1, LenProperties
  <2> QED
    BY <2>1, <2>2 DEF Behind, ToSet
<1> QED
  BY <1>1, StreamsInvariant, PTL
=============================================================================
