------------------------------ MODULE Streams ------------------------------
(***************************************************************************)
(* Live views of one instance: the event store publishes an update after   *)
(* each commit (core/persistence/event_store.py, core/pubsub.py), and the  *)
(* WebSocket route (api/routes/instances.py) sends a snapshot and then     *)
(* relays the updates of a Redis channel.                                  *)
(*                                                                         *)
(* An append is its version check and commit (module EventStore has the    *)
(* statements); the publication follows outside the transaction and may be *)
(* overtaken by the next appender's, or lost.  The route subscribes only   *)
(* when it asks its generator for the first update, after the snapshot.    *)
(***************************************************************************)
EXTENDS Naturals, Sequences, FiniteSets, SequencesExt, FiniteSetsExt

CONSTANTS
  Appenders,   \* workers and API processes that append to the log
  Viewers,     \* WebSocket connections
  MaxBatch,    \* events of one append
  MaxVersion,  \* bound: events of the log
  MaxFaults    \* bound: lost publications, broken connections

ASSUME StreamsAssumption ==
  /\ MaxBatch \in Nat \ {0} /\ MaxVersion \in Nat /\ MaxFaults \in Nat

VARIABLES
  ver,     \* version of the log
  app,     \* what each appender is doing
  view,    \* what each connection is doing
  lost,    \* history: versions whose update was not published
  faults

vars == <<ver, app, view, lost, faults>>

IdleAppender == [pc |-> "idle", expected |-> 0, first |-> 0]
Closed == [pc |-> "closed", queue |-> <<>>, sent |-> {}, gap |-> {}]

Init ==
  /\ ver = 0
  /\ app = [a \in Appenders |-> IdleAppender]
  /\ view = [v \in Viewers |-> Closed]
  /\ lost = {} /\ faults = 0

UseFault == faults < MaxFaults /\ faults' = faults + 1
-----------------------------------------------------------------------------
(***************************************************************************)
(* EventStore.append_new                                                   *)
(***************************************************************************)

\* The appender loads the instance, and with it expected_version.
Load(a) ==
  /\ app[a].pc = "idle" /\ ver < MaxVersion
  /\ app' = [app EXCEPT ![a] = [IdleAppender EXCEPT !.pc = "append", !.expected = ver]]
  /\ UNCHANGED <<ver, view, lost, faults>>

\* A batch of n events is committed.
Commit(a, n) ==
  /\ app[a].pc = "append" /\ app[a].expected = ver /\ ver + n <= MaxVersion
  /\ ver' = ver + n
  /\ app' = [app EXCEPT ![a] = [@ EXCEPT !.pc = "publish", !.first = ver + 1, !.expected = ver + n]]
  /\ UNCHANGED <<view, lost, faults>>

\* ConflictError
Conflict(a) ==
  /\ app[a].pc = "append" /\ app[a].expected # ver
  /\ app' = [app EXCEPT ![a] = IdleAppender]
  /\ UNCHANGED <<ver, view, lost, faults>>

\* Mutant: events[0].sequence
FirstSequence(a) == app[a].first

\* InstanceUpdate.version: events[-1].sequence
UpdateVersion(a) == app[a].expected

\* PUBLISH reaches the connections that are subscribed at that moment.
Delivered(n) ==
  [v \in Viewers |->
     IF view[v].pc = "live" THEN [view[v] EXCEPT !.queue = Append(@, n)]
     ELSE IF view[v].pc \in {"snapshot", "subscribe"} THEN [view[v] EXCEPT !.gap = @ \cup {n}]
     ELSE view[v]]

\* Mutant: the update goes out before the version check and the commit.
PublishEarly(a) ==
  /\ app[a].pc \in {"append", "publish"}
  /\ view' = Delivered(IF app[a].pc = "append" THEN app[a].expected + 1 ELSE UpdateVersion(a))
  /\ app' = [app EXCEPT ![a] = IF @.pc = "append" THEN @ ELSE IdleAppender]
  /\ UNCHANGED <<ver, lost, faults>>

Publish(a) ==
  /\ app[a].pc = "publish"
  /\ view' = Delivered(UpdateVersion(a))
  /\ app' = [app EXCEPT ![a] = IdleAppender]
  /\ UNCHANGED <<ver, lost, faults>>

\* Redis raises, which is logged and swallowed; or the process dies, or the drive
\* is cancelled.
PublicationLost(a) ==
  /\ app[a].pc = "publish"
  /\ UseFault
  /\ lost' = lost \cup {UpdateVersion(a)}
  /\ app' = [app EXCEPT ![a] = IdleAppender]
  /\ UNCHANGED <<ver, view>>
-----------------------------------------------------------------------------
(***************************************************************************)
(* The route stream: authenticate, get_instance, accept and send_json,     *)
(* subscribe, relay.                                                       *)
(***************************************************************************)
Become(v, pc) == view' = [view EXCEPT ![v].pc = pc]

Connect(v) ==
  /\ view[v].pc = "closed"
  /\ Become(v, "authenticated")
  /\ UNCHANGED <<ver, app, lost, faults>>

\* get_instance; without an instance the socket is closed with 4404.
ReadSnapshot(v) ==
  /\ view[v].pc = "authenticated"
  /\ view' = [view EXCEPT ![v] =
       IF ver = 0 THEN Closed ELSE [Closed EXCEPT !.pc = "snapshot", !.queue = <<ver>>]]
  /\ UNCHANGED <<ver, app, lost, faults>>

\* The first of the queue goes out.
SentFirst(v) == [view[v] EXCEPT !.sent = @ \cup {Head(view[v].queue)}, !.queue = Tail(@)]

SendSnapshot(v) ==
  /\ view[v].pc = "snapshot"
  /\ view' = [view EXCEPT ![v] = [SentFirst(v) EXCEPT !.pc = "subscribe"]]
  /\ UNCHANGED <<ver, app, lost, faults>>

\* SUBSCRIBE, at the first step of the generator.
Subscribe(v) ==
  /\ view[v].pc = "subscribe"
  /\ Become(v, "live")
  /\ UNCHANGED <<ver, app, lost, faults>>

Relay(v) ==
  /\ view[v].pc = "live" /\ view[v].queue # <<>>
  /\ view' = [view EXCEPT ![v] = SentFirst(v)]
  /\ UNCHANGED <<ver, app, lost, faults>>

\* Mutant: what was queued stays with the connection.
CloseKeepsQueue(v) ==
  /\ view[v].pc # "closed"
  /\ UseFault
  /\ view' = [view EXCEPT ![v].pc = "closed"]
  /\ UNCHANGED <<ver, app, lost>>

\* A bad credential, WebSocketDisconnect from a send, an error of Redis in
\* listen(): the generator is closed, which unsubscribes.
Close(v) ==
  /\ view[v].pc # "closed"
  /\ UseFault
  /\ view' = [view EXCEPT ![v] = Closed]
  /\ UNCHANGED <<ver, app, lost>>
-----------------------------------------------------------------------------
Appends(a) ==
  \/ Load(a) \/ Conflict(a) \/ Publish(a) \/ PublicationLost(a)
  \/ \E n \in 1 .. MaxBatch : Commit(a, n)

Streaming(v) == ReadSnapshot(v) \/ SendSnapshot(v) \/ Subscribe(v) \/ Relay(v)

Next ==
  \/ \E a \in Appenders : Appends(a)
  \/ \E v \in Viewers : Connect(v) \/ Streaming(v) \/ Close(v)

Spec == Init /\ [][Next]_vars

\* A coroutine that can go on does: publications are made, or lost, and open
\* streams are served.  Nobody has to append or to connect.
FairSpec ==
  /\ Spec
  /\ \A a \in Appenders : WF_vars(Publish(a))
  /\ \A v \in Viewers : WF_vars(Streaming(v))
-----------------------------------------------------------------------------
\* The log, the appenders and the connections have the shape of the code's;
\* nothing is queued for a connection that is not subscribed.
TypeOK ==
  /\ ver \in 0 .. MaxVersion
  /\ app \in [Appenders -> [pc : {"idle", "append", "publish"}, expected : 0 .. MaxVersion,
                            first : 0 .. MaxVersion]]
  /\ \A v \in Viewers :
       /\ view[v].pc \in {"closed", "authenticated", "snapshot", "subscribe", "live"}
       /\ view[v].queue \in Seq(1 .. MaxVersion)
       /\ view[v].queue # <<>> => view[v].pc \in {"snapshot", "live"}
       /\ view[v].sent \cup view[v].gap \subseteq 1 .. MaxVersion
  /\ lost \subseteq 1 .. MaxVersion /\ faults \in 0 .. MaxFaults

\* No browser is told of a version that is not committed: whoever reads the
\* instance after an update finds at least what the update announced, also when
\* appenders conflict.
NeverAheadOfLog ==
  \A v \in Viewers : \A n \in view[v].sent \cup ToSet(view[v].queue) : n <= ver

\* LESSONS_LEARNED.md: a publish that fails means "no live updates, never lost or
\* delayed state".  An open stream finally announces the version the log has
\* come to, in whatever order the updates arrive; unless that update was lost, or
\* was published between the snapshot and the subscription.
StreamCatchesUp ==
  \A v \in Viewers :
    <>[](view[v].pc = "live" => ver \in view[v].sent \cup view[v].gap \cup lost)
=============================================================================
