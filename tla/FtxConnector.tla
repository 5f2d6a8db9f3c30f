---------------------------- MODULE FtxConnector ----------------------------
(***************************************************************************)
(* The FTX websocket connector, with the subscriptions that use it and the *)
(* server it talks to.  ChannelSubscriptions is kept as it is: each of its *)
(* actions is a conjunct of one action here, which adds what the handler   *)
(* does to the connection (frames queued, connection dropped) and says     *)
(* when it may run.                                                        *)
(*                                                                         *)
(* reconnect() is a session: it connects, announces the connection, and    *)
(* runs a reader, a writer and a pinger until one of them throws; the      *)
(* others are then cancelled.  Assertions are compiled out (NDEBUG): where *)
(* one would stop the program, the run goes on.                            *)
(***************************************************************************)
EXTENDS ChannelSubscriptions

CONSTANTS HasAuth,     \* args_.auth.has_auth()
          MaxInbound,  \* bound: frames under way when the server sends data
          MaxFaults    \* bound: network and server faults, and user drops

ASSUME HasAuthAssumption == HasAuth \in BOOLEAN
ASSUME BoundsAssumption  == MaxInbound \in Nat /\ MaxFaults \in Nat
\* None is also the channel of a frame that is about none.
ASSUME NoneAssumption    == None \notin Channels

VARIABLES
  phase,       \* where run() and reconnect() of the connector are
  stopping,    \* the stop signal was emitted
  onDrop,      \* on_drop_ is set
  sock,        \* the TCP connection under the websocket
  reader,      \* read_state
  writer,      \* ftx_write_state
  inHand,      \* the frame the writer has popped and not written yet
  pinger,      \* run_ping_pong
  pongBuffer,  \* a pong is in pong_buffer
  writeQueue,  \* write_queue_
  inbound,     \* frames from the server, not read yet
  srv,         \* what the server knows of this session
  faults       \* faults so far

session == <<reader, writer, inHand, pinger, pongBuffer>>
network == <<sock, inbound, srv>>
cvars   == <<phase, stopping, onDrop, sock, reader, writer, inHand, pinger,
             pongBuffer, writeQueue, inbound, srv, faults>>
allVars == <<vars, cvars>>

Phases == {"spawned", "connecting", "session", "delay", "stopped"}

\* stale: queued in an earlier session, or between two.
Frame(op, c) == [op |-> op, chan |-> c, stale |-> FALSE]

Frames == [op : Ops \cup {"auth", "ping"}, chan : Channels \cup {None}, stale : BOOLEAN]

\* "garbled" is a frame that read_state cannot parse or address.
Inbound == [type : Responses, chan : Channels]
             \cup [type : {"pong", "garbled"}, chan : {None}]

SilentServer == [heard |-> FALSE, authed |-> FALSE, channels |-> {}]

\* Reader and writer are being cancelled: they are one parallel group, the
\* pinger and that group another, which ends when the inner one has thrown.
Cancelled == stopping \/ writer = "threw" \/ reader = "threw"

PingerCancelled == stopping \/ (writer = "threw" /\ reader \in {"done", "threw"})

Fault == faults < MaxFaults /\ faults' = faults + 1

----------------------------------------------------------------------------
(* What an event handler does to the connection.                           *)

\* Each order in which the unordered map may list the channels of the frames.
Orders(fs) == {q \in [1 .. Cardinality(fs) -> fs] : {q[i] : i \in DOMAIN q} = fs}

\* connection.send()
Send(s, ops) ==
  writeQueue' = IF ops = <<>> THEN writeQueue
                ELSE Append(writeQueue, [Frame(ops[1], Topic[s]) EXCEPT
                                           !.stale = phase # "session"])

\* The frames that the listeners of cs send on event e.
FramesOn(cs, e) ==
  {Frame(ProcessEvent(sm[s], e).sends[1], Topic[s]) :
     s \in {t \in Listeners(cs) : ProcessEvent(sm[t], e).sends # <<>>}}

DropsOn(cs, e) == \E s \in Listeners(cs) : ProcessEvent(sm[s], e).drop

\* connection.drop(): the first call closes the connection, later ones nothing.
DropIf(asked) ==
  /\ onDrop' = (onDrop /\ ~asked)
  /\ sock' = IF asked /\ onDrop THEN "closed" ELSE sock

----------------------------------------------------------------------------
(* The subscriptions.                                                      *)

SubscriptionRuns(s, seg) ==
  /\ Send(s, seg.sends)
  /\ UNCHANGED <<phase, stopping, onDrop, network, session, faults>>

CreateSubscription(s) == Create(s) /\ ~stopping /\ UNCHANGED cvars

StopSubscription(s) == Stop(s) /\ UNCHANGED cvars

RunStart(s) == Start(s) /\ SubscriptionRuns(s, StartSegment(s))

RunWake(s) == Wake(s) /\ SubscriptionRuns(s, WakeSegment(s))

RunStopWhileWaiting(s) == StopWhileWaiting(s) /\ UNCHANGED cvars

RunStopSeen(s) == StopSeen(s) /\ SubscriptionRuns(s, StopSegment(s))

RunDrained(s) == Drained(s) /\ SubscriptionRuns(s, DrainedSegment(s))

SubscriptionTask(s) == \/ RunStart(s) \/ RunWake(s) \/ RunStopWhileWaiting(s)
                       \/ RunStopSeen(s) \/ RunDrained(s)

----------------------------------------------------------------------------
(* reconnect() and run().                                                  *)

\* reconnect() begins: the websocket exists and can be dropped.
Reconnect ==
  /\ phase \in {"spawned", "delay"}
  /\ ~stopping
  /\ phase' = "connecting"
  /\ onDrop' = TRUE
  /\ UNCHANGED <<vars, stopping, network, session, writeQueue, faults>>

\* Announcements with a plausible bug: the queue is kept; the login comes last.
AnnounceKeepingQueue(up, queue) ==
  /\ phase = "connecting"
  /\ \E frames \in Orders(FramesOn(Channels, "up")) :
       writeQueue' = writeQueue \o queue \o frames
  /\ ConnectionUp
  /\ onDrop' = (onDrop /\ ~stopping /\ ~DropsOn(Channels, "up"))
  /\ sock' = IF up /\ ~stopping /\ ~(onDrop /\ DropsOn(Channels, "up"))
               THEN "open" ELSE "closed"

AnnounceBeforeLogin(up, queue) ==
  /\ phase = "connecting"
  /\ \E frames \in Orders(FramesOn(Channels, "up")) : writeQueue' = frames \o queue
  /\ ConnectionUp
  /\ onDrop' = (onDrop /\ ~stopping /\ ~DropsOn(Channels, "up"))
  /\ sock' = IF up /\ ~stopping /\ ~(onDrop /\ DropsOn(Channels, "up"))
               THEN "open" ELSE "closed"

\* connect() has returned, connected (up) or not: the queue is emptied, the
\* login is queued and the connection announced before anything is read.
Announce(up, queue) ==
  /\ phase = "connecting"
  /\ \E frames \in Orders(FramesOn(Channels, "up")) : writeQueue' = queue \o frames
  /\ ConnectionUp
  /\ onDrop' = (onDrop /\ ~stopping /\ ~DropsOn(Channels, "up"))
  /\ sock' = IF up /\ ~stopping /\ ~(onDrop /\ DropsOn(Channels, "up"))
               THEN "open" ELSE "closed"

\* The three tasks are started, unless run() was cancelled meanwhile: then the
\* websocket is destroyed at once.
Fork ==
  /\ IF stopping
       THEN phase' = "stopped" /\ UNCHANGED session
       ELSE /\ phase'  = "session"
            /\ reader' = "reading"
            /\ writer' = "popping"
            /\ pinger' = "waitNext"
            /\ UNCHANGED <<inHand, pongBuffer>>
  /\ UNCHANGED <<stopping, inbound, srv>>

Login == IF HasAuth THEN <<Frame("auth", None)>> ELSE <<>>

\* connect() swallows its exceptions: reconnect() goes on as if connected.
Connected   == Announce(TRUE, Login) /\ Fork /\ UNCHANGED faults
ConnectFail == Announce(FALSE, Login) /\ Fork /\ Fault

\* The parallel group is over and the websocket with it.
TearDown ==
  /\ phase = "session"
  /\ reader \in {"done", "threw"} /\ writer = "threw" /\ pinger = "done"
  /\ phase' = IF stopping THEN "stopped" ELSE "delay"
  /\ reader' = "off" /\ writer' = "off" /\ pinger' = "off"
  /\ inHand' = <<>> /\ pongBuffer' = FALSE
  /\ sock' = "closed" /\ inbound' = <<>> /\ srv' = SilentServer
  /\ writeQueue' = [i \in DOMAIN writeQueue |-> [writeQueue[i] EXCEPT !.stale = TRUE]]
  /\ UNCHANGED <<stopping, faults>>

\* An end of a session that leaves on_drop_ set.
GroupDoneKeepingDrop == TearDown /\ UNCHANGED <<vars, onDrop>>

\* All three tasks have ended, one of them by an exception.
GroupDone == TearDown /\ onDrop' = FALSE /\ UNCHANGED vars

\* The last handle on the connector is gone: the stop signal is emitted.
StopConnector ==
  /\ ~stopping
  /\ \A s \in Subs : pc[s] \in {"new", "done", "abandoned"}
  /\ stopping' = TRUE
  /\ UNCHANGED <<vars, phase, onDrop, network, session, writeQueue, faults>>

\* A delay that swallows its cancellation, as other waits do (as_tuple).
StoppedAtStart ==
  /\ phase = "spawned"
  /\ stopping
  /\ phase' = "stopped"
  /\ UNCHANGED <<vars, stopping, onDrop, network, session, writeQueue, faults>>

\* The stop signal finds run() before reconnect() or in its timer.
StoppedInDelay ==
  /\ phase \in {"spawned", "delay"}
  /\ stopping
  /\ phase' = "stopped"
  /\ UNCHANGED <<vars, stopping, onDrop, network, session, writeQueue, faults>>

----------------------------------------------------------------------------
(* ftx_write_state                                                         *)

WriterTake ==
  /\ writer = "popping" /\ ~Cancelled
  /\ writeQueue # <<>>
  /\ writer' = "writing"
  /\ inHand' = <<Head(writeQueue)>>
  /\ writeQueue' = Tail(writeQueue)
  /\ UNCHANGED <<vars, phase, stopping, onDrop, network, reader, pinger, pongBuffer, faults>>

\* The frame is written: the next pop() throws if the task is cancelled.
Written ==
  /\ writer = "writing"
  /\ sock = "open"
  /\ writer' = IF Cancelled THEN "threw" ELSE "popping"
  /\ inHand' = <<>>
  /\ UNCHANGED <<vars, phase, stopping, onDrop, sock, reader, pinger, pongBuffer, writeQueue>>

\* ... and the server acts on it,
WriterSent ==
  LET f     == inHand[1]
      known == f.chan \in srv.channels
      heard == [srv EXCEPT !.heard = TRUE, !.authed = @ \/ (f.op = "auth" /\ ~srv.heard)]
      Reply(type, chans) == /\ inbound' = Append(inbound, [type |-> type, chan |-> f.chan])
                            /\ srv' = [heard EXCEPT !.channels = chans]
  IN  /\ Written
      /\ CASE f.op = "auth"        -> srv' = heard /\ UNCHANGED inbound
           [] f.op = "ping"        -> Reply("pong", srv.channels)
           [] f.op = "subscribe"   -> Reply(IF known THEN "error" ELSE "subscribed",
                                            srv.channels \cup {f.chan})
           [] f.op = "unsubscribe" -> Reply(IF known THEN "unsubscribed" ELSE "error",
                                            srv.channels \ {f.chan})
      /\ UNCHANGED faults

\* ... or does not, and never answers.
WriterIgnored ==
  /\ Written
  /\ Fault
  /\ srv' = [srv EXCEPT !.heard = TRUE, !.authed = @ \/ (inHand[1].op = "auth" /\ ~srv.heard)]
  /\ UNCHANGED inbound

\* A failed write that keeps the frame.
WriterErrorKeepingFrame ==
  /\ writer = "writing"
  /\ sock = "closed"
  /\ writer' = "threw"
  /\ UNCHANGED <<vars, phase, stopping, onDrop, network, reader, inHand, pinger,
                 pongBuffer, writeQueue, faults>>

WriterError ==
  /\ writer = "writing"
  /\ sock = "closed"
  /\ writer' = "threw"
  /\ inHand' = <<>>
  /\ UNCHANGED <<vars, phase, stopping, onDrop, network, reader, pinger, pongBuffer,
                 writeQueue, faults>>

WriterCancelled ==
  /\ writer = "popping" /\ Cancelled
  /\ writer' = "threw"
  /\ UNCHANGED <<vars, phase, stopping, onDrop, network, reader, inHand, pinger,
                 pongBuffer, writeQueue, faults>>

----------------------------------------------------------------------------
(* read_state                                                              *)

\* A frame was received before the connection failed; it is read first.
AsyncRead == inbound # <<>> /\ inbound' = Tail(inbound)

\* The channels a frame is dispatched to: none when nobody has acquired it.
ReadFrame ==
  /\ reader = "reading"
  /\ AsyncRead
  /\ LET m == Head(inbound)
     IN  \/ /\ m.type = "pong"
            /\ pongBuffer' = TRUE
            /\ UNCHANGED <<vars, onDrop, sock, writeQueue>>
         \/ /\ m.type = "garbled"
            /\ sock' = "closed"
            /\ UNCHANGED <<vars, onDrop, pongBuffer, writeQueue>>
         \/ /\ m.type \in Responses
            /\ Response(m.chan, m.type)
            /\ DropIf(DropsOn({m.chan}, m.type))
            /\ \E frames \in Orders(FramesOn({m.chan}, m.type)) :
                 writeQueue' = writeQueue \o frames
            /\ UNCHANGED pongBuffer
  /\ reader' = IF Cancelled THEN "threw" ELSE "reading"
  /\ UNCHANGED <<phase, stopping, writer, inHand, pinger, srv, faults>>

\* A read fails when the connection is gone.  The reader's own cancellation does
\* not end its read: the cancellation handler spawns ws.close(), a closing
\* handshake, and the read goes on until the server answers it (PeerCloses).
ReadError ==
  /\ reader = "reading"
  /\ sock = "closed"
  /\ reader' = "done"
  /\ onDrop' = (onDrop /\ ~DropsOn(Channels, "down"))
  /\ ReaderDown
  /\ UNCHANGED <<phase, stopping, network, writer, inHand, pinger, pongBuffer,
                 writeQueue, faults>>

----------------------------------------------------------------------------
(* run_ping_pong                                                           *)

\* A timer threshold, the first one at once.  Cancelled, the wait ends early
\* without throwing: one more ping is queued.
PushPing ==
  /\ pinger = "waitNext"
  /\ pinger' = IF PingerCancelled THEN "done" ELSE "waitPong"
  /\ writeQueue' = Append(writeQueue, Frame("ping", None))
  /\ UNCHANGED <<vars, phase, stopping, onDrop, network, reader, writer, inHand,
                 pongBuffer, faults>>

PongArrives ==
  /\ pinger = "waitPong" /\ pongBuffer
  /\ pinger' = IF PingerCancelled THEN "done" ELSE "waitNext"
  /\ pongBuffer' = FALSE
  /\ UNCHANGED <<vars, phase, stopping, onDrop, network, reader, writer, inHand,
                 writeQueue, faults>>

\* Timeouts with a plausible bug: the next ping is sent without an answer to the
\* last; a cancelled wait does not end.
PongTimeoutPingsAgain ==
  /\ pinger = "waitPong"
  /\ pinger' = "waitNext"
  /\ UNCHANGED <<vars, phase, stopping, onDrop, network, reader, writer, inHand,
                 pongBuffer, writeQueue, faults>>

PongTimeoutUncancelled ==
  /\ pinger = "waitPong" /\ ~PingerCancelled
  /\ pinger' = "done"
  /\ UNCHANGED <<vars, phase, stopping, onDrop, network, reader, writer, inHand,
                 pongBuffer, writeQueue, faults>>

\* No pong in 15s, or cancelled: the exception ends the task quietly.
PongTimeout ==
  /\ pinger = "waitPong"
  /\ pinger' = "done"
  /\ UNCHANGED <<vars, phase, stopping, onDrop, network, reader, writer, inHand,
                 pongBuffer, writeQueue, faults>>

----------------------------------------------------------------------------
(* The network, the server and the application.                            *)

Environment(m) ==
  /\ inbound' = m
  /\ UNCHANGED <<vars, phase, stopping, onDrop, srv, session, writeQueue>>

\* Market data of a subscribed channel.
ServerData ==
  /\ sock = "open" /\ phase = "session"
  /\ Len(inbound) < MaxInbound
  /\ \E c \in srv.channels : Environment(Append(inbound, [type |-> "data", chan |-> c]))
  /\ UNCHANGED <<sock, faults>>

\* The server announces a restart of a channel, or sends rubbish.
ServerFault ==
  /\ sock = "open" /\ phase = "session"
  /\ \/ \E c \in srv.channels, t \in {"restart", "error"} :
          Environment(Append(inbound, [type |-> t, chan |-> c]))
     \/ Environment(Append(inbound, [type |-> "garbled", chan |-> None]))
  /\ Fault
  /\ UNCHANGED sock

NetworkFail ==
  /\ sock = "open" /\ phase = "session"
  /\ sock' = "closed"
  /\ Environment(inbound)
  /\ Fault

\* The server answers the close frame of a cancelled reader, which goes out when
\* no frame is being written; or it never does.
PeerCloses ==
  /\ phase = "session" /\ sock = "open"
  /\ reader = "reading" /\ Cancelled /\ writer # "writing"
  /\ sock' = "closed"
  /\ Environment(inbound)
  /\ UNCHANGED faults

\* websocket_connector::drop(), called by the application.
UserDrop ==
  /\ onDrop /\ ~stopping
  /\ onDrop' = FALSE
  /\ sock' = "closed"
  /\ Fault
  /\ UNCHANGED <<vars, phase, stopping, inbound, srv, session, writeQueue>>

----------------------------------------------------------------------------

ConnectorInit ==
  /\ Init
  /\ phase = "spawned" /\ stopping = FALSE /\ onDrop = FALSE
  /\ sock = "closed" /\ inbound = <<>> /\ srv = SilentServer
  /\ reader = "off" /\ writer = "off" /\ pinger = "off"
  /\ inHand = <<>> /\ pongBuffer = FALSE /\ writeQueue = <<>>
  /\ faults = 0

WriterTask == WriterTake \/ WriterSent \/ WriterIgnored \/ WriterError \/ WriterCancelled
ReaderTask == ReadFrame \/ ReadError
PingerTask == PushPing \/ PongArrives \/ PongTimeout
MainTask   == Reconnect \/ Connected \/ ConnectFail \/ GroupDone \/ StoppedInDelay

ConnectorNext ==
  \/ \E s \in Subs : \/ CreateSubscription(s) \/ StopSubscription(s)
                     \/ SubscriptionTask(s)
  \/ MainTask \/ WriterTask \/ ReaderTask \/ PingerTask
  \/ StopConnector \/ UserDrop
  \/ ServerData \/ ServerFault \/ NetworkFail \/ PeerCloses

ConnectorSpec == ConnectorInit /\ [][ConnectorNext]_allVars

\* The executor runs every handler that is ready: each task that can go on does,
\* timers expire and the socket completes its operations.  Nothing is assumed of
\* the application, and of the server only that it reads what is sent to it, not
\* that it answers a close frame.
Fairness ==
  /\ \A s \in Subs : WF_allVars(SubscriptionTask(s))
  /\ WF_allVars(MainTask) /\ WF_allVars(WriterTask)
  /\ WF_allVars(ReaderTask) /\ WF_allVars(PingerTask)

FairSpec == ConnectorSpec /\ Fairness

----------------------------------------------------------------------------
(* Properties.                                                             *)

\* Every variable keeps its type.
ConnectorTypeOK ==
  /\ TypeOK
  /\ phase \in Phases /\ stopping \in BOOLEAN /\ onDrop \in BOOLEAN
  /\ sock \in {"open", "closed"}
  /\ reader \in {"off", "reading", "done", "threw"}
  /\ writer \in {"off", "popping", "writing", "threw"}
  /\ inHand \in Seq(Frames) /\ Len(inHand) = (IF writer = "writing" THEN 1 ELSE 0)
  /\ pinger \in {"off", "waitNext", "waitPong", "done"}
  /\ pongBuffer \in BOOLEAN
  /\ writeQueue \in Seq(Frames)
  /\ inbound \in Seq(Inbound)
  /\ srv \in [heard : BOOLEAN, authed : BOOLEAN, channels : SUBSET Channels]
  /\ faults \in 0 .. MaxFaults

\* "If the connection drops before the payload has been sent, the payload will
\* be dropped": no frame queued before a session is written in it.
NoStaleFrames ==
  /\ \A i \in DOMAIN inHand : ~inHand[i].stale
  /\ phase = "session" => \A i \in DOMAIN writeQueue : ~writeQueue[i].stale

\* "Once connected, it will optionally authenticate": the server hears the login
\* before any other frame of the session, the subscriptions of waiting channels
\* and the ping included.
LoginLeads == HasAuth /\ srv.heard => srv.authed

\* Pings do not pile up: of a live session's pings at most one is queued, in the
\* writer's hands, with the server or answered and not yet consumed.
Pings == Cardinality({i \in DOMAIN writeQueue : writeQueue[i].op = "ping"})
           + Cardinality({i \in DOMAIN inHand : inHand[i].op = "ping"})
           + Cardinality({i \in DOMAIN inbound : inbound[i].type = "pong"})
           + (IF pongBuffer THEN 1 ELSE 0)

OnePingAtATime == phase = "session" /\ ~Cancelled =>
                    Pings <= (IF pinger = "waitNext" THEN 0 ELSE 1)

\* The reader still hears the server: nothing has failed in this session.
Healthy == reader = "reading" /\ sock = "open" /\ ~Cancelled

\* A channel the server sends data for has a subscription that listens to it and
\* will unsubscribe, however the subscriptions hand the channel over.
NoOrphanSubscription ==
  Healthy => \A c \in srv.channels :
               /\ chan[c].acquired
               /\ sm[chan[c].on_event].state \in {"opening", "open", "closing"}

\* A subscription that is opening never sees what the server sent to the one
\* before it: the first frame on its way for the channel is its own answer.
HandoverClean ==
  Healthy => \A c \in Channels :
    chan[c].acquired /\ sm[chan[c].on_event].state = "opening" =>
      \A i \in DOMAIN inbound :
        inbound[i].chan = c /\ (\A j \in 1 .. i - 1 : inbound[j].chan # c)
          => inbound[i].type \in {"subscribed", "error"}

\* Whatever the session's tasks and the subscriptions do, the connection keeps
\* the promises of Connection: one at a time, again and again until the stop.
Link == INSTANCE Connection
ImplementsConnection == Link!ConnectionSpec

\* Whoever waits for the connector's end waits for the server at most: once the
\* writer has thrown and the reader has nothing left to hear, the session is over,
\* whatever the pinger was doing (concept.cpp:172-174).
TeardownCompletes ==
  writer = "threw" /\ (sock = "closed" \/ reader # "reading") ~> phase # "session"

\* A server that answers the close frame.
AnsweringPeer == WF_allVars(PeerCloses)

\* The stop signal ends run() wherever it finds it: without anybody's help where
\* there is no connection (in the delay, in connect(), after a failure), and else
\* if the server answers the close frame.
StopTerminates ==
  /\ stopping /\ sock = "closed" ~> phase = "stopped"
  /\ AnsweringPeer => (stopping ~> phase = "stopped")

\* A subscription that holds a channel gets it open, unless it is stopped or the
\* network or the server fails: an unanswered request is not repeated.
SubscriptionOpens == \A s \in Subs :
  pc[s] = "holding" ~> sm[s].state = "open" \/ stopLatch[s] \/ faults > 0

\* A stopped subscription gives up its channel, on the same condition.
StopReleases == \A s \in Subs :
  stopLatch[s] /\ pc[s] # "new" ~> pc[s] \in {"done", "abandoned"} \/ faults > 0

----------------------------------------------------------------------------
(* What the documentation says and the code does not do.                   *)

\* assert(s != connection_state_) in notify_connection_state.
AnnouncesChanges ==
  [][phase = "connecting" /\ phase' = "session" => connUp' # connUp]_allVars

\* "If the connection is dropped, the object will seek to re-establish a
\* connection after a small delay."
DropReconnects == phase = "session" /\ sock = "closed" ~> phase # "session"

\* "If the stop() member is called, the object will abandon its current connection
\* as cleanly as possible": not if the server does not answer the close frame.
StopAbandons == stopping ~> phase = "stopped"

=============================================================================
