--------------------------- MODULE ConnectorLife ---------------------------
(***************************************************************************)
(* The life of one connector: made behind a lifetime_ptr, it decodes its   *)
(* url, connects, is in a session, waits and connects again, until its     *)
(* last handle is gone.  ConnectRace and LifetimePtr are kept as they are: *)
(* an action here is one of theirs and what the handler does besides, or   *)
(* one of the connector's own.  What goes on in a session is FtxConnector; *)
(* here a session may end at any moment.                                   *)
(***************************************************************************)
EXTENDS ConnectRace, LifetimePtr, Url

CONSTANTS Urls,      \* the urls a connector is given
          UrlsDialled  \* bound: those it is made with

ASSUME UrlsAssumption == /\ UrlsDialled \subseteq Urls
                         /\ \A u \in Urls : u.rest \in Seq(STRING)

VARIABLES
  url,       \* args_.url
  phase,     \* where run() and reconnect() are
  onDrop,    \* on_drop_ is set
  dropLost,  \* ghost: this stream's drop came before it had a socket
  connUp,    \* connection_state_
  waits      \* what each holder awaits: wait_ready(), wait_down()

ownVars     == <<url, phase, onDrop, dropLost, connUp, waits>>
connectorVars == <<raceVars, lifeVars, ownVars>>

ConnectorPhases == {"spawned", "connecting", "session", "delay", "stopped"}

\* "readyWoken": the wait in wait_ready() is over and its loop not resumed.
Waits == {"no", "ready", "down", "readyWoken", "downWoken"}

Init ==
  /\ RaceInit /\ LifeInit
  /\ url \in Urls
  /\ phase = "spawned"
  /\ onDrop = FALSE /\ dropLost = FALSE /\ connUp = FALSE
  /\ waits = [h \in Holders |-> "no"]

----------------------------------------------------------------------------
(* The application: it holds handles, and may wait and drop by them.       *)

Make ==
  /\ url \in UrlsDialled
  /\ Construct \/ StartThrows \/ \E h \in Holders : StartReturns(h)
  /\ UNCHANGED <<raceVars, ownVars>>

Share(h, g) == Copy(h, g) /\ UNCHANGED <<raceVars, ownVars>>

\* A holder that waits needs its handle.
GiveUp(h) == waits[h] = "no" /\ Release(h) /\ UNCHANGED <<raceVars, ownVars>>

\* wait_ready() and wait_down() that do not return at once.
Wait(h) ==
  /\ h \in handles /\ waits[h] = "no"
  /\ waits' = [waits EXCEPT ![h] = IF connUp THEN "down" ELSE "ready"]
  /\ UNCHANGED <<raceVars, lifeVars, url, phase, onDrop, dropLost, connUp>>

\* The loops: a wait that is over looks at the state again.
WaitResumes(h) ==
  /\ \/ /\ waits[h] = "readyWoken"
        /\ waits' = [waits EXCEPT ![h] = IF connUp THEN "no" ELSE "ready"]
     \/ /\ waits[h] = "downWoken"
        /\ waits' = [waits EXCEPT ![h] = IF connUp THEN "down" ELSE "no"]
  /\ UNCHANGED <<raceVars, lifeVars, url, phase, onDrop, dropLost, connUp>>

\* A drop that leaves the connection to its writer.
DropLeavingSocket(h) ==
  /\ h \in handles /\ onDrop
  /\ onDrop' = FALSE
  /\ dropLost' = (stage \in {"resolving", "racing"})
  /\ UNCHANGED <<raceVars, lifeVars, url, phase, connUp, waits>>

\* websocket_connector::drop(): the function is spent, whatever it closes.
UserDrop(h) ==
  /\ h \in handles /\ onDrop
  /\ onDrop' = FALSE
  /\ dropLost' = (stage \in {"resolving", "racing"})
  /\ CloseTcp
  /\ UNCHANGED <<transport, stage, n, ended, won, winner, shakes, cancelled>>
  /\ UNCHANGED <<lifeVars, url, phase, connUp, waits>>

----------------------------------------------------------------------------
(* run() and reconnect().                                                  *)

\* The url is decoded, and a stream made for its transport.
Reconnect ==
  /\ phase \in {"spawned", "delay"} /\ started
  /\ DecodeUrl(url) # Invalid
  /\ BeginConnect(DecodeUrl(url).transport)
  /\ phase' = "connecting"
  /\ onDrop' = TRUE /\ dropLost' = FALSE
  /\ UNCHANGED <<lifeVars, url, connUp, waits>>

\* decode_url() throws, and reconnect() with it: another try after the delay.
Rejected ==
  /\ phase \in {"spawned", "delay"} /\ started /\ ~cancelled
  /\ DecodeUrl(url) = Invalid
  /\ phase' = "delay"
  /\ UNCHANGED <<raceVars, lifeVars, url, onDrop, dropLost, connUp, waits>>

\* Only one wait is ended by a notification, as by cancel_one().
NotifyUpOne ==
  /\ connUp' = TRUE
  /\ IF \A h \in Holders : waits[h] \notin {"ready", "down"} THEN UNCHANGED waits
     ELSE \E h \in Holders :
            /\ waits[h] \in {"ready", "down"}
            /\ waits' = [waits EXCEPT ![h] = IF @ = "ready" THEN "readyWoken" ELSE "downWoken"]

\* notify_connection_state(up): every wait on connection_state_cv_ is ended.
NotifyUp ==
  /\ connUp' = TRUE
  /\ waits' = [h \in Holders |-> CASE waits[h] = "ready" -> "readyWoken"
                                   [] waits[h] = "down"  -> "downWoken"
                                   [] OTHER              -> waits[h]]

\* connect() goes on; when it returns, reconnect() announces the connection in
\* the same handler, be there one or not.
Connecting ==
  /\ phase = "connecting"
  /\ ConnectStep
  /\ IF stage' = "returned" THEN phase' = "session" /\ NotifyUp
                            ELSE UNCHANGED <<phase, connUp, waits>>
  /\ UNCHANGED <<lifeVars, url, onDrop, dropLost>>

\* The connection fails, or a task of the session closes it.
SocketCloses ==
  /\ phase = "session" /\ TcpOpen
  /\ CloseTcp
  /\ UNCHANGED <<transport, stage, n, ended, won, winner, shakes, cancelled>>
  /\ UNCHANGED <<lifeVars, ownVars>>

\* run() is over, and its completion handler run.
RunEnds == phase' = "stopped" /\ OperationEnds

\* A session whose stream can still be dropped when it is gone.
SessionEndsKeepingDrop ==
  /\ phase = "session"
  /\ DestroyStream
  /\ IF cancelled THEN RunEnds ELSE phase' = "delay" /\ UNCHANGED lifeVars
  /\ UNCHANGED <<url, onDrop, dropLost, connUp, waits>>

\* The session is over; always by an exception, so that connUp stays.  That of
\* a connect() which was cancelled ends at once.
SessionEnds ==
  /\ phase = "session"
  /\ DestroyStream
  /\ IF cancelled THEN RunEnds ELSE phase' = "delay" /\ UNCHANGED lifeVars
  /\ onDrop' = FALSE
  /\ UNCHANGED <<url, dropLost, connUp, waits>>

StoppedInDelay ==
  /\ phase \in {"spawned", "delay"} /\ cancelled
  /\ RunEnds
  /\ UNCHANGED <<raceVars, url, onDrop, dropLost, connUp, waits>>

\* stop()'s handler emits the signal.
Emit ==
  /\ StopRuns
  /\ CancelConnect
  /\ UNCHANGED ownVars

----------------------------------------------------------------------------

Next ==
  \/ Make
  \/ \E h \in Holders : \/ GiveUp(h) \/ Wait(h) \/ WaitResumes(h) \/ UserDrop(h)
                        \/ \E g \in Holders : Share(h, g)
  \/ Reconnect \/ Rejected \/ Connecting \/ SocketCloses
  \/ SessionEnds \/ StoppedInDelay \/ Emit

\* Steps that need nobody's answer: an attempt that was cancelled ends, what is
\* over is seen to be over, and a resolver, which is a thread, comes back.
LocalConnecting ==
  /\ Connecting
  /\ \/ stage = "resolving"
     \/ stage = "racing" /\ \A e \in Endpoints :
          attempt'[e] # attempt[e] => AttemptCancelled(e) \/ attempt[e] # "connecting"
     \/ stage \in {"tls", "upgrade"} /\ ~TcpOpen

Fairness ==
  /\ WF_connectorVars(Emit)
  /\ WF_connectorVars(LocalConnecting)
  /\ WF_connectorVars(cancelled /\ ~Usable /\ SessionEnds)
  /\ WF_connectorVars(StoppedInDelay)

\* Not assumed: that a peer answers the close frame of a cancelled session,
\* which until then goes on (read_cancel_handler()).
AnsweringPeer == WF_connectorVars(cancelled /\ SocketCloses)

Spec     == Init /\ [][Next]_connectorVars
FairSpec == Spec /\ Fairness

----------------------------------------------------------------------------

\* The connector's own variables have the types of their code (reconnect, run).
ConnectorTypeOK ==
  /\ RaceTypeOK /\ LifeTypeOK
  /\ url \in Urls
  /\ phase \in ConnectorPhases
  /\ onDrop \in BOOLEAN /\ dropLost \in BOOLEAN /\ connUp \in BOOLEAN
  /\ waits \in [Holders -> Waits]

\* decode_url() agrees with the meaning of the connector's url if its authority
\* ends where the code looks for its end, and refuses what has no meaning.
DecodesAsReference == PlainAuthority(url) => DecodeUrl(url) = Reference(url)

\* Nobody sleeps through the state it awaits: every loop of wait_ready() and
\* wait_down() that is asleep would go on sleeping if it looked.
SleepersKnow == \A h \in Holders : /\ waits[h] = "ready" => ~connUp
                                   /\ waits[h] = "down"  => connUp

\* A connection that was asked to drop goes on only if it was asked before it
\* had a socket (drop(), on_drop_): nothing else loses a drop.
DropLostOnlyWhileDialling == phase = "session" /\ Usable /\ ~onDrop => dropLost

\* While run() is under way its object exists (start()'s completion handler),
\* so that nothing of it is touched after it was destroyed.
AliveWhileRunning ==
  (phase # "stopped" /\ stage # "off") \/ handles # {} => owners # {}

\* The connection behaves as promised by Connection, with the stream's socket
\* counting as open when both handshakes are done.
Link == INSTANCE Connection WITH stopping <- cancelled,
                                 sock <- IF Usable THEN "open" ELSE "closed"
ImplementsConnection == Link!ConnectionSpec

\* One success decides a race: no endpoint that stays silent delays the others'
\* socket, in whatever group it is (wait_for_one_success in connect_range).
RaceIsDecided ==
  stage = "racing" /\ (\E e \in Endpoints : attempt[e] = "open") ~> stage # "racing"

\* "It will allow itself to be destroyed once all internal outstanding
\* asynchronous operations are completed": once it is stopped and its websocket
\* not usable, it is destroyed whatever its peers do, wherever run() is; and so it
\* is in any case when its handles are gone, if a peer answers its close frame.
ReleasedIsDestroyed ==
  /\ cancelled /\ ~Usable ~> owners = {}
  /\ AnsweringPeer => (started /\ handles = {} ~> owners = {})
============================================================================
