---------------------------- MODULE ConnectRace ----------------------------
(***************************************************************************)
(* websocket_stream_variant::connect(): the host is resolved, all its      *)
(* endpoints are dialled at once, the first socket that connects becomes   *)
(* the stream's, and the TLS and websocket handshakes follow.              *)
(*                                                                         *)
(* connect_range(k) is `connect(k) || connect_range(k + 1)`: range k is a  *)
(* parallel group of attempt k, its left member, and the next range, its   *)
(* right one; the last range is its attempt alone.  A group cancels its    *)
(* other member at the first success, and ends when both members have.     *)
(***************************************************************************)
EXTENDS Naturals

CONSTANT MaxResults  \* bound: endpoints that a host resolves to

ASSUME ResultsAssumption == MaxResults \in Nat \ {0}

VARIABLES
  transport,  \* the alternative of vws_ that was constructed
  stage,      \* where connect() is
  n,          \* how many endpoints were found
  attempt,    \* the socket of each connect()
  ended,      \* the ranges that are over
  won,        \* the member of each range that succeeded first
  winner,     \* the attempt whose socket the stream has, or 0
  secured,    \* the TLS handshake is done
  upgraded,   \* the websocket handshake is done
  cancelled   \* the coroutine was cancelled

raceVars == <<transport, stage, n, attempt, ended, won, winner, secured, upgraded, cancelled>>
sockets  == <<n, attempt, ended, won, winner>>
shakes   == <<secured, upgraded>>

Endpoints  == 1 .. MaxResults
Transports == {"tcp", "tls"}
Stages     == {"off", "resolving", "racing", "tls", "upgrade", "returned"}
Sockets    == {"off", "connecting", "open", "failed", "closed"}
Members    == {"none", "left", "right"}

TcpOpen == winner # 0 /\ attempt[winner] = "open"

\* What can be written to and read from.
Usable == TcpOpen /\ upgraded

\* A stream that was constructed, or destroyed, dials nothing.
NothingDialled ==
  /\ n = 0 /\ ended = {} /\ winner = 0
  /\ attempt = [e \in Endpoints |-> "off"]
  /\ won = [k \in Endpoints |-> "none"]

RaceInit ==
  /\ transport \in Transports
  /\ stage = "off"
  /\ NothingDialled
  /\ secured = FALSE /\ upgraded = FALSE /\ cancelled = FALSE

----------------------------------------------------------------------------
(* Cancellation.  It is derived: a member is cancelled when the other one  *)
(* has succeeded, and a range that is cancelled cancels both members.      *)

\* A cancellation that does not reach the ranges inside the cancelled one.
AttemptCancelledByNeighbour(e) ==
  cancelled \/ (e > 1 /\ won[e - 1] = "left") \/ won[e] = "right"

AttemptCancelled(e) ==
  \/ cancelled
  \/ won[e] = "right"
  \/ \E k \in 1 .. (e - 1) : won[k] = "left"

\* tcp_layer().close()
CloseTcp ==
  attempt' = [e \in Endpoints |-> IF e = winner /\ attempt[e] = "open" THEN "closed"
                                                                       ELSE attempt[e]]

----------------------------------------------------------------------------

\* The stream is constructed for a transport and begins to resolve.
BeginConnect(t) ==
  /\ stage = "off" /\ ~cancelled
  /\ stage' = "resolving"
  /\ transport' = t
  /\ UNCHANGED <<sockets, shakes, cancelled>>

\* An exception anywhere ends connect(), which does not tell.
Throw == stage' = "returned" /\ UNCHANGED <<transport, shakes, cancelled>>

\* A resolver is not interrupted: the cancellation is seen at the next await.
Resolved(m) ==
  /\ stage = "resolving"
  /\ IF cancelled THEN Throw /\ UNCHANGED sockets
     ELSE /\ stage' = "racing"
          /\ n' = m
          /\ attempt' = [e \in Endpoints |-> IF e <= m THEN "connecting" ELSE "off"]
          /\ UNCHANGED <<transport, ended, won, winner, shakes, cancelled>>

ResolveFails == stage = "resolving" /\ Throw /\ UNCHANGED sockets

\* connect(e) ends; it may succeed although it was cancelled meanwhile.  The
\* last range ends with its attempt, and is the right member of the one before.
AttemptEnds(e, outcome) ==
  /\ stage = "racing"
  /\ attempt[e] = "connecting"
  /\ attempt' = [attempt EXCEPT ![e] = outcome]
  /\ ended' = IF e = n THEN ended \cup {n} ELSE ended
  /\ won' = [k \in Endpoints |->
               IF outcome = "open" /\ won[k] = "none"
                 THEN IF k = e THEN "left" ELSE IF e = n /\ k + 1 = n THEN "right" ELSE "none"
                 ELSE won[k]]
  /\ UNCHANGED <<transport, stage, n, winner, shakes, cancelled>>

\* A group that ends at its first completion, be it a failure.
RangeEndsAtFirst(k) ==
  /\ stage = "racing"
  /\ k \in 1 .. (n - 1) /\ k \notin ended
  /\ attempt[k] # "connecting" \/ k + 1 \in ended
  /\ ended' = ended \cup {k}
  /\ won' = [j \in Endpoints |-> IF won[k] # "none" /\ j + 1 = k /\ won[j] = "none"
                                   THEN "right" ELSE won[j]]
  /\ UNCHANGED <<transport, stage, n, attempt, winner, shakes, cancelled>>

\* A group that forgets the socket of a loser that succeeded too.
RangeEndsLeaking(k) ==
  /\ stage = "racing"
  /\ k \in 1 .. (n - 1) /\ k \notin ended
  /\ attempt[k] # "connecting" /\ k + 1 \in ended
  /\ ended' = ended \cup {k}
  /\ won' = [j \in Endpoints |-> IF won[k] # "none" /\ j + 1 = k /\ won[j] = "none"
                                   THEN "right" ELSE won[j]]
  /\ UNCHANGED <<transport, stage, n, attempt, winner, shakes, cancelled>>

\* Both members of range k are over: selected() takes the socket of the first
\* success, and that of the other member, if it succeeded as well, is destroyed.
RangeEnds(k) ==
  /\ stage = "racing"
  /\ k \in 1 .. (n - 1) /\ k \notin ended
  /\ attempt[k] # "connecting" /\ k + 1 \in ended
  /\ ended' = ended \cup {k}
  /\ attempt' = [e \in Endpoints |->
                   IF /\ attempt[e] = "open"
                      /\ (won[k] = "left" /\ e > k) \/ (won[k] = "right" /\ e = k)
                     THEN "closed" ELSE attempt[e]]
  /\ won' = [j \in Endpoints |-> IF won[k] # "none" /\ j + 1 = k /\ won[j] = "none"
                                   THEN "right" ELSE won[j]]
  /\ UNCHANGED <<transport, stage, n, winner, shakes, cancelled>>

IsTls == transport = "tls"

\* The stream, which had no open socket, takes that of attempt e.
ReplaceTcp(e) == winner' = e

\* The race is over: replace_tcp(), and the next await unless cancelled.  This
\* is the handler that ends range 1: a cancellation between the two has the
\* effect of one just before.
RaceEnds ==
  /\ stage = "racing" /\ 1 \in ended
  /\ IF won[1] = "none" THEN Throw /\ UNCHANGED sockets
     ELSE /\ \E e \in 1 .. n : attempt[e] = "open" /\ ReplaceTcp(e)
          /\ stage' = IF cancelled THEN "returned"
                      ELSE IF IsTls THEN "tls" ELSE "upgrade"
          /\ UNCHANGED <<transport, n, attempt, ended, won, shakes, cancelled>>

\* A handshake is answered: the completion may be queued when the socket is
\* closed.  After the TLS one a cancellation is seen at the next await.
TlsDone ==
  /\ stage = "tls"
  /\ secured' = TRUE
  /\ stage' = IF cancelled THEN "returned" ELSE "upgrade"
  /\ UNCHANGED <<transport, sockets, upgraded, cancelled>>

UpgradeDone ==
  /\ stage = "upgrade"
  /\ upgraded' = TRUE
  /\ stage' = "returned"
  /\ UNCHANGED <<transport, sockets, secured, cancelled>>

\* ... or refused, or the socket closed: it stays the stream's as it is.
HandshakeFails == stage \in {"tls", "upgrade"} /\ Throw /\ UNCHANGED sockets

\* A cancellation that leaves a handshake waiting for its peer.
CancelLeavingHandshake == cancelled' = TRUE /\ UNCHANGED <<transport, stage, sockets, shakes>>

\* The cancellation signal: the handshakes' handlers close the socket.
CancelConnect ==
  /\ cancelled' = TRUE
  /\ IF stage \in {"tls", "upgrade"} THEN CloseTcp ELSE UNCHANGED attempt
  /\ UNCHANGED <<transport, stage, n, ended, won, winner, shakes>>

\* The stream goes out of scope.
DestroyStream ==
  /\ stage = "returned"
  /\ stage' = "off"
  /\ n' = 0 /\ ended' = {} /\ winner' = 0
  /\ attempt' = [e \in Endpoints |-> "off"]
  /\ won' = [k \in Endpoints |-> "none"]
  /\ secured' = FALSE /\ upgraded' = FALSE
  /\ UNCHANGED <<transport, cancelled>>

\* The handlers that go on with connect().
ConnectStep ==
  \/ \E m \in Endpoints : Resolved(m)
  \/ ResolveFails
  \/ \E e \in Endpoints, outcome \in {"open", "failed"} : AttemptEnds(e, outcome)
  \/ \E k \in Endpoints : RangeEnds(k)
  \/ RaceEnds
  \/ TlsDone
  \/ UpgradeDone
  \/ HandshakeFails

RaceNext ==
  \/ \E t \in Transports : BeginConnect(t)
  \/ ConnectStep
  \/ CancelConnect
  \/ DestroyStream
  \/ CloseTcp /\ UNCHANGED <<transport, stage, n, ended, won, winner, shakes, cancelled>>

RaceSpec == RaceInit /\ [][RaceNext]_raceVars

----------------------------------------------------------------------------

\* The stream's state has the types that the stages give it (connect()).
RaceTypeOK ==
  /\ transport \in Transports
  /\ stage \in Stages
  /\ n \in 0 .. MaxResults
  /\ attempt \in [Endpoints -> Sockets]
  /\ ended \in SUBSET Endpoints
  /\ won \in [Endpoints -> Members]
  /\ winner \in 0 .. MaxResults
  /\ secured \in BOOLEAN /\ upgraded \in BOOLEAN /\ cancelled \in BOOLEAN

\* A race never leaks a socket: of a range that is over at most one socket is
\* open, in whatever order its attempts succeeded, failed and were cancelled,
\* and once the stream has its socket no other is open (selected(), connect_range()).
RaceKeepsOneSocket ==
  /\ \A k \in ended : \A e, f \in k .. n :
       attempt[e] = "open" /\ attempt[f] = "open" => e = f
  /\ winner # 0 => \A e \in Endpoints : attempt[e] = "open" => e = winner

\* A race that is over without a socket has no attempt that connected: a success
\* is never thrown away for a failure that came first (connect_range()).
FailsOnlyIfAllFailed ==
  \A k \in ended : won[k] = "none" => \A e \in k .. n : attempt[e] = "failed"

\* What is written to a wss url goes over TLS (connect(), tls_handshake()).
UpgradedOnlyWhenSecure == upgraded /\ transport = "tls" => secured
============================================================================
