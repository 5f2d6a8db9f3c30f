------------------------- MODULE FtxConnectorProofs -------------------------
(***************************************************************************)
(* Proofs, for any number of subscriptions and channels, any number of     *)
(* frames under way and any number of faults, of what the FTX connector    *)
(* keeps up: its types, the order in which a session's frames are written, *)
(* one ping at a time, and the two specifications it implements.           *)
(***************************************************************************)
EXTENDS FtxConnector, ChannelSubscriptionsProofs, SequenceTheorems

----------------------------------------------------------------------------
(* Sequences and counts.                                                   *)

\* The places of q that hold an element of S.
Places(q, S) == {i \in DOMAIN q : q[i] \in S}

Count(q, S) == Cardinality(Places(q, S))

LEMMA PlacesFinite ==
  ASSUME NEW T, NEW q \in Seq(T), NEW S
  PROVE  IsFiniteSet(Places(q, S)) /\ Count(q, S) \in Nat
<1>1. IsFiniteSet(1 .. Len(q)) /\ Places(q, S) \in SUBSET (1 .. Len(q))
  BY FS_Interval DEF Places
<1> QED
  BY <1>1, FS_Subset, FS_CardinalityType DEF Count

\* An element put at the end is one more of its kind.
LEMMA CountAppend ==
  ASSUME NEW T, NEW q \in Seq(T), NEW x \in T, NEW S
  PROVE  Count(Append(q, x), S) = Count(q, S) + (IF x \in S THEN 1 ELSE 0)
<1>1. IsFiniteSet(Places(q, S)) /\ Count(q, S) \in Nat
  BY PlacesFinite
<1>2. /\ Len(q) \in Nat /\ DOMAIN q = 1 .. Len(q)
      /\ DOMAIN Append(q, x) = 1 .. Len(q) + 1
      /\ \A i \in 1 .. Len(q) : Append(q, x)[i] = q[i]
      /\ Append(q, x)[Len(q) + 1] = x
  OBVIOUS
<1>3. CASE x \in S
  <2>1. /\ Places(Append(q, x), S) = Places(q, S) \cup {Len(q) + 1}
        /\ Len(q) + 1 \notin Places(q, S)
    BY <1>2, <1>3 DEF Places
  <2> QED
    BY <1>1, <1>3, <2>1, FS_AddElement DEF Count
<1>4. CASE x \notin S
  <2>1. Places(Append(q, x), S) = Places(q, S)
    BY <1>2, <1>4 DEF Places
  <2> QED
    BY <1>1, <1>4, <2>1 DEF Count
<1> QED
  BY <1>3, <1>4

\* The first element taken away is one less of its kind.
LEMMA CountTail ==
  ASSUME NEW T, NEW q \in Seq(T), q # <<>>, NEW S
  PROVE  Count(Tail(q), S) = Count(q, S) - (IF Head(q) \in S THEN 1 ELSE 0)
<1>1. IsFiniteSet(Places(q, S)) /\ Count(q, S) \in Nat
  BY PlacesFinite
<1>2. /\ Len(q) \in Nat \ {0} /\ DOMAIN q = 1 .. Len(q)
      /\ DOMAIN Tail(q) = 1 .. Len(q) - 1
      /\ \A i \in 1 .. Len(q) - 1 : Tail(q)[i] = q[i + 1]
      /\ Head(q) = q[1]
  OBVIOUS
<1> DEFINE rest  == Places(q, S) \ {1}
           shift == [i \in rest |-> i - 1]
<1>3. IsFiniteSet(rest) /\ Cardinality(rest) = Count(q, S) - (IF Head(q) \in S THEN 1 ELSE 0)
  <2>1. 1 \in Places(q, S) <=> Head(q) \in S
    BY <1>2 DEF Places
  <2> QED
    BY <1>1, <2>1, FS_RemoveElement DEF Count
<1>4. Cardinality(Places(Tail(q), S)) = Cardinality(rest)
  <2>1. \A i \in rest : i \in 2 .. Len(q) /\ i - 1 \in Places(Tail(q), S)
    BY <1>2 DEF Places
  <2>2. \A k \in Places(Tail(q), S) : k + 1 \in rest /\ k \in Nat
    BY <1>2 DEF Places
  <2> HIDE DEF rest
  <2>3. shift \in [rest -> Places(Tail(q), S)]
    BY <2>1
  <2>4. \A i, j \in rest : shift[i] = shift[j] => i = j
    BY <2>1
  <2>5. \A k \in Places(Tail(q), S) : \E i \in rest : shift[i] = k
    <3>1. ASSUME NEW k \in Places(Tail(q), S) PROVE shift[k + 1] = k /\ k + 1 \in rest
      BY <2>2
    <3> QED
      BY <3>1
  <2>6. shift \in Bijection(rest, Places(Tail(q), S))
    BY <2>3, <2>4, <2>5 DEF Bijection, Injection, Surjection, IsInjective
  <2> QED
    BY <1>3, <2>6, FS_Bijection DEF ExistsBijection
<1> QED
  BY <1>3, <1>4 DEF Count

\* A suffix without them adds none.
LEMMA CountConcat ==
  ASSUME NEW T, NEW q \in Seq(T), NEW r \in Seq(T), NEW S,
         \A i \in DOMAIN r : r[i] \notin S
  PROVE  Count(q \o r, S) = Count(q, S)
<1>1. /\ Len(q) \in Nat /\ Len(r) \in Nat
      /\ DOMAIN q = 1 .. Len(q) /\ DOMAIN r = 1 .. Len(r)
      /\ DOMAIN (q \o r) = 1 .. Len(q) + Len(r)
      /\ \A i \in 1 .. Len(q) + Len(r) :
           (q \o r)[i] = IF i <= Len(q) THEN q[i] ELSE r[i - Len(q)]
  OBVIOUS
<1>2. Places(q \o r, S) = Places(q, S)
  <2>1. ASSUME NEW i \in Places(q \o r, S) PROVE i \in Places(q, S)
    <3>1. i \in 1 .. Len(q) + Len(r) /\ (q \o r)[i] \in S
      BY <1>1 DEF Places
    <3>2. CASE i <= Len(q)
      BY <1>1, <3>1, <3>2 DEF Places
    <3>3. CASE i > Len(q)
      <4>1. i - Len(q) \in DOMAIN r
        BY <1>1, <3>1, <3>3
      <4> QED
        BY <1>1, <3>1, <3>3, <4>1
    <3> QED
      BY <1>1, <3>1, <3>2, <3>3
  <2>2. ASSUME NEW i \in Places(q, S) PROVE i \in Places(q \o r, S)
    BY <1>1 DEF Places
  <2> QED
    BY <2>1, <2>2
<1> QED
  BY <1>2 DEF Count

\* None is counted where none is.
LEMMA CountNone ==
  ASSUME NEW q, NEW S, \A i \in DOMAIN q : q[i] \notin S
  PROVE  Count(q, S) = 0
<1>1. Places(q, S) = {}
  BY DEF Places
<1> QED
  BY <1>1, FS_EmptySet DEF Count

----------------------------------------------------------------------------
(* The frames of the connector.                                            *)

\* A subscription's frame names its channel, the connector's own name none.
SoundFrames == [op : Ops, chan : Channels, stale : BOOLEAN]
                 \cup [op : {"auth", "ping"}, chan : {None}, stale : BOOLEAN]

\* What the subscriptions send to a live session.
Requests == {f \in SoundFrames : f.op \in Ops /\ ~f.stale}

LEMMA SoundFramesAreFrames == SoundFrames \subseteq Frames
BY DEF SoundFrames, Frames

LEMMA FrameFacts ==
  /\ \A op \in Ops, c \in Channels : Frame(op, c) \in Requests
  /\ Frame("auth", None) \in SoundFrames /\ Frame("ping", None) \in SoundFrames
  /\ Login \in Seq(SoundFrames)
<1>1. \A op \in Ops, c \in Channels : Frame(op, c) \in Requests
  BY DEF Frame, SoundFrames, Requests
<1>2. Frame("auth", None) \in SoundFrames /\ Frame("ping", None) \in SoundFrames
  BY DEF Frame, SoundFrames
<1>3. Login \in Seq(SoundFrames)
  BY <1>2 DEF Login
<1> QED
  BY <1>1, <1>2, <1>3

\* The listeners are subscriptions, and finitely many.
LEMMA ListenersFacts ==
  ASSUME IInv, NEW cs, cs \subseteq Channels
  PROVE  Listeners(cs) \subseteq Subs /\ IsFiniteSet(Listeners(cs))
<1>1. Listeners(cs) \in SUBSET Subs
  BY DEF IInv, HandlerLive, Listeners
<1> QED
  BY <1>1, SubsAssumption, FS_Subset

\* An event makes finitely many subscriptions send one request each.
LEMMA FramesOnFacts ==
  ASSUME IInv, NEW cs, cs \subseteq Channels, NEW e \in Events
  PROVE  FramesOn(cs, e) \subseteq Requests /\ IsFiniteSet(FramesOn(cs, e))
<1> DEFINE senders == {t \in Listeners(cs) : ProcessEvent(sm[t], e).sends # <<>>}
           sent(s) == Frame(ProcessEvent(sm[s], e).sends[1], Topic[s])
           sending == [s \in senders |-> sent(s)]
<1>1. senders \in SUBSET Subs /\ IsFiniteSet(senders)
  <2>1. senders \in SUBSET Listeners(cs)
    OBVIOUS
  <2> QED
    BY <2>1, ListenersFacts, FS_Subset
<1>2. ASSUME NEW s \in senders PROVE sent(s) \in Requests
  <2>1. ProcessEvent(sm[s], e) \in Outcomes /\ ProcessEvent(sm[s], e).sends # <<>>
    BY <1>1, OutcomeTypes DEF IInv, TypeOK
  <2>2. ProcessEvent(sm[s], e).sends \in Seq(Ops)
    BY <2>1 DEF Outcomes
  <2>3. ProcessEvent(sm[s], e).sends[1] \in Ops
    BY <2>1, <2>2
  <2> QED
    BY <1>1, <2>3, FrameFacts, TopicAssumption
<1>3. FramesOn(cs, e) = {sent(s) : s \in senders}
  BY DEF FramesOn
<1> HIDE DEF sent, senders
<1>4. sending \in Surjection(senders, FramesOn(cs, e))
  BY <1>3 DEF Surjection
<1> QED
  BY <1>1, <1>2, <1>3, <1>4, FS_Surjection

\* Whatever the order in which the map lists the channels, each frame is sent
\* once.
LEMMA OrdersFacts ==
  ASSUME NEW fs, IsFiniteSet(fs), NEW q \in Orders(fs), NEW S, fs \subseteq S
  PROVE  /\ q \in Seq(S)
         /\ \A i \in DOMAIN q : q[i] \in fs
         /\ \A f \in fs : \E i \in DOMAIN q : q[i] = f
         /\ \A i, j \in DOMAIN q : q[i] = q[j] => i = j
<1> DEFINE n == Cardinality(fs)
<1>1. n \in Nat /\ IsFiniteSet(1 .. n) /\ Cardinality(1 .. n) = n
  BY FS_CardinalityType, FS_Interval
<1>2. q \in [1 .. n -> fs] /\ {q[i] : i \in DOMAIN q} = fs /\ DOMAIN q = 1 .. n
  BY DEF Orders
<1> HIDE DEF n
<1>3. q \in Seq(S)
  BY <1>1, <1>2
<1>4. q \in Surjection(1 .. n, fs)
  BY <1>2 DEF Surjection
<1>5. q \in Injection(1 .. n, fs)
  BY <1>1, <1>4, FS_SurjSameCardinalityImpliesInj DEF n
<1> QED
  BY <1>2, <1>3, <1>5 DEF Injection, IsInjective

----------------------------------------------------------------------------
(* The inductive invariant of the connection.                              *)

ControlTypes ==
  /\ phase \in Phases /\ stopping \in BOOLEAN /\ onDrop \in BOOLEAN
  /\ sock \in {"open", "closed"}
  /\ reader \in {"off", "reading", "done", "threw"}
  /\ writer \in {"off", "popping", "writing", "threw"}
  /\ pinger \in {"off", "waitNext", "waitPong", "done"}
  /\ pongBuffer \in BOOLEAN
  /\ faults \in 0 .. MaxFaults

ServerStates == [heard : BOOLEAN, authed : BOOLEAN, channels : SUBSET Channels]

FrameTypes ==
  /\ inHand \in Seq(SoundFrames) /\ Len(inHand) = (IF writer = "writing" THEN 1 ELSE 0)
  /\ writeQueue \in Seq(SoundFrames)
  /\ inbound \in Seq(Inbound)
  /\ srv \in ServerStates

ConnectorTypes == ControlTypes /\ FrameTypes

\* Between two sessions nothing is left of the first.
NothingBetweenSessions ==
  /\ phase # "session" =>
       /\ reader = "off" /\ writer = "off" /\ pinger = "off" /\ ~pongBuffer
       /\ sock = "closed" /\ inbound = <<>> /\ srv = SilentServer
  /\ onDrop => phase \in {"connecting", "session"}

\* Until the server has heard a frame, the login is the next it will hear.
LoginNext ==
  HasAuth /\ phase = "session" /\ ~srv.heard =>
    /\ writer = "writing" => inHand[1].op = "auth"
    /\ writer = "popping" => writeQueue # <<>> /\ writeQueue[1].op = "auth"

ConnInv == /\ ConnectorTypes /\ NothingBetweenSessions /\ NoStaleFrames
           /\ LoginNext /\ LoginLeads /\ OnePingAtATime

ConnectorInv == IInv /\ ConnInv

PingFrames == {f \in SoundFrames : f.op = "ping"}
PongFrames == {m \in Inbound : m.type = "pong"}

PingCount(q, hand, back, buffered) ==
  Count(q, PingFrames) + (IF hand # <<>> /\ hand[1].op = "ping" THEN 1 ELSE 0)
    + Count(back, PongFrames) + (IF buffered THEN 1 ELSE 0)

\* The pings are those of the queue, of the writer, of the way back and of the
\* buffer.
LEMMA PingsCounted ==
  ASSUME NEW q \in Seq(SoundFrames), NEW hand \in Seq(SoundFrames), Len(hand) <= 1,
         NEW back \in Seq(Inbound), NEW b \in {0, 1}
  PROVE  /\ Cardinality({i \in DOMAIN q : q[i].op = "ping"})
              + Cardinality({i \in DOMAIN hand : hand[i].op = "ping"})
              + Cardinality({i \in DOMAIN back : back[i].type = "pong"}) + b
            = Count(q, PingFrames) + (IF hand # <<>> /\ hand[1].op = "ping" THEN 1 ELSE 0)
                + Count(back, PongFrames) + b
         /\ Count(q, PingFrames) \in Nat /\ Count(back, PongFrames) \in Nat
<1>1. Count(q, PingFrames) \in Nat /\ Count(back, PongFrames) \in Nat
  BY PlacesFinite
<1>2. Places(q, PingFrames) = {i \in DOMAIN q : q[i].op = "ping"}
  BY DEF Places, PingFrames
<1>3. Places(back, PongFrames) = {i \in DOMAIN back : back[i].type = "pong"}
  BY DEF Places, PongFrames
<1>4. Cardinality({i \in DOMAIN hand : hand[i].op = "ping"})
        = (IF hand # <<>> /\ hand[1].op = "ping" THEN 1 ELSE 0)
  <2>1. CASE hand # <<>> /\ hand[1].op = "ping"
    <3>1. {i \in DOMAIN hand : hand[i].op = "ping"} = {1}
      BY <2>1
    <3> QED
      BY <2>1, <3>1, FS_Singleton
  <2>2. CASE ~(hand # <<>> /\ hand[1].op = "ping")
    <3>1. {i \in DOMAIN hand : hand[i].op = "ping"} = {}
      BY <2>2
    <3> QED
      BY <2>2, <3>1, FS_EmptySet
  <2> QED
    BY <2>1, <2>2
<1> QED
  BY <1>1, <1>2, <1>3, <1>4 DEF Count

\* The same of a state and of its successor.
LEMMA PingsNow ==
  /\ ConnectorTypes => Pings = PingCount(writeQueue, inHand, inbound, pongBuffer)
  /\ ConnectorTypes' => Pings' = PingCount(writeQueue', inHand', inbound', pongBuffer')
<1>1. ASSUME ConnectorTypes
      PROVE  Pings = PingCount(writeQueue, inHand, inbound, pongBuffer)
  <2>1. Len(inHand) <= 1 /\ (IF pongBuffer THEN 1 ELSE 0) \in {0, 1}
    BY <1>1 DEF ConnectorTypes, ControlTypes, FrameTypes
  <2> QED
    BY <1>1, <2>1, PingsCounted DEF ConnectorTypes, ControlTypes, FrameTypes, Pings, PingCount
<1>2. ASSUME ConnectorTypes'
      PROVE  Pings' = PingCount(writeQueue', inHand', inbound', pongBuffer')
  <2>1. Len(inHand') <= 1 /\ (IF pongBuffer' THEN 1 ELSE 0) \in {0, 1}
    BY <1>2 DEF ConnectorTypes, ControlTypes, FrameTypes
  <2> QED
    BY <1>2, <2>1, PingsCounted DEF ConnectorTypes, ControlTypes, FrameTypes, Pings, PingCount
<1> QED
  BY <1>1, <1>2

----------------------------------------------------------------------------
(* The connector takes the steps of ChannelSubscriptions.                  *)

LEMMA InboundFacts ==
  ASSUME ConnectorTypes, inbound # <<>>
  PROVE  /\ Head(inbound) \in Inbound
         /\ Tail(inbound) \in Seq(Inbound)
         /\ Head(inbound).type \in Responses =>
              Head(inbound).chan \in Channels /\ Head(inbound).type \in Events
         /\ Head(inbound).type \in Responses \cup {"pong", "garbled"}
<1>1. Head(inbound) \in Inbound /\ Tail(inbound) \in Seq(Inbound)
  BY DEF ConnectorTypes, ControlTypes, FrameTypes
<1> QED
  BY <1>1 DEF Inbound, Responses, Events

LEMMA SubscriptionsStep ==
  ASSUME ConnectorTypes, [ConnectorNext]_allVars
  PROVE  [Next]_vars
<1>1. ASSUME NEW s \in Subs,
             CreateSubscription(s) \/ StopSubscription(s) \/ SubscriptionTask(s)
      PROVE  Next
  BY <1>1 DEF CreateSubscription, StopSubscription, SubscriptionTask, RunStart, RunWake,
              RunStopWhileWaiting, RunStopSeen, RunDrained, Next, SubscriptionStep
<1>2. CASE MainTask
  BY <1>2 DEF MainTask, Reconnect, Connected, ConnectFail, Announce, GroupDone,
              StoppedInDelay, Next
<1>3. CASE WriterTask
  BY <1>3 DEF WriterTask, WriterTake, WriterSent, WriterIgnored, WriterError,
              WriterCancelled, Written, vars
<1>4. CASE ReadFrame
  <2>1. CASE Head(inbound).type \in Responses /\ Response(Head(inbound).chan, Head(inbound).type)
    BY <1>4, <2>1, InboundFacts DEF ReadFrame, AsyncRead, Next
  <2> QED
    BY <1>4, <2>1 DEF ReadFrame
<1>5. CASE ReadError
  BY <1>5 DEF ReadError, network, Next
<1>6. CASE PingerTask
  BY <1>6 DEF PingerTask, PushPing, PongArrives, PongTimeout
<1>7. CASE StopConnector \/ UserDrop \/ ServerData \/ ServerFault \/ NetworkFail \/ PeerCloses
  BY <1>7 DEF StopConnector, UserDrop, ServerData, ServerFault, NetworkFail, PeerCloses, Environment
<1>8. CASE UNCHANGED allVars
  BY <1>8 DEF allVars
<1> QED
  BY <1>1, <1>2, <1>3, <1>4, <1>5, <1>6, <1>7, <1>8 DEF ConnectorNext, ReaderTask

----------------------------------------------------------------------------
(* The invariant of the connection is inductive.                           *)

LEMMA InitConnInv == ConnectorInit => ConnInv
<1> SUFFICES ASSUME ConnectorInit PROVE ConnInv
  OBVIOUS
<1>1. ConnectorTypes
  <2>1. ControlTypes
    <3>1. stopping = FALSE /\ onDrop = FALSE /\ pongBuffer = FALSE
      BY DEF ConnectorInit
    <3>2. /\ phase \in Phases /\ sock \in {"open", "closed"} /\ faults = 0
          /\ reader = "off" /\ writer = "off" /\ pinger = "off"
      BY DEF ConnectorInit, Phases
    <3>3. faults \in 0 .. MaxFaults
      BY <3>2, BoundsAssumption
    <3> QED
      BY <3>1, <3>2, <3>3 DEF ControlTypes
  <2>2. srv \in ServerStates
    BY DEF ConnectorInit, SilentServer, ServerStates
  <2>3. /\ inHand \in Seq(SoundFrames) /\ Len(inHand) = 0 /\ writer = "off"
        /\ writeQueue \in Seq(SoundFrames) /\ inbound \in Seq(Inbound)
    BY DEF ConnectorInit
  <2> QED
    BY <2>1, <2>2, <2>3 DEF ConnectorTypes, FrameTypes
<1>2. NothingBetweenSessions /\ LoginNext /\ LoginLeads /\ OnePingAtATime
  BY DEF ConnectorInit, NothingBetweenSessions, LoginNext, LoginLeads, OnePingAtATime, SilentServer
<1>3. NoStaleFrames
  BY DEF ConnectorInit, NoStaleFrames
<1> QED
  BY <1>1, <1>2, <1>3 DEF ConnInv

\* A frame added behind the others disturbs neither their order nor their age.
LEMMA BehindTheOthers ==
  ASSUME ConnInv, NEW fs \in Seq(SoundFrames), writeQueue' = writeQueue \o fs,
         phase = "session" => \A i \in DOMAIN fs : ~fs[i].stale
  PROVE  /\ writeQueue' \in Seq(SoundFrames)
         /\ phase = "session" => \A i \in DOMAIN writeQueue' : ~writeQueue'[i].stale
         /\ writeQueue # <<>> => writeQueue' # <<>> /\ writeQueue'[1] = writeQueue[1]
<1>1. writeQueue \in Seq(SoundFrames)
  BY DEF ConnInv, ConnectorTypes, ControlTypes, FrameTypes
<1>2. writeQueue' \in Seq(SoundFrames)
  BY <1>1
<1>3. /\ Len(writeQueue) \in Nat /\ Len(fs) \in Nat
      /\ DOMAIN writeQueue = 1 .. Len(writeQueue) /\ DOMAIN fs = 1 .. Len(fs)
      /\ DOMAIN writeQueue' = 1 .. Len(writeQueue) + Len(fs)
      /\ \A i \in 1 .. Len(writeQueue) + Len(fs) :
           writeQueue'[i] = IF i <= Len(writeQueue) THEN writeQueue[i]
                                                    ELSE fs[i - Len(writeQueue)]
  BY <1>1
<1>4. ASSUME phase = "session", NEW i \in DOMAIN writeQueue'
      PROVE  ~writeQueue'[i].stale
  <2>1. CASE i <= Len(writeQueue)
    BY <1>3, <1>4, <2>1 DEF ConnInv, NoStaleFrames
  <2>2. CASE i > Len(writeQueue)
    <3>1. i - Len(writeQueue) \in DOMAIN fs
      BY <1>3, <1>4, <2>2
    <3> QED
      BY <1>3, <1>4, <2>2, <3>1
  <2> QED
    BY <1>3, <1>4, <2>1, <2>2
<1>5. writeQueue # <<>> => writeQueue' # <<>> /\ writeQueue'[1] = writeQueue[1]
  BY <1>1, <1>3
<1> QED
  BY <1>2, <1>4, <1>5

\* A segment of a subscription queues one request at most.
LEMMA RunKeepsConnInv ==
  ASSUME ConnectorInv, NEW s \in Subs, NEW seg, seg.sends \in Seq(Ops),
         SubscriptionRuns(s, seg)
  PROVE  ConnInv'
<1>0. ConnInv /\ ConnectorTypes /\ Topic[s] \in Channels
  BY TopicAssumption DEF ConnectorInv, ConnInv
<1> DEFINE f  == [Frame(seg.sends[1], Topic[s]) EXCEPT !.stale = phase # "session"]
           fs == IF seg.sends = <<>> THEN <<>> ELSE <<f>>
<1>1. /\ seg.sends # <<>> => f \in SoundFrames /\ f.op \in Ops /\ f.stale = (phase # "session")
      /\ fs \in Seq(SoundFrames)
  <2>1. f = [op |-> seg.sends[1], chan |-> Topic[s], stale |-> phase # "session"]
    BY DEF Frame
  <2>2. seg.sends # <<>> => seg.sends[1] \in Ops
    OBVIOUS
  <2>3. (phase # "session") \in BOOLEAN
    OBVIOUS
  <2> HIDE DEF f
  <2>4. seg.sends # <<>> => f \in SoundFrames /\ f.op \in Ops /\ f.stale = (phase # "session")
    BY <1>0, <2>1, <2>2, <2>3 DEF SoundFrames
  <2> QED
    BY <2>4
<1>2. UNCHANGED <<phase, stopping, onDrop, sock, inbound, srv, reader, writer, inHand,
                  pinger, pongBuffer, faults>>
  BY DEF SubscriptionRuns, network, session
<1>3. writeQueue' = writeQueue \o fs
  <2>1. writeQueue' = IF seg.sends = <<>> THEN writeQueue ELSE Append(writeQueue, f)
    BY DEF SubscriptionRuns, Send
  <2> HIDE DEF f
  <2> QED
    BY <1>0, <1>1, <2>1, ConcatEmptySeq, AppendIsConcat DEF ConnectorTypes, ControlTypes, FrameTypes
<1> HIDE DEF f
<1>4. \A i \in DOMAIN fs : fs[i] = f /\ seg.sends # <<>>
  OBVIOUS
<1>5. /\ phase = "session" => \A i \in DOMAIN fs : ~fs[i].stale
      /\ \A i \in DOMAIN fs : fs[i] \notin PingFrames
  BY <1>1, <1>4 DEF PingFrames, Ops
<1> HIDE DEF fs
<1>6. /\ writeQueue' \in Seq(SoundFrames)
      /\ phase = "session" => \A i \in DOMAIN writeQueue' : ~writeQueue'[i].stale
      /\ writeQueue # <<>> => writeQueue' # <<>> /\ writeQueue'[1] = writeQueue[1]
  BY <1>0, <1>1, <1>3, <1>5, BehindTheOthers
<1>7. ConnectorTypes' /\ NothingBetweenSessions' /\ NoStaleFrames' /\ LoginNext' /\ LoginLeads'
  BY <1>0, <1>2, <1>6 DEF ConnInv, ConnectorTypes, ControlTypes, FrameTypes, NothingBetweenSessions, NoStaleFrames,
                          LoginNext, LoginLeads
<1>8. Pings' = Pings
  <2>1. Count(writeQueue', PingFrames) = Count(writeQueue, PingFrames)
    BY <1>0, <1>1, <1>3, <1>5, CountConcat DEF ConnectorTypes, ControlTypes, FrameTypes
  <2> QED
    BY <1>0, <1>2, <1>7, <2>1, PingsNow DEF PingCount
<1> QED
  BY <1>0, <1>2, <1>7, <1>8 DEF ConnInv, OnePingAtATime, Cancelled

\* A session begins with the login and the requests of the waiting channels.
LEMMA AnnounceKeepsConnInv ==
  ASSUME ConnectorInv, NEW up \in BOOLEAN, Announce(up, Login), Fork,
         faults' \in 0 .. MaxFaults
  PROVE  ConnInv'
<1>0. ConnInv /\ ConnectorTypes /\ NothingBetweenSessions /\ "up" \in Events
  BY DEF ConnectorInv, ConnInv, Events
<1>1. PICK frames \in Orders(FramesOn(Channels, "up")) : writeQueue' = Login \o frames
  BY DEF Announce
<1>2. /\ frames \in Seq(Requests) /\ frames \in Seq(SoundFrames)
      /\ \A i \in DOMAIN frames : frames[i] \in Requests
  <2>1. FramesOn(Channels, "up") \subseteq Requests /\ IsFiniteSet(FramesOn(Channels, "up"))
    BY <1>0, FramesOnFacts DEF ConnectorInv
  <2>2. Requests \subseteq SoundFrames
    BY DEF Requests
  <2>3. frames \in Seq(Requests) /\ \A i \in DOMAIN frames : frames[i] \in FramesOn(Channels, "up")
    BY <2>1, OrdersFacts
  <2>4. frames \in Seq(SoundFrames)
    BY <2>2, <2>3, SeqMonotonic
  <2> QED
    BY <2>1, <2>3, <2>4
<1>3. /\ writeQueue' \in Seq(SoundFrames)
      /\ \A i \in DOMAIN writeQueue' : ~writeQueue'[i].stale /\ writeQueue'[i].op # "ping"
      /\ HasAuth => writeQueue' # <<>> /\ writeQueue'[1].op = "auth"
  <2>1. \A f \in Requests : ~f.stale /\ f.op # "ping"
    BY DEF Requests, Ops
  <2>2. CASE HasAuth
    <3> DEFINE auth == Frame("auth", None)
    <3>1. auth \in SoundFrames /\ ~auth.stale /\ auth.op = "auth"
      BY FrameFacts DEF Frame
    <3>2. writeQueue' = <<auth>> \o frames
      BY <1>1, <2>2 DEF Login
    <3> HIDE DEF auth
    <3>3. /\ DOMAIN writeQueue' = 1 .. 1 + Len(frames)
          /\ DOMAIN frames = 1 .. Len(frames) /\ Len(frames) \in Nat
          /\ writeQueue'[1] = auth
          /\ \A i \in 2 .. 1 + Len(frames) : writeQueue'[i] = frames[i - 1]
          /\ writeQueue' \in Seq(SoundFrames)
      BY <1>2, <3>1, <3>2
    <3>4. ASSUME NEW i \in DOMAIN writeQueue', i # 1
          PROVE  writeQueue'[i] \in Requests
      <4>1. i \in 2 .. 1 + Len(frames) /\ i - 1 \in DOMAIN frames
        BY <3>3, <3>4
      <4> QED
        BY <1>2, <3>3, <4>1
    <3> QED
      BY <2>1, <3>1, <3>3, <3>4
  <2>3. CASE ~HasAuth
    <3>1. writeQueue' = frames
      BY <1>1, <1>2, <2>3, ConcatEmptySeq DEF Login
    <3> QED
      BY <1>2, <2>1, <2>3, <3>1
  <2> QED
    BY <2>2, <2>3, HasAuthAssumption
<1>4. /\ phase = "connecting" /\ inHand = <<>> /\ inbound = <<>> /\ srv = SilentServer
      /\ ~pongBuffer /\ reader = "off" /\ writer = "off" /\ pinger = "off"
  BY <1>0 DEF Announce, ConnectorTypes, ControlTypes, FrameTypes, NothingBetweenSessions
<1>5. /\ UNCHANGED <<stopping, inbound, srv, inHand, pongBuffer>>
      /\ stopping => phase' = "stopped" /\ UNCHANGED <<reader, writer, pinger>>
      /\ ~stopping => /\ phase' = "session" /\ reader' = "reading"
                      /\ writer' = "popping" /\ pinger' = "waitNext"
      /\ sock' \in {"open", "closed"} /\ onDrop' \in BOOLEAN
      /\ stopping => sock' = "closed" /\ ~onDrop'
  BY <1>0 DEF Announce, Fork, session, ConnectorTypes, ControlTypes, FrameTypes
<1>6. ConnectorTypes'
  BY <1>0, <1>3, <1>4, <1>5 DEF ConnectorTypes, ControlTypes, FrameTypes, Phases
<1>7. NothingBetweenSessions' /\ LoginNext' /\ LoginLeads'
  BY <1>0, <1>3, <1>4, <1>5
     DEF NothingBetweenSessions, LoginNext, LoginLeads, SilentServer, ConnectorTypes, ControlTypes, FrameTypes
<1>8. NoStaleFrames'
  BY <1>3, <1>4, <1>5 DEF NoStaleFrames
<1>9. OnePingAtATime'
  <2>1. Count(writeQueue', PingFrames) = 0
    <3>1. \A i \in DOMAIN writeQueue' : writeQueue'[i] \notin PingFrames
      BY <1>3 DEF PingFrames
    <3> QED
      BY <3>1, CountNone
  <2>2. Count(inbound', PongFrames) = 0
    <3>1. inbound' = <<>>
      BY <1>4, <1>5
    <3> QED
      BY <3>1, CountNone
  <2>3. Pings' = 0
    BY <1>4, <1>5, <1>6, <2>1, <2>2, PingsNow DEF PingCount
  <2> QED
    BY <2>3 DEF OnePingAtATime
<1> QED
  BY <1>6, <1>7, <1>8, <1>9 DEF ConnInv

LEMMA FaultFacts == ConnectorTypes /\ Fault => faults' \in 0 .. MaxFaults
BY BoundsAssumption DEF ConnectorTypes, ControlTypes, FrameTypes, Fault

LEMMA MainKeepsConnInv == ConnectorInv /\ MainTask => ConnInv'
<1> SUFFICES ASSUME ConnectorInv, MainTask PROVE ConnInv'
  OBVIOUS
<1>0. ConnInv /\ ConnectorTypes /\ NothingBetweenSessions
  BY DEF ConnectorInv, ConnInv
<1>1. CASE Reconnect \/ StoppedInDelay
  <2>1. /\ UNCHANGED <<stopping, sock, inbound, srv, reader, writer, inHand, pinger,
                       pongBuffer, writeQueue, faults>>
        /\ phase \in {"spawned", "delay"} /\ phase' \in {"connecting", "stopped"}
        /\ onDrop' \in BOOLEAN /\ (onDrop' => phase' = "connecting")
    <3>1. ~onDrop /\ onDrop \in BOOLEAN
      BY <1>0, <1>1 DEF Reconnect, StoppedInDelay, ConnectorTypes, ControlTypes, NothingBetweenSessions
    <3>2. CASE Reconnect
      BY <3>2 DEF Reconnect, network, session
    <3>3. CASE StoppedInDelay
      BY <3>1, <3>3 DEF StoppedInDelay, network, session
    <3> QED
      BY <1>1, <3>2, <3>3
  <2>2. ConnectorTypes'
    <3>1. ControlTypes'
      BY <1>0, <2>1 DEF ConnectorTypes, ControlTypes, Phases
    <3>2. FrameTypes'
      BY <1>0, <2>1 DEF ConnectorTypes, FrameTypes
    <3> QED
      BY <3>1, <3>2 DEF ConnectorTypes
  <2>4. NothingBetweenSessions' /\ LoginNext' /\ LoginLeads'
    BY <1>0, <2>1 DEF ConnInv, NothingBetweenSessions, LoginNext, LoginLeads
  <2>3. NoStaleFrames' /\ OnePingAtATime'
    BY <1>0, <2>1 DEF ConnInv, NoStaleFrames, OnePingAtATime
  <2> QED
    BY <2>2, <2>3, <2>4 DEF ConnInv
<1>2. CASE Connected \/ ConnectFail
  <2>1. faults' \in 0 .. MaxFaults
    BY <1>0, <1>2, FaultFacts DEF Connected, ConnectFail, ConnectorTypes, ControlTypes, FrameTypes
  <2> QED
    BY <1>2, <2>1, AnnounceKeepsConnInv DEF Connected, ConnectFail
<1>3. CASE GroupDone
  <2>1. /\ phase' = (IF stopping THEN "stopped" ELSE "delay")
        /\ reader' = "off" /\ writer' = "off" /\ pinger' = "off" /\ onDrop' = FALSE
        /\ inHand' = <<>> /\ pongBuffer' = FALSE
        /\ sock' = "closed" /\ inbound' = <<>> /\ srv' = SilentServer
        /\ UNCHANGED <<stopping, faults>>
        /\ writeQueue' = [i \in DOMAIN writeQueue |-> [writeQueue[i] EXCEPT !.stale = TRUE]]
    BY <1>3 DEF GroupDone, TearDown
  <2>2. writeQueue' \in Seq(SoundFrames)
    <3>1. \A f \in SoundFrames : [f EXCEPT !.stale = TRUE] \in SoundFrames
      BY DEF SoundFrames
    <3>2. Len(writeQueue) \in Nat /\ DOMAIN writeQueue = 1 .. Len(writeQueue)
          /\ \A i \in 1 .. Len(writeQueue) : writeQueue[i] \in SoundFrames
      BY <1>0 DEF ConnectorTypes, ControlTypes, FrameTypes
    <3>3. writeQueue' \in [1 .. Len(writeQueue) -> SoundFrames]
      BY <2>1, <3>1, <3>2
    <3> QED
      BY <3>2, <3>3
  <2>3. ConnectorTypes'
    <3>1. ControlTypes'
      BY <1>0, <2>1 DEF ConnectorTypes, ControlTypes, Phases
    <3>2. srv' \in ServerStates
      BY <2>1 DEF SilentServer, ServerStates
    <3>3. inHand' \in Seq(SoundFrames) /\ Len(inHand') = 0 /\ inbound' \in Seq(Inbound)
      BY <2>1
    <3>4. FrameTypes'
      BY <2>1, <2>2, <3>2, <3>3 DEF FrameTypes
    <3> QED
      BY <3>1, <3>4 DEF ConnectorTypes
  <2>4. NothingBetweenSessions' /\ LoginNext' /\ LoginLeads' /\ OnePingAtATime'
    BY <2>1 DEF NothingBetweenSessions, LoginNext, LoginLeads, OnePingAtATime, SilentServer
  <2>5. NoStaleFrames'
    BY <2>1 DEF NoStaleFrames
  <2> QED
    BY <2>3, <2>4, <2>5 DEF ConnInv
<1> QED
  BY <1>1, <1>2, <1>3 DEF MainTask

\* The frame in the writer's hands.
LEMMA InHandFacts ==
  ASSUME FrameTypes, writer = "writing"
  PROVE  inHand # <<>> /\ inHand[1] \in SoundFrames
<1>1. inHand \in Seq(SoundFrames) /\ Len(inHand) = 1
  BY DEF FrameTypes
<1> QED
  BY <1>1

\* The server answers a ping by a pong, and marks the first login it hears.
LEMMA HeardFacts ==
  ASSUME ConnectorInv, WriterSent \/ WriterIgnored
  PROVE  /\ srv' \in ServerStates /\ srv'.heard
         /\ (srv'.authed <=> srv.authed \/ (inHand[1].op = "auth" /\ ~srv.heard))
         /\ inbound' \in Seq(Inbound)
         /\ Count(inbound', PongFrames) <=
              Count(inbound, PongFrames) + (IF inHand[1].op = "ping" THEN 1 ELSE 0)
         /\ faults' \in 0 .. MaxFaults
<1> DEFINE f     == inHand[1]
           heard == [srv EXCEPT !.heard = TRUE, !.authed = @ \/ (f.op = "auth" /\ ~srv.heard)]
<1>0. ConnectorTypes /\ FrameTypes
  BY DEF ConnectorInv, ConnInv, ConnectorTypes
<1>1. f \in SoundFrames
  BY <1>0, InHandFacts DEF WriterSent, WriterIgnored, Written
<1>2. /\ f.op \in {"auth", "ping", "subscribe", "unsubscribe"}
      /\ f.op \in Ops => f.chan \in Channels
      /\ f.op = "ping" => f.chan = None
  BY <1>1 DEF SoundFrames, Ops
<1>3. /\ heard \in ServerStates /\ heard.heard
      /\ (heard.authed <=> srv.authed \/ (f.op = "auth" /\ ~srv.heard))
  BY <1>0 DEF FrameTypes, ServerStates
<1>4. Count(inbound, PongFrames) \in Nat
  BY <1>0, PlacesFinite DEF FrameTypes
<1>5. CASE WriterIgnored
  <2>1. srv' = heard /\ UNCHANGED inbound /\ Fault
    BY <1>5 DEF WriterIgnored
  <2> HIDE DEF heard
  <2> QED
    BY <1>0, <1>3, <1>4, <2>1, FaultFacts DEF FrameTypes
<1>6. CASE WriterSent
  <2>0. faults' \in 0 .. MaxFaults
    BY <1>0, <1>6 DEF WriterSent, ConnectorTypes, ControlTypes
  <2>1. CASE f.op = "auth"
    <3>1. srv' = heard /\ UNCHANGED inbound
      BY <1>6, <2>1 DEF WriterSent
    <3> HIDE DEF heard
    <3> QED
      BY <1>0, <1>3, <1>4, <2>0, <3>1 DEF FrameTypes
  <2>2. CASE f.op # "auth"
    <3>1. PICK type \in Responses \cup {"pong"}, chans \in SUBSET Channels :
            /\ inbound' = Append(inbound, [type |-> type, chan |-> f.chan])
            /\ srv' = [heard EXCEPT !.channels = chans]
            /\ f.op = "ping" <=> type = "pong"
      <4>1. CASE f.op = "ping"
        <5>1. /\ inbound' = Append(inbound, [type |-> "pong", chan |-> f.chan])
              /\ srv' = [heard EXCEPT !.channels = srv.channels]
          BY <1>6, <4>1 DEF WriterSent
        <5>2. srv.channels \in SUBSET Channels
          BY <1>0 DEF FrameTypes, ServerStates
        <5> QED
          BY <4>1, <5>1, <5>2
      <4>2. CASE f.op = "subscribe"
        <5> DEFINE type == IF f.chan \in srv.channels THEN "error" ELSE "subscribed"
        <5>1. /\ inbound' = Append(inbound, [type |-> type, chan |-> f.chan])
              /\ srv' = [heard EXCEPT !.channels = srv.channels \cup {f.chan}]
          BY <1>6, <4>2 DEF WriterSent
        <5>2. srv.channels \cup {f.chan} \in SUBSET Channels
          BY <1>0, <1>2, <4>2 DEF FrameTypes, ServerStates, Ops
        <5>3. type \in Responses /\ type # "pong"
          BY DEF Responses
        <5> QED
          BY <4>2, <5>1, <5>2, <5>3
      <4>3. CASE f.op = "unsubscribe"
        <5> DEFINE type == IF f.chan \in srv.channels THEN "unsubscribed" ELSE "error"
        <5>1. /\ inbound' = Append(inbound, [type |-> type, chan |-> f.chan])
              /\ srv' = [heard EXCEPT !.channels = srv.channels \ {f.chan}]
          BY <1>6, <4>3 DEF WriterSent
        <5>2. srv.channels \ {f.chan} \in SUBSET Channels
          BY <1>0 DEF FrameTypes, ServerStates
        <5>3. type \in Responses /\ type # "pong"
          BY DEF Responses
        <5> QED
          BY <4>3, <5>1, <5>2, <5>3
      <4> QED
        BY <1>2, <2>2, <4>1, <4>2, <4>3
    <3> DEFINE m == [type |-> type, chan |-> f.chan]
    <3>2. m \in Inbound /\ (m \in PongFrames <=> f.op = "ping")
      BY <1>2, <2>2, <3>1 DEF Inbound, PongFrames, Responses, Ops
    <3>3. /\ srv' \in ServerStates /\ srv'.heard /\ (srv'.authed <=> heard.authed)
      <4> HIDE DEF heard
      <4> QED
        BY <1>3, <3>1 DEF ServerStates
    <3> HIDE DEF m, heard
    <3>4. inbound' = Append(inbound, m) /\ inbound \in Seq(Inbound)
      BY <1>0, <3>1 DEF FrameTypes, m
    <3>5. inbound' \in Seq(Inbound)
      BY <3>2, <3>4
    <3>6. Count(inbound', PongFrames) = Count(inbound, PongFrames) + (IF m \in PongFrames THEN 1 ELSE 0)
      BY <3>2, <3>4, CountAppend
    <3> QED
      BY <1>3, <1>4, <2>0, <3>2, <3>3, <3>5, <3>6
  <2> QED
    BY <2>1, <2>2
<1> QED
  BY <1>5, <1>6

LEMMA WriterKeepsConnInv == ConnectorInv /\ WriterTask => ConnInv'
<1> SUFFICES ASSUME ConnectorInv, WriterTask PROVE ConnInv'
  OBVIOUS
<1>0. /\ ConnInv /\ ConnectorTypes /\ ControlTypes /\ FrameTypes
      /\ NothingBetweenSessions /\ NoStaleFrames /\ LoginNext /\ LoginLeads /\ OnePingAtATime
  BY DEF ConnectorInv, ConnInv, ConnectorTypes
<1>1. phase = "session" /\ writer \in {"popping", "writing"}
  BY <1>0 DEF WriterTask, WriterTake, WriterSent, WriterIgnored, Written, WriterError,
              WriterCancelled, NothingBetweenSessions
<1>2. UNCHANGED <<phase, stopping, onDrop, sock, reader, pinger, pongBuffer>>
  BY DEF WriterTask, WriterTake, WriterSent, WriterIgnored, Written, WriterError,
         WriterCancelled, network
<1>3. NothingBetweenSessions'
  BY <1>0, <1>1, <1>2 DEF NothingBetweenSessions
<1>4. CASE WriterTake
  <2>1. /\ writeQueue # <<>> /\ writer = "popping" /\ writer' = "writing"
        /\ inHand' = <<Head(writeQueue)>> /\ writeQueue' = Tail(writeQueue)
        /\ UNCHANGED <<inbound, srv, faults>>
    BY <1>4 DEF WriterTake, network
  <2>2. /\ Head(writeQueue) \in SoundFrames /\ Head(writeQueue) = writeQueue[1]
        /\ Tail(writeQueue) \in Seq(SoundFrames)
        /\ \A i \in DOMAIN Tail(writeQueue) :
             i + 1 \in DOMAIN writeQueue /\ Tail(writeQueue)[i] = writeQueue[i + 1]
        /\ 1 \in DOMAIN writeQueue
    BY <1>0, <2>1 DEF FrameTypes
  <2>3. ControlTypes' /\ FrameTypes'
    <3>1. ControlTypes'
      BY <1>0, <1>2, <2>1 DEF ControlTypes
    <3>2. inHand' \in Seq(SoundFrames) /\ Len(inHand') = 1
      BY <2>1, <2>2
    <3> QED
      BY <1>0, <2>1, <2>2, <3>1, <3>2 DEF FrameTypes
  <2>4. NoStaleFrames'
    <3>1. ~Head(writeQueue).stale /\ \A i \in DOMAIN Tail(writeQueue) : ~Tail(writeQueue)[i].stale
      BY <1>0, <1>1, <2>2 DEF NoStaleFrames
    <3> QED
      BY <2>1, <3>1 DEF NoStaleFrames
  <2>5. LoginNext' /\ LoginLeads'
    BY <1>0, <1>1, <1>2, <2>1, <2>2 DEF LoginNext, LoginLeads
  <2>6. OnePingAtATime'
    <3>1. Count(writeQueue', PingFrames)
            = Count(writeQueue, PingFrames) - (IF Head(writeQueue).op = "ping" THEN 1 ELSE 0)
      <4>1. Head(writeQueue) \in PingFrames <=> Head(writeQueue).op = "ping"
        BY <2>2 DEF PingFrames
      <4> QED
        BY <1>0, <2>1, <4>1, CountTail DEF FrameTypes
    <3>2. inHand = <<>> /\ inHand' # <<>> /\ inHand'[1] = Head(writeQueue)
      BY <1>0, <2>1 DEF FrameTypes
    <3>3. /\ Count(writeQueue, PingFrames) \in Nat /\ Count(inbound, PongFrames) \in Nat
      BY <1>0, PlacesFinite DEF FrameTypes
    <3>4. Pings' = Pings
      BY <1>0, <1>2, <2>1, <2>3, <3>1, <3>2, <3>3, PingsNow DEF PingCount, ConnectorTypes
    <3> QED
      BY <1>0, <1>2, <2>1, <3>4 DEF OnePingAtATime, Cancelled
  <2> QED
    BY <1>3, <2>3, <2>4, <2>5, <2>6 DEF ConnInv, ConnectorTypes
<1>5. CASE WriterSent \/ WriterIgnored
  <2>1. /\ writer = "writing" /\ writer' = (IF Cancelled THEN "threw" ELSE "popping")
        /\ inHand' = <<>> /\ UNCHANGED writeQueue
    BY <1>5 DEF WriterSent, WriterIgnored, Written
  <2>2. /\ srv' \in ServerStates /\ srv'.heard
        /\ (srv'.authed <=> srv.authed \/ (inHand[1].op = "auth" /\ ~srv.heard))
        /\ inbound' \in Seq(Inbound)
        /\ Count(inbound', PongFrames) <=
              Count(inbound, PongFrames) + (IF inHand[1].op = "ping" THEN 1 ELSE 0)
        /\ faults' \in 0 .. MaxFaults
    BY <1>5, HeardFacts
  <2>3. ControlTypes' /\ FrameTypes'
    <3>1. ControlTypes'
      BY <1>0, <1>2, <2>1, <2>2 DEF ControlTypes
    <3>2. inHand' \in Seq(SoundFrames) /\ Len(inHand') = 0 /\ writer' # "writing"
      BY <2>1
    <3> QED
      BY <1>0, <2>1, <2>2, <3>1, <3>2 DEF FrameTypes
  <2>4. NoStaleFrames'
    BY <1>0, <1>1, <1>2, <2>1 DEF NoStaleFrames
  <2>5. LoginNext' /\ LoginLeads'
    BY <1>0, <1>1, <2>1, <2>2 DEF LoginNext, LoginLeads
  <2>6. OnePingAtATime'
    <3>1. inHand # <<>>
      BY <1>0, <2>1, InHandFacts
    <3>2. /\ Count(writeQueue, PingFrames) \in Nat /\ Count(inbound, PongFrames) \in Nat
          /\ Count(inbound', PongFrames) \in Nat
      BY <1>0, <2>2, PlacesFinite DEF FrameTypes
    <3>3. Pings' <= Pings /\ Pings' \in Nat /\ Pings \in Nat
      BY <1>0, <1>2, <2>1, <2>2, <2>3, <3>1, <3>2, PingsNow DEF PingCount, ConnectorTypes
    <3>4. ~Cancelled' => ~Cancelled
      BY <1>2, <2>1 DEF Cancelled
    <3> QED
      BY <1>0, <1>2, <3>3, <3>4 DEF OnePingAtATime
  <2> QED
    BY <1>3, <2>3, <2>4, <2>5, <2>6 DEF ConnInv, ConnectorTypes
<1>6. CASE WriterError \/ WriterCancelled
  <2>1. /\ writer' = "threw" /\ inHand' = <<>> /\ UNCHANGED <<writeQueue, inbound, srv, faults>>
    BY <1>0, <1>6 DEF WriterError, WriterCancelled, FrameTypes, network
  <2>2. ControlTypes' /\ FrameTypes'
    <3>1. ControlTypes'
      BY <1>0, <1>2, <2>1 DEF ControlTypes
    <3>2. inHand' \in Seq(SoundFrames) /\ Len(inHand') = 0 /\ writer' # "writing"
      BY <2>1
    <3> QED
      BY <1>0, <2>1, <3>1, <3>2 DEF FrameTypes
  <2>3. NoStaleFrames'
    BY <1>0, <1>1, <1>2, <2>1 DEF NoStaleFrames
  <2>4. LoginNext' /\ LoginLeads' /\ OnePingAtATime'
    BY <1>0, <2>1 DEF LoginNext, LoginLeads, OnePingAtATime, Cancelled
  <2> QED
    BY <1>3, <2>2, <2>3, <2>4 DEF ConnInv, ConnectorTypes
<1> QED
  BY <1>4, <1>5, <1>6 DEF WriterTask

\* A frame read is answered by requests of its listener behind the others.
LEMMA ReadFrameFacts ==
  ASSUME ConnectorInv, ReadFrame
  PROVE  \E fs \in Seq(Requests) :
           /\ writeQueue' = writeQueue \o fs
           /\ inbound # <<>> /\ inbound' = Tail(inbound)
           /\ onDrop' \in BOOLEAN /\ (onDrop' => onDrop)
           /\ sock' \in {"open", "closed"}
           /\ pongBuffer' \in BOOLEAN
           /\ pongBuffer' => pongBuffer \/ Head(inbound).type = "pong"
<1> DEFINE m == Head(inbound)
<1>0. /\ ConnectorTypes /\ ControlTypes /\ FrameTypes /\ inbound # <<>> /\ inbound' = Tail(inbound)
  BY DEF ConnectorInv, ConnInv, ConnectorTypes, ReadFrame, AsyncRead
<1>1. <<>> \in Seq(Requests) /\ writeQueue \o <<>> = writeQueue
  BY <1>0, ConcatEmptySeq DEF FrameTypes
<1>2. CASE m.type = "pong" /\ pongBuffer' = TRUE /\ UNCHANGED <<vars, onDrop, sock, writeQueue>>
  BY <1>0, <1>1, <1>2 DEF ControlTypes
<1>3. CASE m.type = "garbled" /\ sock' = "closed" /\ UNCHANGED <<vars, onDrop, pongBuffer, writeQueue>>
  BY <1>0, <1>1, <1>3 DEF ControlTypes
<1>4. CASE /\ m.type \in Responses
           /\ DropIf(DropsOn({m.chan}, m.type))
           /\ \E frames \in Orders(FramesOn({m.chan}, m.type)) : writeQueue' = writeQueue \o frames
           /\ UNCHANGED pongBuffer
  <2>1. IInv /\ {m.chan} \subseteq Channels /\ m.type \in Events
    BY <1>0, <1>4, InboundFacts DEF ConnectorInv
  <2> DEFINE fs == FramesOn({m.chan}, m.type)
  <2>2. PICK frames \in Orders(fs) : writeQueue' = writeQueue \o frames
    BY <1>4
  <2>3. fs \subseteq Requests /\ IsFiniteSet(fs)
    <3> HIDE DEF m
    <3> QED
      BY <2>1, FramesOnFacts
  <2> HIDE DEF fs
  <2>4. frames \in Seq(Requests)
    BY <2>3, OrdersFacts
  <2>5. onDrop' \in BOOLEAN /\ (onDrop' => onDrop) /\ sock' \in {"open", "closed"}
    BY <1>0, <1>4 DEF DropIf, ControlTypes
  <2> QED
    BY <1>0, <1>4, <2>2, <2>4, <2>5 DEF ControlTypes
<1> QED
  BY <1>2, <1>3, <1>4 DEF ReadFrame

LEMMA ReaderKeepsConnInv == ConnectorInv /\ ReaderTask => ConnInv'
<1> SUFFICES ASSUME ConnectorInv, ReaderTask PROVE ConnInv'
  OBVIOUS
<1>0. /\ ConnInv /\ ConnectorTypes /\ ControlTypes /\ FrameTypes
      /\ NothingBetweenSessions /\ NoStaleFrames /\ LoginNext /\ LoginLeads /\ OnePingAtATime
  BY DEF ConnectorInv, ConnInv, ConnectorTypes
<1>1. /\ phase = "session" /\ reader = "reading"
      /\ reader' \in {"reading", "done", "threw"}
      /\ UNCHANGED <<phase, stopping, writer, inHand, pinger, srv, faults>>
  BY <1>0 DEF ReaderTask, ReadFrame, ReadError, network, NothingBetweenSessions
<1>2. NothingBetweenSessions'
  BY <1>1 DEF NothingBetweenSessions
<1>3. CASE ReadFrame
  <2>1. PICK fs \in Seq(Requests) :
          /\ writeQueue' = writeQueue \o fs
          /\ inbound # <<>> /\ inbound' = Tail(inbound)
          /\ onDrop' \in BOOLEAN /\ (onDrop' => onDrop)
          /\ sock' \in {"open", "closed"}
          /\ pongBuffer' \in BOOLEAN
          /\ pongBuffer' => pongBuffer \/ Head(inbound).type = "pong"
    BY <1>3, ReadFrameFacts
  <2>2. /\ fs \in Seq(SoundFrames)
        /\ \A i \in DOMAIN fs : ~fs[i].stale /\ fs[i] \notin PingFrames
    <3>1. Requests \subseteq SoundFrames /\ \A f \in Requests : ~f.stale /\ f \notin PingFrames
      BY DEF Requests, PingFrames, Ops
    <3> QED
      BY <3>1, SeqMonotonic
  <2>3. /\ writeQueue' \in Seq(SoundFrames)
        /\ phase = "session" => \A i \in DOMAIN writeQueue' : ~writeQueue'[i].stale
        /\ writeQueue # <<>> => writeQueue' # <<>> /\ writeQueue'[1] = writeQueue[1]
    BY <1>0, <2>1, <2>2, BehindTheOthers
  <2>4. Head(inbound) \in Inbound /\ Tail(inbound) \in Seq(Inbound)
    BY <1>0, <2>1, InboundFacts
  <2>5. ControlTypes' /\ FrameTypes'
    <3>1. ControlTypes'
      BY <1>0, <1>1, <2>1 DEF ControlTypes
    <3> QED
      BY <1>0, <1>1, <2>1, <2>3, <2>4, <3>1 DEF FrameTypes
  <2>6. NoStaleFrames' /\ LoginNext' /\ LoginLeads'
    BY <1>0, <1>1, <2>3 DEF NoStaleFrames, LoginNext, LoginLeads
  <2>7. OnePingAtATime'
    <3>1. Count(writeQueue', PingFrames) = Count(writeQueue, PingFrames)
      BY <1>0, <2>1, <2>2, CountConcat DEF FrameTypes
    <3>2. Count(inbound', PongFrames)
            = Count(inbound, PongFrames) - (IF Head(inbound).type = "pong" THEN 1 ELSE 0)
      <4>1. Head(inbound) \in PongFrames <=> Head(inbound).type = "pong"
        BY <2>4 DEF PongFrames
      <4> QED
        BY <1>0, <2>1, <4>1, CountTail DEF FrameTypes
    <3>3. /\ Count(writeQueue, PingFrames) \in Nat /\ Count(inbound, PongFrames) \in Nat
      BY <1>0, PlacesFinite DEF FrameTypes
    <3>4. Pings' <= Pings /\ Pings' \in Int /\ Pings \in Int
      BY <1>0, <1>1, <2>1, <2>5, <3>1, <3>2, <3>3, PingsNow DEF PingCount, ConnectorTypes
    <3>5. ~Cancelled' => ~Cancelled
      BY <1>1 DEF Cancelled
    <3> QED
      BY <1>0, <1>1, <3>4, <3>5 DEF OnePingAtATime
  <2> QED
    BY <1>2, <2>5, <2>6, <2>7 DEF ConnInv, ConnectorTypes
<1>4. CASE ReadError
  <2>1. /\ sock' = "closed" /\ onDrop' \in BOOLEAN /\ (onDrop' => onDrop)
        /\ UNCHANGED <<inbound, pongBuffer, writeQueue>>
    BY <1>0, <1>4 DEF ReadError, network, ControlTypes
  <2>2. ControlTypes' /\ FrameTypes'
    BY <1>0, <1>1, <2>1 DEF ControlTypes, FrameTypes
  <2>3. NoStaleFrames' /\ LoginNext' /\ LoginLeads'
    BY <1>0, <1>1, <2>1 DEF NoStaleFrames, LoginNext, LoginLeads
  <2>4. OnePingAtATime'
    BY <1>0, <1>1, <2>1, <2>2, PingsNow DEF PingCount, ConnectorTypes, OnePingAtATime, Cancelled
  <2> QED
    BY <1>2, <2>2, <2>3, <2>4 DEF ConnInv, ConnectorTypes
<1> QED
  BY <1>3, <1>4 DEF ReaderTask

LEMMA PingerKeepsConnInv == ConnectorInv /\ PingerTask => ConnInv'
<1> SUFFICES ASSUME ConnectorInv, PingerTask PROVE ConnInv'
  OBVIOUS
<1>0. /\ ConnInv /\ ConnectorTypes /\ ControlTypes /\ FrameTypes
      /\ NothingBetweenSessions /\ NoStaleFrames /\ LoginNext /\ LoginLeads /\ OnePingAtATime
  BY DEF ConnectorInv, ConnInv, ConnectorTypes
<1>1. /\ phase = "session" /\ pinger \in {"waitNext", "waitPong"}
      /\ UNCHANGED <<phase, stopping, onDrop, sock, inbound, srv, reader, writer, inHand, faults>>
      /\ Cancelled' = Cancelled
  BY <1>0 DEF PingerTask, PushPing, PongArrives, PongTimeout, network, NothingBetweenSessions,
              Cancelled
<1>2. NothingBetweenSessions'
  BY <1>0, <1>1 DEF NothingBetweenSessions
<1>3. /\ Count(writeQueue, PingFrames) \in Nat /\ Count(inbound, PongFrames) \in Nat
      /\ PingerCancelled => Cancelled
  BY <1>0, PlacesFinite DEF FrameTypes, PingerCancelled, Cancelled
<1>4. CASE PushPing
  <2> DEFINE ping == Frame("ping", None)
  <2>1. /\ pinger = "waitNext" /\ pinger' = (IF PingerCancelled THEN "done" ELSE "waitPong")
        /\ writeQueue' = Append(writeQueue, ping) /\ UNCHANGED pongBuffer
    BY <1>4 DEF PushPing
  <2>2. ping \in SoundFrames /\ ~ping.stale /\ ping \in PingFrames
    BY FrameFacts DEF Frame, PingFrames
  <2> HIDE DEF ping
  <2>3. writeQueue' = writeQueue \o <<ping>> /\ <<ping>> \in Seq(SoundFrames)
        /\ \A i \in DOMAIN <<ping>> : <<ping>>[i] = ping
    BY <1>0, <2>1, <2>2, AppendIsConcat DEF FrameTypes
  <2>4. /\ writeQueue' \in Seq(SoundFrames)
        /\ phase = "session" => \A i \in DOMAIN writeQueue' : ~writeQueue'[i].stale
        /\ writeQueue # <<>> => writeQueue' # <<>> /\ writeQueue'[1] = writeQueue[1]
    BY <1>0, <2>2, <2>3, BehindTheOthers
  <2>5. ControlTypes' /\ FrameTypes'
    <3>1. ControlTypes'
      BY <1>0, <1>1, <2>1 DEF ControlTypes
    <3> QED
      BY <1>0, <1>1, <2>4, <3>1 DEF FrameTypes
  <2>6. NoStaleFrames' /\ LoginNext' /\ LoginLeads'
    BY <1>0, <1>1, <2>4 DEF NoStaleFrames, LoginNext, LoginLeads
  <2>7. OnePingAtATime'
    <3>1. Count(writeQueue', PingFrames) = Count(writeQueue, PingFrames) + 1
      BY <1>0, <2>1, <2>2, CountAppend DEF FrameTypes
    <3>2. Pings' = Pings + 1 /\ Pings \in Nat
      BY <1>0, <1>1, <1>3, <2>1, <2>5, <3>1, PingsNow DEF PingCount, ConnectorTypes
    <3> QED
      BY <1>0, <1>1, <1>3, <2>1, <3>2 DEF OnePingAtATime
  <2> QED
    BY <1>2, <2>5, <2>6, <2>7 DEF ConnInv, ConnectorTypes
<1>5. CASE PongArrives \/ PongTimeout
  <2>1. /\ pinger = "waitPong" /\ UNCHANGED writeQueue
        /\ pongBuffer' \in BOOLEAN
        /\ \/ pinger' = "done" /\ (pongBuffer' => pongBuffer)
           \/ pinger' = "waitNext" /\ pongBuffer /\ ~pongBuffer'
    <3>1. CASE PongArrives
      BY <3>1 DEF PongArrives
    <3>2. CASE PongTimeout
      BY <1>0, <3>2 DEF PongTimeout, ControlTypes
    <3> QED
      BY <1>5, <3>1, <3>2
  <2>2. ControlTypes' /\ FrameTypes'
    <3>1. ControlTypes'
      BY <1>0, <1>1, <2>1 DEF ControlTypes
    <3> QED
      BY <1>0, <1>1, <2>1, <3>1 DEF FrameTypes
  <2>3. NoStaleFrames' /\ LoginNext' /\ LoginLeads'
    BY <1>0, <1>1, <2>1 DEF NoStaleFrames, LoginNext, LoginLeads
  <2>4. OnePingAtATime'
    <3>1. /\ Pings \in Nat
          /\ Pings' = Pings - (IF pongBuffer /\ ~pongBuffer' THEN 1 ELSE 0)
                            + (IF ~pongBuffer /\ pongBuffer' THEN 1 ELSE 0)
      BY <1>0, <1>1, <1>3, <2>1, <2>2, PingsNow DEF PingCount, ConnectorTypes
    <3> QED
      BY <1>0, <1>1, <2>1, <3>1 DEF OnePingAtATime
  <2> QED
    BY <1>2, <2>2, <2>3, <2>4 DEF ConnInv, ConnectorTypes
<1> QED
  BY <1>4, <1>5 DEF PingerTask

\* The stop signal, the application, the network and the server.
LEMMA OutsideKeepsConnInv ==
  ConnectorInv /\ (StopConnector \/ UserDrop \/ ServerData \/ ServerFault \/ NetworkFail \/ PeerCloses)
    => ConnInv'
<1> SUFFICES ASSUME ConnectorInv,
                    StopConnector \/ UserDrop \/ ServerData \/ ServerFault \/ NetworkFail \/ PeerCloses
             PROVE  ConnInv'
  OBVIOUS
<1>0. /\ ConnInv /\ ConnectorTypes /\ ControlTypes /\ FrameTypes
      /\ NothingBetweenSessions /\ NoStaleFrames /\ LoginNext /\ LoginLeads /\ OnePingAtATime
  BY DEF ConnectorInv, ConnInv, ConnectorTypes
<1>1. UNCHANGED <<phase, reader, writer, inHand, pinger, pongBuffer, writeQueue, srv>>
  BY DEF StopConnector, UserDrop, ServerData, ServerFault, NetworkFail, PeerCloses, Environment, session, network
<1>2. /\ faults' \in 0 .. MaxFaults
      /\ stopping' \in BOOLEAN /\ (stopping => stopping')
  BY <1>0, FaultFacts DEF StopConnector, UserDrop, ServerData, ServerFault, NetworkFail, PeerCloses,
                          Environment, ControlTypes
<1>3. /\ onDrop' \in BOOLEAN /\ (onDrop' => onDrop)
      /\ sock' \in {"open", "closed"} /\ (phase # "session" => sock' = "closed" /\ inbound' = <<>>)
  <2>1. onDrop' \in BOOLEAN /\ (onDrop' => onDrop)
    <3>1. CASE UserDrop
      BY <3>1 DEF UserDrop
    <3>2. CASE StopConnector \/ ServerData \/ ServerFault \/ NetworkFail \/ PeerCloses
      <4>1. UNCHANGED onDrop
        BY <3>2 DEF StopConnector, ServerData, ServerFault, NetworkFail, PeerCloses, Environment
      <4> QED
        BY <1>0, <4>1 DEF ControlTypes
    <3> QED
      BY <3>1, <3>2
  <2>2. sock' = sock \/ sock' = "closed"
    BY DEF StopConnector, UserDrop, ServerData, ServerFault, NetworkFail, PeerCloses, network
  <2>3. phase = "session" \/ UNCHANGED inbound
    BY DEF StopConnector, UserDrop, ServerData, ServerFault, NetworkFail, PeerCloses, network
  <2>4. sock \in {"open", "closed"} /\ (phase # "session" => sock = "closed" /\ inbound = <<>>)
    BY <1>0 DEF ControlTypes, NothingBetweenSessions
  <2> QED
    BY <2>1, <2>2, <2>3, <2>4
<1>4. /\ inbound' \in Seq(Inbound)
      /\ Count(inbound', PongFrames) = Count(inbound, PongFrames)
  <2>1. CASE UNCHANGED inbound
    BY <1>0, <2>1 DEF FrameTypes
  <2>2. CASE \E m \in Inbound : inbound' = Append(inbound, m) /\ m \notin PongFrames
    <3>1. PICK m \in Inbound : inbound' = Append(inbound, m) /\ m \notin PongFrames
      BY <2>2
    <3>2. Count(inbound, PongFrames) \in Nat /\ inbound \in Seq(Inbound)
      BY <1>0, PlacesFinite DEF FrameTypes
    <3> QED
      BY <3>1, <3>2, CountAppend
  <2>3. srv.channels \subseteq Channels
    BY <1>0 DEF FrameTypes, ServerStates
  <2>4. /\ \A c \in Channels, t \in {"data", "restart", "error"} :
             /\ [type |-> t, chan |-> c] \in Inbound
             /\ [type |-> t, chan |-> c] \notin PongFrames
        /\ [type |-> "garbled", chan |-> None] \in Inbound
        /\ [type |-> "garbled", chan |-> None] \notin PongFrames
    BY DEF Inbound, PongFrames, Responses
  <2>5. CASE ServerData \/ ServerFault
    BY <2>2, <2>3, <2>4, <2>5 DEF ServerData, ServerFault, Environment
  <2>6. CASE StopConnector \/ UserDrop \/ NetworkFail \/ PeerCloses
    BY <2>1, <2>6 DEF StopConnector, UserDrop, NetworkFail, PeerCloses, Environment, network
  <2> QED
    BY <2>5, <2>6
<1>5. ConnectorTypes' /\ NothingBetweenSessions'
  <2>1. ControlTypes' /\ NothingBetweenSessions'
    BY <1>0, <1>1, <1>2, <1>3 DEF ControlTypes, NothingBetweenSessions
  <2>2. FrameTypes'
    BY <1>0, <1>1, <1>4 DEF FrameTypes
  <2> QED
    BY <2>1, <2>2 DEF ConnectorTypes
<1>6. NoStaleFrames' /\ LoginNext' /\ LoginLeads'
  BY <1>0, <1>1 DEF NoStaleFrames, LoginNext, LoginLeads
<1>7. OnePingAtATime'
  <2>1. Pings' = Pings
    BY <1>0, <1>1, <1>4, <1>5, PingsNow DEF PingCount
  <2> QED
    BY <1>0, <1>1, <1>2, <2>1 DEF OnePingAtATime, Cancelled
<1> QED
  BY <1>5, <1>6, <1>7 DEF ConnInv

\* Every step of the connector keeps its invariant.
LEMMA ConnectorStepKeeps == ConnectorInv /\ [ConnectorNext]_allVars => ConnectorInv'
<1> SUFFICES ASSUME ConnectorInv, [ConnectorNext]_allVars PROVE ConnectorInv'
  OBVIOUS
<1>0. IInv /\ ConnInv /\ ConnectorTypes
  BY DEF ConnectorInv, ConnInv
<1>1. IInv'
  BY <1>0, SubscriptionsStep, StepIInv
<1>2. UNCHANGED cvars => ConnInv'
  BY <1>0 DEF cvars, ConnInv, ConnectorTypes, ControlTypes, FrameTypes, NothingBetweenSessions,
              NoStaleFrames, LoginNext, LoginLeads, OnePingAtATime, Pings, Cancelled
<1>3. ASSUME NEW s \in Subs,
             CreateSubscription(s) \/ StopSubscription(s) \/ SubscriptionTask(s)
      PROVE  ConnInv'
  <2>1. CASE CreateSubscription(s) \/ StopSubscription(s) \/ RunStopWhileWaiting(s)
    BY <1>2, <2>1 DEF CreateSubscription, StopSubscription, RunStopWhileWaiting
  <2>2. CASE RunStart(s)
    <3>1. StartSegment(s).sends \in Seq(Ops) /\ SubscriptionRuns(s, StartSegment(s))
      BY <1>0, <2>2, SegmentShapes DEF RunStart, Start, Shape
    <3> QED
      BY <3>1, RunKeepsConnInv
  <2>3. CASE RunWake(s)
    <3>1. WakeSegment(s).sends \in Seq(Ops) /\ SubscriptionRuns(s, WakeSegment(s))
      BY <1>0, <2>3, SegmentShapes DEF RunWake, Wake, Woken, Shape
    <3> QED
      BY <3>1, RunKeepsConnInv
  <2>4. CASE RunStopSeen(s)
    <3>1. StopSegment(s).sends \in Seq(Ops) /\ SubscriptionRuns(s, StopSegment(s))
      BY <1>0, <2>4, SegmentShapes DEF RunStopSeen, StopSeen, Shape
    <3> QED
      BY <3>1, RunKeepsConnInv
  <2>5. CASE RunDrained(s)
    <3>1. DrainedSegment(s).sends \in Seq(Ops) /\ SubscriptionRuns(s, DrainedSegment(s))
      BY <1>0, <2>5, SegmentShapes DEF RunDrained, Drained, Shape
    <3> QED
      BY <3>1, RunKeepsConnInv
  <2> QED
    BY <1>3, <2>1, <2>2, <2>3, <2>4, <2>5 DEF SubscriptionTask
<1>4. ConnInv'
  <2>1. CASE UNCHANGED allVars
    BY <1>2, <2>1 DEF allVars
  <2>2. CASE MainTask \/ WriterTask \/ ReaderTask \/ PingerTask
    BY <2>2, MainKeepsConnInv, WriterKeepsConnInv, ReaderKeepsConnInv, PingerKeepsConnInv
  <2>3. CASE StopConnector \/ UserDrop \/ ServerData \/ ServerFault \/ NetworkFail \/ PeerCloses
    BY <2>3, OutsideKeepsConnInv
  <2> QED
    BY <1>3, <2>1, <2>2, <2>3 DEF ConnectorNext
<1> QED
  BY <1>1, <1>4 DEF ConnectorInv

LEMMA ConnectorInvariance == ConnectorSpec => []ConnectorInv
<1>1. ConnectorInit => ConnectorInv
  BY InitConnInv, InitIInv DEF ConnectorInit, ConnectorInv
<1> QED
  BY <1>1, ConnectorStepKeeps, PTL DEF ConnectorSpec

----------------------------------------------------------------------------
(* The theorems.                                                           *)

\* Every variable keeps its type.
THEOREM ConnectorTypeCorrect == ConnectorSpec => []ConnectorTypeOK
<1>1. ConnectorInv => ConnectorTypeOK
  <2> SUFFICES ASSUME ConnectorInv PROVE ConnectorTypeOK
    OBVIOUS
  <2>1. TypeOK /\ ControlTypes /\ FrameTypes
    BY DEF ConnectorInv, IInv, ConnInv, ConnectorTypes
  <2>2. inHand \in Seq(Frames) /\ writeQueue \in Seq(Frames)
    BY <2>1, SoundFramesAreFrames, SeqMonotonic DEF FrameTypes
  <2> QED
    BY <2>1, <2>2 DEF ControlTypes, FrameTypes, ServerStates, ConnectorTypeOK
<1> QED
  BY <1>1, ConnectorInvariance, PTL

\* A frame queued in an earlier session, or between two, is never written: the
\* clearing of write_queue_ in reconnect().
THEOREM OldFramesDropped == ConnectorSpec => []NoStaleFrames
<1>1. ConnectorInv => NoStaleFrames
  BY DEF ConnectorInv, ConnInv
<1> QED
  BY <1>1, ConnectorInvariance, PTL

\* The login is written before the requests that announcing the connection
\* queues and before the first ping, however the tasks of a session interleave.
THEOREM LoginIsFirst == ConnectorSpec => []LoginLeads
<1>1. ConnectorInv => LoginLeads
  BY DEF ConnectorInv, ConnInv
<1> QED
  BY <1>1, ConnectorInvariance, PTL

\* Of a session's pings at most one is under way, whatever is lost or late.
THEOREM PingsDoNotPileUp == ConnectorSpec => []OnePingAtATime
<1>1. ConnectorInv => OnePingAtATime
  BY DEF ConnectorInv, ConnInv
<1> QED
  BY <1>1, ConnectorInvariance, PTL

\* The connector's actions are built from those of ChannelSubscriptions, so what
\* is proved of the subscriptions may be used for those of a connector.
LEMMA SubscriptionsOfConnector == ConnectorSpec => Spec
<1>1. ConnectorInit => Init
  BY DEF ConnectorInit
<1>2. ConnectorInv /\ [ConnectorNext]_allVars => [Next]_vars
  BY SubscriptionsStep DEF ConnectorInv, ConnInv
<1> QED
  BY <1>1, <1>2, ConnectorInvariance, PTL DEF ConnectorSpec, Spec

----------------------------------------------------------------------------
(* The connector implements Connection.                                    *)

\* Every step of the connector is one of Connection's, or changes nothing of it.
LEMMA LinkStep ==
  ConnectorInv /\ [ConnectorNext]_allVars => [Link!ConnectionNext]_(Link!connectionVars)
<1> SUFFICES ASSUME ConnectorInv, [ConnectorNext]_allVars
             PROVE  Link!ConnectionNext \/ UNCHANGED <<phase, stopping, onDrop, sock>>
  BY DEF Link!connectionVars
<1> USE DEF Link!ConnectionNext
<1>0. ControlTypes /\ NothingBetweenSessions
  BY DEF ConnectorInv, ConnInv, ConnectorTypes
<1>1. ASSUME NEW s \in Subs,
             CreateSubscription(s) \/ StopSubscription(s) \/ SubscriptionTask(s)
      PROVE  UNCHANGED <<phase, stopping, onDrop, sock>>
  BY <1>1 DEF CreateSubscription, StopSubscription, SubscriptionTask, RunStart, RunWake,
              RunStopWhileWaiting, RunStopSeen, RunDrained, SubscriptionRuns, cvars, network
<1>2. CASE Reconnect
  BY <1>2 DEF Reconnect, network, Link!Attempt
<1>3. CASE Connected \/ ConnectFail
  <2>1. /\ phase = "connecting" /\ UNCHANGED stopping
        /\ phase' = "session" \/ (stopping /\ phase' = "stopped")
        /\ sock' = "closed" \/ (~stopping /\ sock' = "open")
    BY <1>3 DEF Connected, ConnectFail, Announce, Fork
  <2>2. \E dropped \in BOOLEAN : onDrop' = (onDrop /\ ~dropped)
    <3>1. onDrop' = (onDrop /\ ~(stopping \/ DropsOn(Channels, "up")))
      BY <1>3 DEF Connected, ConnectFail, Announce
    <3> QED
      BY <3>1
  <2>3. onDrop' = onDrop \/ onDrop' = FALSE
    BY <1>0, <2>2 DEF ControlTypes
  <2> QED
    BY <2>1, <2>3 DEF Link!Arrive
<1>4. CASE GroupDone
  BY <1>4 DEF GroupDone, TearDown, Link!End
<1>5. CASE StoppedInDelay
  BY <1>5 DEF StoppedInDelay, network, Link!Cease
<1>6. CASE WriterTask
  BY <1>6 DEF WriterTask, WriterTake, WriterSent, WriterIgnored, Written, WriterError,
              WriterCancelled, network
<1>7. CASE ReaderTask
  <2>1. phase = "session" /\ UNCHANGED <<phase, stopping>>
    BY <1>0, <1>7 DEF ReaderTask, ReadFrame, ReadError, NothingBetweenSessions
  <2>2. ASSUME NEW c, NEW e, DropIf(DropsOn({c}, e))
        PROVE  Link!Drop \/ UNCHANGED <<onDrop, sock>>
    <3>1. CASE onDrop /\ DropsOn({c}, e)
      BY <2>1, <2>2, <3>1 DEF DropIf, Link!Drop
    <3>2. CASE ~onDrop
      BY <1>0, <2>2, <3>2 DEF DropIf, ControlTypes
    <3>3. CASE ~DropsOn({c}, e)
      BY <1>0, <2>2, <3>3 DEF DropIf, ControlTypes
    <3> QED
      BY <3>1, <3>2, <3>3
  <2>3. CASE ReadFrame
    BY <2>1, <2>2, <2>3 DEF ReadFrame, Link!Break
  <2>4. CASE ReadError
    <3>1. sock' = "closed" /\ onDrop' = (onDrop /\ ~DropsOn(Channels, "down"))
      BY <2>4 DEF ReadError, network
    <3>2. CASE onDrop /\ DropsOn(Channels, "down")
      BY <2>1, <3>1, <3>2 DEF Link!Drop
    <3>3. CASE ~(onDrop /\ DropsOn(Channels, "down"))
      <4>1. UNCHANGED onDrop
        BY <1>0, <3>1, <3>3 DEF ControlTypes
      <4> QED
        BY <2>1, <3>1, <4>1 DEF Link!Break
    <3> QED
      BY <3>2, <3>3
  <2> QED
    BY <1>7, <2>3, <2>4 DEF ReaderTask
<1>8. CASE PingerTask
  BY <1>8 DEF PingerTask, PushPing, PongArrives, PongTimeout, network
<1>9. CASE StopConnector
  BY <1>9 DEF StopConnector, network, Link!Stop
<1>10. CASE UserDrop
  BY <1>10 DEF UserDrop, Link!Drop
<1>11. CASE ServerData \/ ServerFault
  BY <1>11 DEF ServerData, ServerFault, Environment
<1>12. CASE NetworkFail \/ PeerCloses
  BY <1>12 DEF NetworkFail, PeerCloses, Environment, Link!Break
<1>13. CASE UNCHANGED allVars
  BY <1>13 DEF allVars, cvars
<1> QED
  BY <1>1, <1>2, <1>3, <1>4, <1>5, <1>6, <1>7, <1>8, <1>9, <1>10, <1>11, <1>12, <1>13
     DEF ConnectorNext, MainTask

\* Whatever the tasks of a session and the subscriptions do, there is one
\* connection at a time, again and again until the stop (reconnect(), drop()).
THEOREM ConnectionImplemented == ConnectorSpec => ImplementsConnection
<1>1. ConnectorInit => Link!ConnectionInit
  BY DEF ConnectorInit, Link!ConnectionInit
<1>2. ConnectorInv /\ [ConnectorNext]_allVars => [Link!ConnectionNext]_(Link!connectionVars)
  BY LinkStep
<1> QED
  BY <1>1, <1>2, ConnectorInvariance, PTL DEF ConnectorSpec, ImplementsConnection,
     Link!ConnectionSpec
=============================================================================
