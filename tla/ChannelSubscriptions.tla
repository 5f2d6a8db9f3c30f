------------------------ MODULE ChannelSubscriptions ------------------------
(***************************************************************************)
(* The consumers of one websocket connector: the run() coroutine of every  *)
(* upstream_subscription_impl, the channel_states_ map through which the   *)
(* coroutines take turns on a channel, and the way the connector posts     *)
(* channel events to the consumer that holds a channel.                    *)
(*                                                                         *)
(* An action is one handler the executor runs: a piece of a coroutine from *)
(* one suspension to the next.  The order in which ready handlers run is   *)
(* left open.  The connector and the server are the environment here: any  *)
(* event may come at any time.  FtxConnector puts the real ones in place.  *)
(***************************************************************************)
EXTENDS SubscriptionMachine, Integers, FiniteSets

CONSTANTS Subs,      \* the subscription objects
          Channels,  \* the (channel, market) pairs
          Topic,     \* the channel each subscription asks for
          None       \* the on_event of a channel nobody has ever acquired

ASSUME SubsAssumption  == IsFiniteSet(Subs) /\ None \notin Subs
ASSUME TopicAssumption == Topic \in [Subs -> Channels]

VARIABLES
  pc,            \* where each run() is suspended
  stopLatch,     \* stop_latch_ of each subscription
  sm,            \* the state_machine in the frame of each run()
  chan,          \* channel_states_
  connUp,        \* connection_state_ = up
  failedAsserts  \* the assert()s that have failed so far (a history variable)

vars == <<pc, stopLatch, sm, chan, connUp, failedAsserts>>

\* "abandoned" is a run() that was stopped while it waited for its channel.
PCs == {"new", "spawned", "waiting", "holding", "draining", "done", "abandoned"}

Asserts == {"acquired", "interest", "closed"}

\* cv lists the waits that are pending on the channel's timer, oldest first.
ChannelStates == [interest : Int, acquired : BOOLEAN,
                  on_event : Subs \cup {None}, cv : Seq(Subs)]

\* A channel with no interest is not in the map.
Absent == [interest |-> 0, acquired |-> FALSE, on_event |-> None, cv |-> <<>>]

\* cv.cancel_one() has fired for s, and its run() has not resumed yet.
Woken(s) == pc[s] = "waiting" /\ \A i \in DOMAIN chan[Topic[s]].cv :
                                    chan[Topic[s]].cv[i] # s

----------------------------------------------------------------------------
(* The channel map.                                                        *)

\* An interest that is only counted when the state is made.
LocatedOnce(ch) == [ch EXCEPT !.interest = 1]

Located(ch) == [ch EXCEPT !.interest = @ + 1]

AcquiredBy(s, ch) == [ch EXCEPT !.acquired = TRUE, !.on_event = s]

WaitedOnBy(s, ch) == [ch EXCEPT !.cv = Append(@, s)]

CancelOne(ch) == [ch EXCEPT !.cv = IF @ = <<>> THEN @ ELSE Tail(@)]

\* The wait of s, pending or already over, goes with its coroutine.
WithoutWaiter(s, ch) ==
  [ch EXCEPT !.cv = IF \E i \in DOMAIN @ : @[i] = s
                      THEN LET i == CHOOSE i \in DOMAIN @ : @[i] = s
                           IN  SubSeq(@, 1, i - 1) \o SubSeq(@, i + 1, Len(@))
                      ELSE @]

\* Releases with a plausible bug: no waiter is woken, the channel stays acquired.
ReleasedWakingNobody(ch) ==
  IF ch.interest = 1 THEN Absent
  ELSE [ch EXCEPT !.acquired = FALSE, !.interest = @ - 1]

ReleasedStillAcquired(ch) ==
  IF ch.interest = 1 THEN Absent
  ELSE CancelOne([ch EXCEPT !.interest = @ - 1])

\* With no interest left the state is erased; otherwise one waiter is woken.
Released(ch) ==
  IF ch.interest = 1 THEN Absent
  ELSE CancelOne([ch EXCEPT !.acquired = FALSE, !.interest = @ - 1])

ReleaseAsserts(ch) == (IF ch.acquired THEN {} ELSE {"acquired"})
                        \cup (IF ch.interest # 0 THEN {} ELSE {"interest"})

----------------------------------------------------------------------------
(* run(), from one suspension to the next.  A segment is what the          *)
(* coroutine leaves behind: where it stopped, its machine, its channel,    *)
(* the frames it sent and the assertions that failed on the way.           *)

\* Line 100 on: with the closed latch set the channel is released at once.
AwaitClosed(r, ch) ==
  IF r.sm.state = "closed"
    THEN [pc |-> "done", sm |-> FreshMachine, chan |-> Released(ch),
          sends |-> r.sends, fails |-> ReleaseAsserts(ch)]
    ELSE [pc |-> "draining", sm |-> r.sm, chan |-> ch,
          sends |-> r.sends, fails |-> {}]

\* A subscription that only looks for the connection when an event comes.
AcquireWithoutCheckingUp(s, ch) ==
  LET held == AcquiredBy(s, ch)
  IN  IF stopLatch[s]
        THEN AwaitClosed(Close(FreshMachine), held)
        ELSE [pc |-> "holding", sm |-> FreshMachine, chan |-> held,
              sends |-> <<>>, fails |-> {}]

\* Lines 90 to 97: stop_latch_.wait() does not suspend if the latch is set.
Acquire(s, ch) ==
  LET held  == AcquiredBy(s, ch)
      begun == IF connUp THEN ProcessEvent(FreshMachine, "up")
                         ELSE Stay(FreshMachine)
      ended == Close(begun.sm)
  IN  IF stopLatch[s]
        THEN AwaitClosed([ended EXCEPT !.sends = begun.sends \o @], held)
        ELSE [pc |-> "holding", sm |-> begun.sm, chan |-> held,
              sends |-> begun.sends, fails |-> {}]

\* The loop condition, tested once: a coroutine that has waited goes on.
StartSegment(s) ==
  LET ch == Located(chan[Topic[s]])
  IN  IF ch.acquired
        THEN [pc |-> "waiting", sm |-> FreshMachine, chan |-> WaitedOnBy(s, ch),
              sends |-> <<>>, fails |-> {}]
        ELSE Acquire(s, ch)

WakeSegment(s) == Acquire(s, chan[Topic[s]])

StopSegment(s) == AwaitClosed(Close(sm[s]), chan[Topic[s]])

DrainedSegment(s) == AwaitClosed(Stay(sm[s]), chan[Topic[s]])

RunTo(s, seg) ==
  /\ pc'   = [pc EXCEPT ![s] = seg.pc]
  /\ sm'   = [sm EXCEPT ![s] = seg.sm]
  /\ chan' = [chan EXCEPT ![Topic[s]] = seg.chan]
  /\ failedAsserts' = failedAsserts \cup seg.fails
  /\ UNCHANGED <<stopLatch, connUp>>

----------------------------------------------------------------------------
(* The application and the coroutines.                                     *)

\* The application makes the subscription: run() is spawned.
Create(s) ==
  /\ pc[s] = "new"
  /\ pc' = [pc EXCEPT ![s] = "spawned"]
  /\ UNCHANGED <<stopLatch, sm, chan, connUp, failedAsserts>>

\* The application lets go of it: stop() sets the latch, once.
Stop(s) ==
  /\ pc[s] # "new"
  /\ ~stopLatch[s]
  /\ stopLatch' = [stopLatch EXCEPT ![s] = TRUE]
  /\ UNCHANGED <<pc, sm, chan, connUp, failedAsserts>>

Start(s) == pc[s] = "spawned" /\ RunTo(s, StartSegment(s))

Wake(s) == Woken(s) /\ RunTo(s, WakeSegment(s))

\* The stop latch wins the race in line 76.  The cv wait may have been
\* cancelled by release_channel already: that wake-up dies with this run().
StopWhileWaiting(s) ==
  /\ pc[s] = "waiting"
  /\ stopLatch[s]
  /\ pc'   = [pc EXCEPT ![s] = "abandoned"]
  /\ chan' = [chan EXCEPT ![Topic[s]] = WithoutWaiter(s, @)]
  /\ UNCHANGED <<stopLatch, sm, connUp, failedAsserts>>

StopSeen(s) == pc[s] = "holding" /\ stopLatch[s] /\ RunTo(s, StopSegment(s))

Drained(s) == /\ pc[s] = "draining"
              /\ sm[s].state = "closed"
              /\ RunTo(s, DrainedSegment(s))

----------------------------------------------------------------------------
(* Events from the connector.                                              *)

\* The subscriptions whose on_event is called when the channels in cs are
\* notified: the one that acquired each channel last.
Listeners(cs) == {chan[c].on_event : c \in {d \in cs : chan[d].acquired}}

Notify(cs, e) ==
  /\ sm' = [s \in Subs |-> IF s \in Listeners(cs) THEN ProcessEvent(sm[s], e).sm
                                                  ELSE sm[s]]
  /\ failedAsserts' = failedAsserts \cup
       (IF \E s \in Listeners(cs) : sm[s].state = "closed" THEN {"closed"} ELSE {})
  /\ UNCHANGED <<pc, stopLatch, chan>>

\* notify_connection_state(up)
ConnectionUp == connUp' = TRUE /\ Notify(Channels, "up")

\* read_state after a read error: connection_state_ is not touched.
ReaderDown == Notify(Channels, "down") /\ UNCHANGED connUp

\* read_state with a frame for channel c
Response(c, e) == Notify({c}, e) /\ UNCHANGED connUp

----------------------------------------------------------------------------

Init ==
  /\ pc = [s \in Subs |-> "new"]
  /\ stopLatch = [s \in Subs |-> FALSE]
  /\ sm = [s \in Subs |-> FreshMachine]
  /\ chan = [c \in Channels |-> Absent]
  /\ connUp = FALSE
  /\ failedAsserts = {}

SubscriptionStep(s) == \/ Create(s) \/ Stop(s) \/ Start(s) \/ Wake(s)
                       \/ StopWhileWaiting(s) \/ StopSeen(s) \/ Drained(s)

Next == \/ \E s \in Subs : SubscriptionStep(s)
        \/ ConnectionUp
        \/ ReaderDown
        \/ \E c \in Channels, e \in Responses : Response(c, e)

Spec == Init /\ [][Next]_vars

----------------------------------------------------------------------------
(* Properties.                                                             *)

\* Every variable keeps its type.
TypeOK ==
  /\ pc \in [Subs -> PCs]
  /\ stopLatch \in [Subs -> BOOLEAN]
  /\ sm \in [Subs -> Machines]
  /\ chan \in [Channels -> ChannelStates]
  /\ connUp \in BOOLEAN
  /\ failedAsserts \subseteq Asserts

\* The coroutines that hold an iterator to the state of channel c.
Consumers(c) == {s \in Subs : Topic[s] = c /\ pc[s] \in {"waiting", "holding", "draining"}}

\* The state of a channel is never erased while a coroutine still has the
\* reference to it that it took in line 64 of run(): the interest counts all of
\* them, however they come, wait, are woken and release the channel.
InterestCovers == \A c \in Channels : chan[c].interest >= Cardinality(Consumers(c))

\* An event is only ever posted to a run() that is still suspended: on_event
\* captures a reference into the coroutine's frame, and outlives a release.
HandlerLive ==
  \A c \in Channels :
    chan[c].acquired => \E s \in Subs : /\ chan[c].on_event = s
                                       /\ Topic[s] = c
                                       /\ pc[s] \in {"holding", "draining"}

\* A free channel leaves its queue asleep only after a wake-up was spent on a
\* subscription that was stopped while it waited: the releases alone, whatever
\* the order in which newcomers and woken waiters run, lose no wake-up.
WakeLostOnlyToStop ==
  \A c \in Channels :
    ~chan[c].acquired /\ chan[c].cv # <<>> =>
      \E s \in Subs : Topic[s] = c /\ (Woken(s) \/ pc[s] = "abandoned")

\* Only a machine that was asked to close can be closing or closed, and it has
\* been asked exactly when its run() has passed the stop latch; a request made
\* while it was opening is not forgotten over drops and reconnections: as soon as
\* the server confirms it is closing, and never reported open again.
ClosingOnlyOnStop ==
  \A s \in Subs : /\ sm[s].close_requested <=> pc[s] = "draining"
                  /\ sm[s].close_requested => stopLatch[s] /\ sm[s].state # "open"
                  /\ sm[s].state \in {"closing", "closed"} => sm[s].close_requested

\* assert(state.interest): a release always finds an interest to give back.
ReleaseFindsInterest == "interest" \notin failedAsserts

\* assert(state.acquired): a release finds the channel acquired.  The code
\* violates it.
ReleaseFindsAcquired == "acquired" \notin failedAsserts

\* "The number of consumers interested in this producer": the code counts those
\* for ever that were stopped while they waited.
InterestIsConsumers == \A c \in Channels : chan[c].interest = Cardinality(Consumers(c))

\* "if there is remaining interest in this channel, unblock the next waiting
\* acquire operation": a free channel never leaves its queue asleep.
FreeChannelWakesWaiter ==
  \A c \in Channels :
    ~chan[c].acquired /\ chan[c].cv # <<>> => \E s \in Subs : Topic[s] = c /\ Woken(s)

=============================================================================
