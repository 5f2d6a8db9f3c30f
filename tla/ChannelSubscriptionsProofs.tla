-------------------- MODULE ChannelSubscriptionsProofs --------------------
(***************************************************************************)
(* Proofs, for any number of subscriptions and channels, of the invariants *)
(* of ChannelSubscriptions.                                                *)
(***************************************************************************)
EXTENDS ChannelSubscriptions, FiniteSetTheorems, SequenceTheorems, TLAPS

----------------------------------------------------------------------------
(* What the operators the model is built from return.                      *)

\* The handlers return a machine, at most one frame and the drop flag.
LEMMA OutcomeTypes ==
  ASSUME NEW m \in Machines, NEW e \in Events
  PROVE  /\ ProcessEvent(m, e) \in Outcomes
         /\ Close(m) \in Outcomes
         /\ Stay(m) \in Outcomes
<1> USE DEF Outcomes, Machines, States, Ops, Stay, Drop, Enter, EnterClosed, EnterClosing
<1>0. /\ <<>> \in Seq(Ops)
      /\ <<"subscribe">> \in Seq(Ops)
      /\ <<"unsubscribe">> \in Seq(Ops)
  OBVIOUS
<1>1. Stay(m) \in Outcomes
  BY <1>0
<1>2. Close(m) \in Outcomes
  BY <1>0 DEF Close
<1>3. ProcessEvent(m, e) \in Outcomes
  <2>1. ProcessDownEvent(m, e) \in Outcomes
    BY <1>0 DEF ProcessDownEvent
  <2>2. ProcessOpeningEvent(m, e) \in Outcomes
    BY <1>0 DEF ProcessOpeningEvent
  <2>3. ProcessOpenEvent(m, e) \in Outcomes
    BY <1>0 DEF ProcessOpenEvent, HandleResponse
  <2>4. ProcessClosingEvent(m, e) \in Outcomes
    BY <1>0 DEF ProcessClosingEvent, HandleResponse
  <2>5. ProcessClosedEvent(m, e) \in Outcomes
    BY <1>0 DEF ProcessClosedEvent
  <2> QED
    BY <2>1, <2>2, <2>3, <2>4, <2>5 DEF ProcessEvent
<1> QED
  BY <1>1, <1>2, <1>3

\* A machine that is closing or closed was asked to close; one that was asked
\* to close is not open.
SoundMachine(m) == /\ m.close_requested => m.state # "open"
                   /\ m.state \in {"closing", "closed"} => m.close_requested

\* The handlers keep a machine sound; close() requests the close and no event does.
LEMMA OutcomeCloses ==
  ASSUME NEW m \in Machines, NEW e \in Events, SoundMachine(m)
  PROVE  /\ SoundMachine(ProcessEvent(m, e).sm)
         /\ ProcessEvent(m, e).sm.close_requested = m.close_requested
         /\ SoundMachine(Close(m).sm)
         /\ Close(m).sm.close_requested
<1> USE DEF Machines, States, Stay, Drop, Enter, EnterClosed, EnterClosing, SoundMachine
<1>1. /\ SoundMachine(ProcessEvent(m, e).sm)
      /\ ProcessEvent(m, e).sm.close_requested = m.close_requested
  BY DEF ProcessEvent, ProcessDownEvent, ProcessOpeningEvent, ProcessOpenEvent,
         ProcessClosingEvent, ProcessClosedEvent, HandleResponse
<1>2. SoundMachine(Close(m).sm) /\ Close(m).sm.close_requested
  BY DEF Close
<1> QED
  BY <1>1, <1>2

\* A release hands back one interest and frees the channel.
LEMMA ReleasedFacts ==
  ASSUME NEW ch \in ChannelStates
  PROVE  /\ Released(ch) \in ChannelStates
         /\ Released(ch).interest = ch.interest - 1
         /\ ~Released(ch).acquired
<1> DEFINE freed == [ch EXCEPT !.acquired = FALSE, !.interest = @ - 1]
<1>0. /\ ch.interest \in Int /\ ch.acquired \in BOOLEAN
      /\ ch.on_event \in Subs \cup {None} /\ ch.cv \in Seq(Subs)
  BY DEF ChannelStates
<1>1. /\ freed \in ChannelStates
      /\ freed.interest = ch.interest - 1 /\ freed.acquired = FALSE
  <2>1. ch.interest - 1 \in Int
    BY <1>0
  <2>2. freed \in ChannelStates
    BY <2>1 DEF ChannelStates
  <2>3. freed.interest = ch.interest - 1 /\ freed.acquired = FALSE
    BY <2>1 DEF ChannelStates
  <2> QED
    BY <2>2, <2>3
<1> HIDE DEF freed
<1>2. ASSUME freed.cv # <<>> PROVE Tail(freed.cv) \in Seq(Subs)
  BY <1>1, <1>2 DEF ChannelStates
<1>3. /\ CancelOne(freed) \in ChannelStates
      /\ CancelOne(freed).interest = ch.interest - 1
      /\ ~CancelOne(freed).acquired
  BY <1>1, <1>2 DEF CancelOne, ChannelStates
<1>4. Absent \in ChannelStates /\ Absent.interest = 0 /\ ~Absent.acquired
  BY DEF Absent, ChannelStates
<1>5. ch.interest \in Int
  BY DEF ChannelStates
<1>6. Released(ch) = IF ch.interest = 1 THEN Absent ELSE CancelOne(freed)
  BY DEF Released, freed
<1> QED
  BY <1>0, <1>1, <1>3, <1>4, <1>5, <1>6

\* Waiting and leaving a wait touch the queue of the channel and nothing else.
LEMMA WaiterFacts ==
  ASSUME NEW ch \in ChannelStates, NEW s \in Subs
  PROVE  /\ Located(ch) \in ChannelStates
         /\ Located(ch).interest = ch.interest + 1
         /\ Located(ch).acquired = ch.acquired
         /\ Located(ch).on_event = ch.on_event
         /\ WaitedOnBy(s, ch) \in ChannelStates
         /\ WaitedOnBy(s, ch).interest = ch.interest
         /\ WaitedOnBy(s, ch).acquired = ch.acquired
         /\ WaitedOnBy(s, ch).on_event = ch.on_event
         /\ WithoutWaiter(s, ch) \in ChannelStates
         /\ WithoutWaiter(s, ch).interest = ch.interest
         /\ WithoutWaiter(s, ch).acquired = ch.acquired
         /\ WithoutWaiter(s, ch).on_event = ch.on_event
         /\ AcquiredBy(s, ch) \in ChannelStates
         /\ AcquiredBy(s, ch).interest = ch.interest
         /\ AcquiredBy(s, ch).acquired
         /\ AcquiredBy(s, ch).on_event = s
<1>1. ASSUME NEW i \in DOMAIN ch.cv
      PROVE  SubSeq(ch.cv, 1, i - 1) \o SubSeq(ch.cv, i + 1, Len(ch.cv)) \in Seq(Subs)
  BY DEF ChannelStates
<1>2. WithoutWaiter(s, ch).cv \in Seq(Subs)
  BY <1>1 DEF WithoutWaiter, ChannelStates
<1>3. Append(ch.cv, s) \in Seq(Subs)
  BY DEF ChannelStates
<1>4. WithoutWaiter(s, ch) = [ch EXCEPT !.cv = WithoutWaiter(s, ch).cv]
  BY DEF WithoutWaiter, ChannelStates
<1>5. /\ WithoutWaiter(s, ch) \in ChannelStates
      /\ WithoutWaiter(s, ch).interest = ch.interest
      /\ WithoutWaiter(s, ch).acquired = ch.acquired
      /\ WithoutWaiter(s, ch).on_event = ch.on_event
  BY <1>2, <1>4 DEF ChannelStates
<1>6. /\ WaitedOnBy(s, ch) \in ChannelStates
      /\ WaitedOnBy(s, ch).interest = ch.interest
      /\ WaitedOnBy(s, ch).acquired = ch.acquired
      /\ WaitedOnBy(s, ch).on_event = ch.on_event
  BY <1>3 DEF WaitedOnBy, ChannelStates
<1>7. /\ Located(ch) \in ChannelStates
      /\ Located(ch).interest = ch.interest + 1
      /\ Located(ch).acquired = ch.acquired
      /\ Located(ch).on_event = ch.on_event
  <2>1. ch.interest + 1 \in Int
    BY DEF ChannelStates
  <2> QED
    BY <2>1 DEF Located, ChannelStates
<1>8. /\ AcquiredBy(s, ch) \in ChannelStates
      /\ AcquiredBy(s, ch).interest = ch.interest
      /\ AcquiredBy(s, ch).acquired
      /\ AcquiredBy(s, ch).on_event = s
  BY DEF AcquiredBy, ChannelStates
<1> QED
  BY <1>5, <1>6, <1>7, <1>8
----------------------------------------------------------------------------
(* The inductive invariant.                                                *)

Live == {"holding", "draining"}

SoundMachines ==
  \A s \in Subs : /\ SoundMachine(sm[s])
                  /\ sm[s].close_requested <=> pc[s] = "draining"
                  /\ sm[s].close_requested => stopLatch[s]

\* The coroutines that hold an iterator to the state of channel c, and those that
\* have left without giving theirs back: what the interest really counts.
Interested(c) == {s \in Subs : Topic[s] = c /\ pc[s] \in {"waiting", "holding",
                                                         "draining", "abandoned"}}

InterestExact == \A c \in Channels : chan[c].interest = Cardinality(Interested(c))

IInv == TypeOK /\ HandlerLive /\ InterestExact /\ SoundMachines /\ ReleaseFindsInterest

\* How a segment of run() may leave its coroutine and its channel.
Shape(s, seg) ==
  LET ch == chan[Topic[s]]
  IN  /\ seg.pc \in {"waiting", "holding", "draining", "done"}
      /\ seg.sm \in Machines
      /\ SoundMachine(seg.sm)
      /\ seg.sm.close_requested <=> seg.pc = "draining"
      /\ seg.sm.close_requested => stopLatch[s]
      /\ seg.fails \subseteq Asserts /\ "interest" \notin seg.fails
      /\ seg.sends \in Seq(Ops)
      /\ seg.chan \in ChannelStates
      /\ seg.chan.interest = ch.interest + (IF pc[s] = "spawned" THEN 1 ELSE 0)
                                         - (IF seg.pc = "done" THEN 1 ELSE 0)
      /\ seg.chan.acquired =>
           \/ seg.chan.on_event = s /\ seg.pc \in Live
           \/ /\ ch.acquired
              /\ seg.chan.on_event = ch.on_event
              /\ pc[s] \in Live => seg.pc \in Live

\* Waiting for the closed latch either releases the channel or leaves it alone.
LEMMA AwaitClosedFacts ==
  ASSUME NEW r \in Outcomes, NEW ch \in ChannelStates,
         SoundMachine(r.sm), r.sm.close_requested, ch.interest # 0
  PROVE  LET seg == AwaitClosed(r, ch)
         IN  /\ seg.pc \in {"draining", "done"}
             /\ seg.sm \in Machines
             /\ SoundMachine(seg.sm)
             /\ seg.sm.close_requested <=> seg.pc = "draining"
             /\ seg.fails \subseteq Asserts /\ "interest" \notin seg.fails
             /\ seg.sends \in Seq(Ops)
             /\ seg.chan \in ChannelStates
             /\ seg.chan = IF seg.pc = "done" THEN Released(ch) ELSE ch
<1>1. FreshMachine \in Machines /\ SoundMachine(FreshMachine) /\ ~FreshMachine.close_requested
  BY DEF FreshMachine, Machines, States, SoundMachine
<1>2. r.sm \in Machines /\ r.sends \in Seq(Ops)
  BY DEF Outcomes
<1>3. ReleaseAsserts(ch) \subseteq Asserts /\ "interest" \notin ReleaseAsserts(ch)
  BY DEF ReleaseAsserts, Asserts
<1>4. Released(ch) \in ChannelStates
  BY ReleasedFacts
<1>5. CASE r.sm.state = "closed"
  BY <1>1, <1>2, <1>3, <1>4, <1>5 DEF AwaitClosed
<1>6. CASE r.sm.state # "closed"
  BY <1>2, <1>6 DEF AwaitClosed
<1> QED
  BY <1>5, <1>6

\* Acquiring, a coroutine ends up as the listener of its channel or has
\* released it again.
LEMMA AcquireFacts ==
  ASSUME TypeOK, NEW s \in Subs, NEW ch \in ChannelStates, ch.interest # 0
  PROVE  LET seg == Acquire(s, ch)
         IN  /\ seg.pc \in {"holding", "draining", "done"}
             /\ seg.sm \in Machines
             /\ SoundMachine(seg.sm)
             /\ seg.sm.close_requested <=> seg.pc = "draining"
             /\ seg.sm.close_requested => stopLatch[s]
             /\ seg.fails \subseteq Asserts /\ "interest" \notin seg.fails
             /\ seg.sends \in Seq(Ops)
             /\ seg.chan \in ChannelStates
             /\ seg.chan.interest = ch.interest - (IF seg.pc = "done" THEN 1 ELSE 0)
             /\ seg.chan.acquired => seg.chan.on_event = s /\ seg.pc \in Live
<1> DEFINE held  == AcquiredBy(s, ch)
           begun == IF connUp THEN ProcessEvent(FreshMachine, "up") ELSE Stay(FreshMachine)
           ended == [Close(begun.sm) EXCEPT !.sends = begun.sends \o @]
<1>1. FreshMachine \in Machines /\ SoundMachine(FreshMachine) /\ ~FreshMachine.close_requested
  BY DEF FreshMachine, Machines, States, SoundMachine
<1>2. begun \in Outcomes /\ SoundMachine(begun.sm) /\ ~begun.sm.close_requested
  <2>1. "up" \in Events
    BY DEF Events
  <2>2. Stay(FreshMachine) \in Outcomes /\ Stay(FreshMachine).sm = FreshMachine
    BY <1>1, <2>1, OutcomeTypes DEF Stay
  <2> QED
    BY <1>1, <2>1, <2>2, OutcomeTypes, OutcomeCloses
<1>3. held \in ChannelStates /\ held.interest = ch.interest /\ held.on_event = s
  BY WaiterFacts
<1>4. /\ ended \in Outcomes
      /\ SoundMachine(ended.sm) /\ ended.sm.close_requested
  <2> HIDE DEF begun
  <2>1. begun.sm \in Machines /\ begun.sends \in Seq(Ops)
    BY <1>2 DEF Outcomes
  <2>2. "up" \in Events
    BY DEF Events
  <2>3. Close(begun.sm) \in Outcomes
    BY <2>1, <2>2, OutcomeTypes
  <2>4. SoundMachine(Close(begun.sm).sm) /\ Close(begun.sm).sm.close_requested
    BY <1>2, <2>1, <2>2, OutcomeCloses
  <2>5. begun.sends \o Close(begun.sm).sends \in Seq(Ops)
    BY <2>1, <2>3 DEF Outcomes
  <2> QED
    BY <2>3, <2>4, <2>5 DEF Outcomes
<1>5. CASE stopLatch[s]
  <2>1. Acquire(s, ch) = AwaitClosed(ended, held)
    BY <1>5 DEF Acquire
  <2> HIDE DEF ended, held
  <2>2. /\ Released(held).interest = held.interest - 1
        /\ ~Released(held).acquired
    BY <1>3, ReleasedFacts
  <2> QED
    BY <1>3, <1>4, <1>5, <2>1, <2>2, AwaitClosedFacts DEF Live, ChannelStates
<1>6. CASE ~stopLatch[s]
  <2>1. Acquire(s, ch) = [pc |-> "holding", sm |-> begun.sm, chan |-> held,
                          sends |-> begun.sends, fails |-> {}]
    BY <1>6 DEF Acquire
  <2> HIDE DEF begun, held
  <2> QED
    BY <1>2, <1>3, <2>1 DEF Outcomes, Live, ChannelStates
<1> QED
  BY <1>5, <1>6 DEF TypeOK

\* The coroutines that use a channel's state find it in the map.
LEMMA InterestCounted ==
  ASSUME IInv, NEW s \in Subs
  PROVE  /\ chan[Topic[s]].interest >= 0
         /\ pc[s] \in {"waiting", "holding", "draining"} => chan[Topic[s]].interest # 0
<1> DEFINE c == Topic[s]
<1>1. IsFiniteSet(Interested(c))
  <2>1. Interested(c) \in SUBSET Subs
    BY DEF Interested
  <2> QED
    BY <2>1, SubsAssumption, FS_Subset
<1>2. chan[c].interest = Cardinality(Interested(c))
  BY TopicAssumption DEF IInv, InterestExact
<1>3. Cardinality(Interested(c)) \in Nat
  BY <1>1, FS_CardinalityType
<1>4. ASSUME pc[s] \in {"waiting", "holding", "draining"}
      PROVE  Cardinality(Interested(c)) # 0
  <2>1. s \in Interested(c)
    BY <1>4 DEF Interested
  <2> QED
    BY <1>1, <2>1, FS_EmptySet
<1> QED
  BY <1>2, <1>3, <1>4

\* Every segment has the shape, from the places where run() can resume.
LEMMA SegmentShapes ==
  ASSUME IInv, NEW s \in Subs
  PROVE  /\ pc[s] = "spawned" => Shape(s, StartSegment(s))
         /\ pc[s] = "waiting" => Shape(s, WakeSegment(s))
         /\ pc[s] = "holding" /\ stopLatch[s] => Shape(s, StopSegment(s))
         /\ pc[s] = "draining" => Shape(s, DrainedSegment(s))
<1> DEFINE ch == chan[Topic[s]]
<1>1. /\ ch \in ChannelStates /\ ch.interest \in Int
      /\ sm[s] \in Machines /\ SoundMachine(sm[s])
      /\ sm[s].close_requested <=> pc[s] = "draining"
      /\ sm[s].close_requested => stopLatch[s]
      /\ "up" \in Events
  BY TopicAssumption DEF IInv, TypeOK, SoundMachines, ChannelStates, Events
<1>0. IF pc[s] \in {"waiting", "holding", "draining"} THEN ch.interest # 0
                                                     ELSE ch.interest >= 0
  BY TopicAssumption, InterestCounted DEF IInv
<1>2. FreshMachine \in Machines /\ SoundMachine(FreshMachine) /\ ~FreshMachine.close_requested
  BY DEF FreshMachine, Machines, States, SoundMachine
<1>3. ASSUME NEW r \in Outcomes, SoundMachine(r.sm), r.sm.close_requested,
             pc[s] \in Live, stopLatch[s]
      PROVE  Shape(s, AwaitClosed(r, ch))
  <2>1. /\ Released(ch).interest = ch.interest - 1
        /\ ~Released(ch).acquired
    BY <1>1, ReleasedFacts
  <2>2. pc[s] # "spawned"
    BY <1>3 DEF Live
  <2> DEFINE seg == AwaitClosed(r, ch)
  <2>3. /\ seg.pc \in {"draining", "done"}
        /\ seg.sm \in Machines
        /\ SoundMachine(seg.sm)
        /\ seg.sm.close_requested <=> seg.pc = "draining"
        /\ seg.fails \subseteq Asserts /\ "interest" \notin seg.fails
        /\ seg.sends \in Seq(Ops)
        /\ seg.chan \in ChannelStates
        /\ seg.chan = IF seg.pc = "done" THEN Released(ch) ELSE ch
    BY <1>0, <1>1, <1>3, AwaitClosedFacts DEF Live
  <2> HIDE DEF seg
  <2>4. Shape(s, seg)
    BY <1>1, <1>3, <2>1, <2>2, <2>3 DEF Shape, Live
  <2> QED
    BY <2>4 DEF seg
<1>4. CASE pc[s] = "spawned"
  <2>1. Located(ch) \in ChannelStates /\ Located(ch).interest = ch.interest + 1
        /\ Located(ch).acquired = ch.acquired /\ Located(ch).on_event = ch.on_event
    BY <1>1, WaiterFacts
  <2> DEFINE seg == StartSegment(s)
  <2>2. CASE Located(ch).acquired
    <3>1. seg = [pc |-> "waiting", sm |-> FreshMachine,
                 chan |-> WaitedOnBy(s, Located(ch)), sends |-> <<>>, fails |-> {}]
      BY <2>2 DEF StartSegment
    <3>2. /\ WaitedOnBy(s, Located(ch)) \in ChannelStates
          /\ WaitedOnBy(s, Located(ch)).interest = Located(ch).interest
          /\ WaitedOnBy(s, Located(ch)).acquired = Located(ch).acquired
          /\ WaitedOnBy(s, Located(ch)).on_event = Located(ch).on_event
      BY <2>1, WaiterFacts
    <3> HIDE DEF seg
    <3>3. Shape(s, seg)
      BY <1>1, <1>2, <1>4, <2>1, <3>1, <3>2 DEF Shape, Live
    <3> QED
      BY <1>4, <3>3 DEF seg
  <2>3. CASE ~Located(ch).acquired
    <3>1. seg = Acquire(s, Located(ch))
      BY <2>3 DEF StartSegment
    <3> HIDE DEF seg
    <3>2. Shape(s, seg)
      BY <1>0, <1>1, <1>4, <2>1, <3>1, AcquireFacts DEF Shape, IInv
    <3> QED
      BY <1>4, <3>2 DEF seg
  <2> QED
    BY <2>2, <2>3
<1>5. CASE pc[s] = "waiting"
  <2>1. Shape(s, Acquire(s, ch))
    BY <1>0, <1>1, <1>5, AcquireFacts DEF Shape, IInv
  <2> QED
    BY <1>5, <2>1 DEF WakeSegment
<1>6. CASE pc[s] = "holding"
  <2>1. /\ Close(sm[s]) \in Outcomes
        /\ SoundMachine(Close(sm[s]).sm) /\ Close(sm[s]).sm.close_requested
    BY <1>1, OutcomeTypes, OutcomeCloses
  <2> QED
    BY <1>3, <1>6, <2>1 DEF StopSegment, Live
<1>7. CASE pc[s] = "draining"
  <2>1. Stay(sm[s]) \in Outcomes /\ Stay(sm[s]).sm = sm[s]
    BY <1>1, OutcomeTypes DEF Stay
  <2> QED
    BY <1>1, <1>3, <1>7, <2>1 DEF DrainedSegment, Live
<1> QED
  BY <1>4, <1>5, <1>6, <1>7

\* A coroutine changes the set of interested coroutines of its own channel only,
\* by joining it or by leaving it.
LEMMA InterestedStep ==
  ASSUME TypeOK, NEW s \in Subs, NEW p \in PCs, pc' = [pc EXCEPT ![s] = p],
         NEW c \in Channels
  PROVE  LET counted == {"waiting", "holding", "draining", "abandoned"}
         IN  /\ Cardinality(Interested(c)) \in Int
             /\ Topic[s] # c => Interested(c)' = Interested(c)
             /\ Topic[s] = c =>
                  Cardinality(Interested(c)') =
                    Cardinality(Interested(c))
                      + (IF pc[s] \notin counted /\ p \in counted THEN 1 ELSE 0)
                      - (IF pc[s] \in counted /\ p \notin counted THEN 1 ELSE 0)
<1> DEFINE counted == {"waiting", "holding", "draining", "abandoned"}
<1>1. IsFiniteSet(Interested(c))
  <2>1. Interested(c) \in SUBSET Subs
    BY DEF Interested
  <2> QED
    BY <2>1, SubsAssumption, FS_Subset
<1>2. Cardinality(Interested(c)) \in Int
  BY <1>1, FS_CardinalityType
<1>3. ASSUME Topic[s] # c PROVE Interested(c)' = Interested(c)
  BY <1>3 DEF TypeOK, Interested
<1>4. ASSUME Topic[s] = c, pc[s] \in counted <=> p \in counted
      PROVE  Interested(c)' = Interested(c)
  BY <1>4 DEF TypeOK, Interested
<1>5. ASSUME Topic[s] = c, pc[s] \notin counted, p \in counted
      PROVE  Cardinality(Interested(c)') = Cardinality(Interested(c)) + 1
  <2>1. Interested(c)' = Interested(c) \cup {s} /\ s \notin Interested(c)
    BY <1>5 DEF TypeOK, Interested
  <2> QED
    BY <1>1, <2>1, FS_AddElement
<1>6. ASSUME Topic[s] = c, pc[s] \in counted, p \notin counted
      PROVE  Cardinality(Interested(c)') = Cardinality(Interested(c)) - 1
  <2>1. Interested(c)' = Interested(c) \ {s} /\ s \in Interested(c)
    BY <1>6 DEF TypeOK, Interested
  <2> QED
    BY <1>1, <2>1, FS_RemoveElement
<1> QED
  BY <1>2, <1>3, <1>4, <1>5, <1>6

----------------------------------------------------------------------------
(* The invariant is inductive.                                             *)

LEMMA InitIInv == Init => IInv
<1> SUFFICES ASSUME Init PROVE IInv
  OBVIOUS
<1>1. Absent \in ChannelStates /\ FreshMachine \in Machines
  BY DEF Absent, ChannelStates, FreshMachine, Machines, States
<1>2. TypeOK
  BY <1>1 DEF Init, TypeOK, PCs
<1>3. HandlerLive
  BY DEF Init, HandlerLive, Absent
<1>4. InterestExact
  <2>1. \A c \in Channels : Interested(c) = {}
    BY DEF Init, Interested
  <2> QED
    BY <2>1, FS_EmptySet DEF Init, InterestExact, Absent
<1>5. SoundMachines /\ ReleaseFindsInterest
  BY DEF Init, SoundMachines, SoundMachine, FreshMachine, ReleaseFindsInterest
<1> QED
  BY <1>2, <1>3, <1>4, <1>5 DEF IInv

\* A segment of run() preserves the invariant.
LEMMA RunToPreserves ==
  ASSUME IInv, NEW s \in Subs, NEW seg, Shape(s, seg), RunTo(s, seg),
         pc[s] \in {"spawned", "waiting", "holding", "draining"}
  PROVE  IInv'
<1> DEFINE c == Topic[s]
<1>1. c \in Channels /\ TypeOK
  BY TopicAssumption DEF IInv
<1>2. /\ seg.pc \in PCs
      /\ seg.pc \in {"waiting", "holding", "draining", "done"}
      /\ seg.chan \in ChannelStates /\ seg.sm \in Machines
  BY DEF Shape, PCs
<1>3. TypeOK'
  <2>1. pc' \in [Subs -> PCs] /\ sm' \in [Subs -> Machines]
    BY <1>1, <1>2 DEF TypeOK, RunTo
  <2>2. chan' \in [Channels -> ChannelStates]
    BY <1>1, <1>2 DEF TypeOK, RunTo
  <2>3. failedAsserts' \subseteq Asserts
    BY <1>1 DEF TypeOK, RunTo, Shape
  <2> QED
    BY <1>1, <2>1, <2>2, <2>3 DEF TypeOK, RunTo
<1>4. HandlerLive'
  <2> SUFFICES ASSUME NEW d \in Channels, chan'[d].acquired
               PROVE  \E t \in Subs : /\ chan'[d].on_event = t
                                      /\ Topic[t] = d
                                      /\ pc'[t] \in Live
    BY DEF HandlerLive, Live
  <2>1. /\ pc'[s] = seg.pc
        /\ \A t \in Subs : t # s => pc'[t] = pc[t]
    BY <1>1, <1>2 DEF TypeOK, RunTo
  <2>2. CASE d = c
    <3>1. chan'[d] = seg.chan
      BY <1>1, <2>2 DEF TypeOK, RunTo
    <3>2. CASE seg.chan.on_event = s /\ seg.pc \in Live
      BY <2>1, <2>2, <3>1, <3>2
    <3>3. CASE /\ chan[c].acquired
               /\ seg.chan.on_event = chan[c].on_event
               /\ pc[s] \in Live => seg.pc \in Live
      <4>1. PICK t \in Subs : /\ chan[c].on_event = t
                              /\ Topic[t] = c
                              /\ pc[t] \in Live
        BY <1>1, <3>3 DEF IInv, HandlerLive, Live
      <4> QED
        BY <2>1, <2>2, <3>1, <3>3, <4>1
    <3> QED
      BY <3>1, <3>2, <3>3 DEF Shape
  <2>3. CASE d # c
    <3>1. chan'[d] = chan[d]
      BY <1>1, <2>3 DEF TypeOK, RunTo
    <3>2. PICK t \in Subs : /\ chan[d].on_event = t
                            /\ Topic[t] = d
                            /\ pc[t] \in Live
      BY <3>1 DEF IInv, HandlerLive, Live
    <3> QED
      BY <2>1, <2>3, <3>1, <3>2
  <2> QED
    BY <2>2, <2>3
<1>5. InterestExact'
  <2> SUFFICES ASSUME NEW d \in Channels
               PROVE  chan'[d].interest = Cardinality(Interested(d)')
    BY DEF InterestExact
  <2>0. pc' = [pc EXCEPT ![s] = seg.pc]
    BY DEF RunTo
  <2>1. CASE d = c
    <3>1. /\ chan'[d] = seg.chan
          /\ chan[d].interest = Cardinality(Interested(d))
      BY <1>1, <2>1 DEF TypeOK, RunTo, IInv, InterestExact
    <3>2. seg.chan.interest = chan[d].interest + (IF pc[s] = "spawned" THEN 1 ELSE 0)
                                 - (IF seg.pc = "done" THEN 1 ELSE 0)
      BY <2>1 DEF Shape
    <3>3. /\ Cardinality(Interested(d)) \in Int
          /\ Cardinality(Interested(d)') = Cardinality(Interested(d))
                   + (IF pc[s] = "spawned" /\ seg.pc # "done" THEN 1 ELSE 0)
                   - (IF pc[s] # "spawned" /\ seg.pc = "done" THEN 1 ELSE 0)
      BY <1>1, <1>2, <2>0, <2>1, InterestedStep
    <3> QED
      BY <3>1, <3>2, <3>3
  <2>2. CASE d # c
    <3>1. chan'[d] = chan[d]
      BY <1>1, <2>2 DEF TypeOK, RunTo
    <3>2. Interested(d)' = Interested(d)
      BY <1>1, <1>2, <2>0, <2>2, InterestedStep
    <3> QED
      BY <3>1, <3>2 DEF IInv, InterestExact
  <2> QED
    BY <2>1, <2>2
<1>6. SoundMachines'
  BY <1>1, <1>2 DEF TypeOK, RunTo, IInv, SoundMachines, Shape
<1>7. ReleaseFindsInterest'
  BY DEF RunTo, IInv, Shape, ReleaseFindsInterest
<1> QED
  BY <1>3, <1>4, <1>5, <1>6, <1>7 DEF IInv

\* Posting an event to any channels preserves the invariant.
LEMMA NotifyPreserves ==
  ASSUME IInv, NEW cs, NEW e \in Events, Notify(cs, e), connUp' \in BOOLEAN
  PROVE  IInv'
<1>1. \A s \in Subs : /\ sm'[s] \in Machines
                      /\ SoundMachine(sm'[s])
                      /\ sm'[s].close_requested = sm[s].close_requested
  <2> SUFFICES ASSUME NEW s \in Subs
               PROVE  /\ sm'[s] \in Machines
                      /\ SoundMachine(sm'[s])
                      /\ sm'[s].close_requested = sm[s].close_requested
    OBVIOUS
  <2>1. sm[s] \in Machines /\ SoundMachine(sm[s])
    BY DEF IInv, TypeOK, SoundMachines
  <2>2. sm'[s] = IF s \in Listeners(cs) THEN ProcessEvent(sm[s], e).sm ELSE sm[s]
    BY DEF Notify
  <2>3. ProcessEvent(sm[s], e) \in Outcomes
    BY <2>1, OutcomeTypes
  <2>4. /\ SoundMachine(ProcessEvent(sm[s], e).sm)
        /\ ProcessEvent(sm[s], e).sm.close_requested = sm[s].close_requested
    BY <2>1, OutcomeCloses
  <2> QED
    BY <2>1, <2>2, <2>3, <2>4 DEF Outcomes
<1>2. TypeOK'
  <2>1. sm' \in [Subs -> Machines]
    BY <1>1 DEF Notify
  <2>2. failedAsserts' \subseteq Asserts
    BY DEF Notify, IInv, TypeOK, Asserts
  <2> QED
    BY <2>1, <2>2 DEF Notify, IInv, TypeOK
<1>3. HandlerLive' /\ InterestExact'
  BY DEF Notify, IInv, HandlerLive, InterestExact, Interested
<1>4. SoundMachines' /\ ReleaseFindsInterest'
  BY <1>1 DEF Notify, IInv, SoundMachines, ReleaseFindsInterest
<1> QED
  BY <1>2, <1>3, <1>4 DEF IInv

\* Leaving the wait keeps the interest counted and the listener untouched.
LEMMA StopWhileWaitingPreserves ==
  ASSUME IInv, NEW s \in Subs, StopWhileWaiting(s)
  PROVE  IInv'
<1> DEFINE c == Topic[s]
           left == WithoutWaiter(s, chan[c])
<1>1. c \in Channels /\ TypeOK /\ chan[c] \in ChannelStates /\ "abandoned" \in PCs
  BY TopicAssumption DEF IInv, TypeOK, PCs
<1>2. /\ left \in ChannelStates
      /\ left.interest = chan[c].interest
      /\ left.acquired = chan[c].acquired
      /\ left.on_event = chan[c].on_event
  BY <1>1, WaiterFacts
<1>3. /\ pc' = [pc EXCEPT ![s] = "abandoned"]
      /\ chan' = [chan EXCEPT ![c] = left]
      /\ UNCHANGED <<stopLatch, sm, connUp, failedAsserts>>
      /\ pc[s] = "waiting"
  BY DEF StopWhileWaiting
<1> HIDE DEF left
<1>4. TypeOK'
  <2>1. pc' \in [Subs -> PCs] /\ chan' \in [Channels -> ChannelStates]
    BY <1>1, <1>2, <1>3 DEF TypeOK
  <2> QED
    BY <1>1, <1>3, <2>1 DEF TypeOK
<1>5. HandlerLive'
  BY <1>1, <1>2, <1>3 DEF TypeOK, IInv, HandlerLive
<1>6. InterestExact'
  <2> SUFFICES ASSUME NEW d \in Channels
               PROVE  chan'[d].interest = Cardinality(Interested(d)')
    BY DEF InterestExact
  <2>1. chan'[d].interest = chan[d].interest
    BY <1>1, <1>2, <1>3 DEF TypeOK
  <2>2. Cardinality(Interested(d)') = Cardinality(Interested(d))
    <3>1. CASE Topic[s] = d
      <4>1. /\ pc[s] = "waiting" /\ "abandoned" \in PCs /\ TypeOK
            /\ pc' = [pc EXCEPT ![s] = "abandoned"]
        BY <1>1, <1>3
      <4> HIDE <1>3
      <4>2. /\ Cardinality(Interested(d)) \in Int
            /\ Cardinality(Interested(d)') = Cardinality(Interested(d)) + 0 - 0
        BY <3>1, <4>1, InterestedStep
      <4> QED
        BY <4>2
    <3>2. CASE Topic[s] # d
      <4>1. Interested(d)' = Interested(d)
        BY <1>1, <1>3, <3>2, InterestedStep
      <4> QED
        BY <4>1
    <3> QED
      BY <3>1, <3>2
  <2> QED
    BY <2>1, <2>2 DEF IInv, InterestExact
<1>7. SoundMachines' /\ ReleaseFindsInterest'
  BY <1>1, <1>3 DEF TypeOK, IInv, SoundMachines, ReleaseFindsInterest
<1> QED
  BY <1>4, <1>5, <1>6, <1>7 DEF IInv

LEMMA StepIInv == IInv /\ [Next]_vars => IInv'
<1> SUFFICES ASSUME IInv, [Next]_vars PROVE IInv'
  OBVIOUS
<1>1. CASE UNCHANGED vars
  BY <1>1 DEF vars, IInv, TypeOK, HandlerLive, InterestExact, Interested, SoundMachines,
              ReleaseFindsInterest
<1>2. CASE Next
  <2>1. ASSUME NEW s \in Subs, Create(s) PROVE IInv'
    <3>1. /\ pc' = [pc EXCEPT ![s] = "spawned"]
          /\ UNCHANGED <<stopLatch, sm, chan, connUp, failedAsserts>>
          /\ pc[s] = "new"
          /\ TypeOK
      BY <2>1 DEF Create, IInv
    <3>2. TypeOK'
      BY <3>1 DEF TypeOK, PCs
    <3>3. HandlerLive'
      BY <3>1 DEF TypeOK, IInv, HandlerLive
    <3>4. InterestExact'
      <4>1. \A c \in Channels : Interested(c)' = Interested(c)
        BY <3>1 DEF TypeOK, Interested
      <4> QED
        BY <3>1, <4>1 DEF IInv, InterestExact
    <3>5. SoundMachines' /\ ReleaseFindsInterest'
      BY <3>1 DEF TypeOK, IInv, SoundMachines, ReleaseFindsInterest
    <3> QED
      BY <3>2, <3>3, <3>4, <3>5 DEF IInv
  <2>2. ASSUME NEW s \in Subs, Stop(s) PROVE IInv'
    <3>1. /\ stopLatch' = [stopLatch EXCEPT ![s] = TRUE]
          /\ UNCHANGED <<pc, sm, chan, connUp, failedAsserts>>
          /\ TypeOK
      BY <2>2 DEF Stop, IInv
    <3>2. TypeOK' /\ HandlerLive' /\ InterestExact'
      BY <3>1 DEF TypeOK, IInv, HandlerLive, InterestExact, Interested
    <3>3. SoundMachines' /\ ReleaseFindsInterest'
      BY <3>1 DEF TypeOK, IInv, SoundMachines, ReleaseFindsInterest
    <3> QED
      BY <3>2, <3>3 DEF IInv
  <2>3. ASSUME NEW s \in Subs, Start(s) PROVE IInv'
    BY <2>3, SegmentShapes, RunToPreserves DEF Start
  <2>4. ASSUME NEW s \in Subs, Wake(s) PROVE IInv'
    BY <2>4, SegmentShapes, RunToPreserves DEF Wake, Woken
  <2>5. ASSUME NEW s \in Subs, StopWhileWaiting(s) PROVE IInv'
    BY <2>5, StopWhileWaitingPreserves
  <2>6. ASSUME NEW s \in Subs, StopSeen(s) PROVE IInv'
    BY <2>6, SegmentShapes, RunToPreserves DEF StopSeen
  <2>7. ASSUME NEW s \in Subs, Drained(s) PROVE IInv'
    BY <2>7, SegmentShapes, RunToPreserves DEF Drained
  <2>8. CASE ConnectionUp
    <3>1. "up" \in Events
      BY DEF Events
    <3> QED
      BY <2>8, <3>1, NotifyPreserves DEF ConnectionUp
  <2>9. CASE ReaderDown
    <3>1. "down" \in Events /\ connUp \in BOOLEAN
      BY DEF Events, IInv, TypeOK
    <3> QED
      BY <2>9, <3>1, NotifyPreserves DEF ReaderDown
  <2>10. ASSUME NEW c \in Channels, NEW e \in Responses, Response(c, e) PROVE IInv'
    <3>1. e \in Events /\ connUp \in BOOLEAN
      BY DEF Events, IInv, TypeOK
    <3> QED
      BY <2>10, <3>1, NotifyPreserves DEF Response
  <2> QED
    BY <1>2, <2>1, <2>2, <2>3, <2>4, <2>5, <2>6, <2>7, <2>8, <2>9, <2>10
       DEF Next, SubscriptionStep
<1> QED
  BY <1>1, <1>2

LEMMA Invariance == Spec => []IInv
  BY InitIInv, StepIInv, PTL DEF Spec

----------------------------------------------------------------------------
(* The wake-ups.                                                           *)

\* The queue of a channel holds waiting coroutines of the channel, each once.
WaitersQueued ==
  \A c \in Channels :
    /\ \A i \in DOMAIN chan[c].cv : pc[chan[c].cv[i]] = "waiting" /\ Topic[chan[c].cv[i]] = c
    /\ \A i, j \in DOMAIN chan[c].cv : chan[c].cv[i] = chan[c].cv[j] => i = j

WakeInv == WaitersQueued /\ WakeLostOnlyToStop

\* What a segment does to the queue of its channel: it joins it while another
\* holds the channel, leaves it alone, or wakes its head on releasing the channel.
QueueShape(s, seg) ==
  LET ch == chan[Topic[s]]
  IN  \/ /\ seg.pc = "waiting" /\ pc[s] = "spawned"
         /\ seg.chan.cv = Append(ch.cv, s) /\ seg.chan.acquired
      \/ /\ seg.pc # "waiting" /\ seg.chan.cv = ch.cv
         /\ seg.chan.acquired \/ (~ch.acquired /\ pc[s] \in Live)
      \/ seg.pc # "waiting" /\ ch.cv # <<>> /\ seg.chan.cv = Tail(ch.cv)
      \/ seg.pc # "waiting" /\ seg.chan.cv = <<>>

\* A release wakes the head of the queue, or leaves no queue.
LEMMA ReleasedQueue ==
  ASSUME NEW ch \in ChannelStates
  PROVE  \/ Released(ch).cv = <<>>
         \/ ch.cv # <<>> /\ Released(ch).cv = Tail(ch.cv)
<1> DEFINE freed == [ch EXCEPT !.acquired = FALSE, !.interest = @ - 1]
<1>1. freed.cv = ch.cv /\ freed = [freed EXCEPT !.cv = ch.cv]
  BY DEF ChannelStates
<1>2. CancelOne(freed).cv = IF ch.cv = <<>> THEN ch.cv ELSE Tail(ch.cv)
  BY DEF CancelOne, ChannelStates
<1>3. Released(ch) = IF ch.interest = 1 THEN Absent ELSE CancelOne(freed)
  BY DEF Released
<1>4. Absent.cv = <<>>
  BY DEF Absent
<1> QED
  BY <1>2, <1>3, <1>4

LEMMA AwaitClosedQueue ==
  ASSUME NEW r, NEW ch \in ChannelStates
  PROVE  LET seg == AwaitClosed(r, ch)
         IN  /\ seg.pc \in {"draining", "done"}
             /\ \/ seg.chan = ch
                \/ seg.chan.cv = <<>>
                \/ ch.cv # <<>> /\ seg.chan.cv = Tail(ch.cv)
<1>1. CASE r.sm.state = "closed"
  BY <1>1, ReleasedQueue DEF AwaitClosed
<1>2. CASE r.sm.state # "closed"
  BY <1>2 DEF AwaitClosed
<1> QED
  BY <1>1, <1>2

LEMMA AcquireQueue ==
  ASSUME NEW s \in Subs, NEW ch \in ChannelStates
  PROVE  LET seg == Acquire(s, ch)
         IN  /\ seg.pc # "waiting"
             /\ \/ seg.chan.cv = ch.cv /\ seg.chan.acquired
                \/ seg.chan.cv = <<>>
                \/ ch.cv # <<>> /\ seg.chan.cv = Tail(ch.cv)
<1> DEFINE held  == AcquiredBy(s, ch)
           begun == IF connUp THEN ProcessEvent(FreshMachine, "up") ELSE Stay(FreshMachine)
           ended == [Close(begun.sm) EXCEPT !.sends = begun.sends \o @]
<1>1. held \in ChannelStates /\ held.acquired
  BY WaiterFacts
<1>2. held.cv = ch.cv
  BY DEF AcquiredBy, ChannelStates
<1>3. CASE stopLatch[s]
  <2>1. Acquire(s, ch) = AwaitClosed(ended, held)
    BY <1>3 DEF Acquire
  <2> HIDE DEF ended, held
  <2> QED
    BY <1>1, <1>2, <2>1, AwaitClosedQueue
<1>4. CASE ~stopLatch[s]
  <2>1. Acquire(s, ch) = [pc |-> "holding", sm |-> begun.sm, chan |-> held,
                          sends |-> begun.sends, fails |-> {}]
    BY <1>4 DEF Acquire
  <2> HIDE DEF begun, held
  <2> QED
    BY <1>1, <1>2, <2>1
<1> QED
  BY <1>3, <1>4

LEMMA SegmentQueues ==
  ASSUME IInv, NEW s \in Subs
  PROVE  /\ pc[s] = "spawned" => QueueShape(s, StartSegment(s))
         /\ pc[s] = "waiting" => QueueShape(s, WakeSegment(s))
         /\ pc[s] = "holding" => QueueShape(s, StopSegment(s))
         /\ pc[s] = "draining" => QueueShape(s, DrainedSegment(s))
<1> DEFINE ch == chan[Topic[s]]
<1>1. ch \in ChannelStates
  BY TopicAssumption DEF IInv, TypeOK
<1>2. ASSUME NEW r, pc[s] \in Live PROVE QueueShape(s, AwaitClosed(r, ch))
  <2> DEFINE seg == AwaitClosed(r, ch)
  <2>1. /\ seg.pc \in {"draining", "done"}
        /\ \/ seg.chan = ch
           \/ seg.chan.cv = <<>>
           \/ ch.cv # <<>> /\ seg.chan.cv = Tail(ch.cv)
    BY <1>1, AwaitClosedQueue
  <2>2. ch.acquired \in BOOLEAN
    BY <1>1 DEF ChannelStates
  <2> HIDE DEF seg
  <2>3. QueueShape(s, seg)
    BY <1>2, <2>1, <2>2 DEF QueueShape
  <2> QED
    BY <2>3 DEF seg
<1>3. CASE pc[s] = "spawned"
  <2> DEFINE here == Located(ch)
             seg  == StartSegment(s)
  <2>1. here \in ChannelStates /\ here.acquired = ch.acquired /\ here.cv = ch.cv
    BY <1>1, WaiterFacts DEF Located, ChannelStates
  <2>2. CASE here.acquired
    <3>1. seg = [pc |-> "waiting", sm |-> FreshMachine, chan |-> WaitedOnBy(s, here),
                 sends |-> <<>>, fails |-> {}]
      BY <2>2 DEF StartSegment
    <3> HIDE DEF seg, here
    <3>2. WaitedOnBy(s, here).cv = Append(ch.cv, s) /\ WaitedOnBy(s, here).acquired
      BY <2>1, <2>2, WaiterFacts DEF WaitedOnBy, ChannelStates
    <3>3. QueueShape(s, seg)
      BY <1>3, <3>1, <3>2 DEF QueueShape
    <3> QED
      BY <1>3, <3>3 DEF seg
  <2>3. CASE ~here.acquired
    <3>1. seg = Acquire(s, here)
      BY <2>3 DEF StartSegment
    <3> HIDE DEF seg, here
    <3>2. QueueShape(s, seg)
      BY <2>1, <3>1, AcquireQueue DEF QueueShape
    <3> QED
      BY <1>3, <3>2 DEF seg
  <2> QED
    BY <2>2, <2>3
<1>4. CASE pc[s] = "waiting"
  <2>1. QueueShape(s, Acquire(s, ch))
    BY <1>1, AcquireQueue DEF QueueShape
  <2> QED
    BY <1>4, <2>1 DEF WakeSegment
<1>5. CASE pc[s] \in Live
  BY <1>2, <1>5 DEF StopSegment, DrainedSegment, Live
<1> QED
  BY <1>3, <1>4, <1>5 DEF Live

\* Taking the head away keeps the others in order, and it is among them no more.
LEMMA TailOfDistinct ==
  ASSUME NEW q \in Seq(Subs), q # <<>>, \A i, j \in DOMAIN q : q[i] = q[j] => i = j
  PROVE  /\ \A i \in DOMAIN Tail(q) : i + 1 \in DOMAIN q /\ Tail(q)[i] = q[i + 1]
         /\ \A i, j \in DOMAIN Tail(q) : Tail(q)[i] = Tail(q)[j] => i = j
         /\ \A i \in DOMAIN Tail(q) : Tail(q)[i] # q[1]
         /\ 1 \in DOMAIN q /\ q[1] \in Subs
<1>1. /\ Len(q) \in Nat \ {0} /\ DOMAIN q = 1 .. Len(q)
      /\ DOMAIN Tail(q) = 1 .. Len(q) - 1
      /\ \A i \in 1 .. Len(q) - 1 : Tail(q)[i] = q[i + 1]
  OBVIOUS
<1> QED
  BY <1>1

\* A segment of run() leaves the queues in order and no free channel asleep.
LEMMA RunToKeepsWakeInv ==
  ASSUME IInv, WakeInv, NEW s \in Subs, NEW seg, Shape(s, seg), QueueShape(s, seg), RunTo(s, seg),
         pc[s] \in {"spawned", "holding", "draining"} \/ Woken(s)
  PROVE  WakeInv'
<1> DEFINE c == Topic[s]
           q == chan[c].cv
<1>1. /\ c \in Channels /\ chan[c] \in ChannelStates /\ q \in Seq(Subs)
      /\ pc \in [Subs -> PCs] /\ chan \in [Channels -> ChannelStates]
      /\ seg.chan \in ChannelStates /\ seg.pc \in PCs /\ seg.pc # "abandoned"
  BY TopicAssumption DEF IInv, TypeOK, ChannelStates, Shape, PCs
<1>2. /\ pc' = [pc EXCEPT ![s] = seg.pc] /\ chan' = [chan EXCEPT ![c] = seg.chan]
      /\ pc'[s] = seg.pc /\ chan'[c] = seg.chan
      /\ \A t \in Subs : t # s => pc'[t] = pc[t]
      /\ \A d \in Channels : d # c => chan'[d] = chan[d]
  BY <1>1 DEF RunTo
<1>3. \A d \in Channels : \A i \in DOMAIN chan[d].cv : chan[d].cv[i] \in Subs /\ chan[d].cv[i] # s
  <2> SUFFICES ASSUME NEW d \in Channels, NEW i \in DOMAIN chan[d].cv
               PROVE  chan[d].cv[i] \in Subs /\ chan[d].cv[i] # s
    OBVIOUS
  <2>1. chan[d].cv[i] \in Subs
    BY <1>1 DEF ChannelStates
  <2>2. pc[chan[d].cv[i]] = "waiting" /\ Topic[chan[d].cv[i]] = d
    BY DEF WakeInv, WaitersQueued
  <2> QED
    BY <2>1, <2>2 DEF Woken
<1>4. /\ \A i \in DOMAIN q : pc[q[i]] = "waiting" /\ Topic[q[i]] = c
      /\ \A i, j \in DOMAIN q : q[i] = q[j] => i = j
  BY <1>1 DEF WakeInv, WaitersQueued
<1>5. WaitersQueued'
  <2> SUFFICES ASSUME NEW d \in Channels
               PROVE  /\ \A i \in DOMAIN chan'[d].cv :
                           pc'[chan'[d].cv[i]] = "waiting" /\ Topic[chan'[d].cv[i]] = d
                      /\ \A i, j \in DOMAIN chan'[d].cv : chan'[d].cv[i] = chan'[d].cv[j] => i = j
    BY DEF WaitersQueued
  <2>1. CASE d # c
    BY <1>2, <1>3, <2>1 DEF WakeInv, WaitersQueued
  <2>2. CASE d = c /\ seg.chan.cv = q
    BY <1>2, <1>3, <1>4, <2>2
  <2>3. CASE d = c /\ seg.pc = "waiting" /\ seg.chan.cv = Append(q, s)
    <3>1. /\ Len(q) \in Nat /\ DOMAIN q = 1 .. Len(q) /\ DOMAIN Append(q, s) = 1 .. Len(q) + 1
          /\ \A i \in 1 .. Len(q) : Append(q, s)[i] = q[i]
          /\ Append(q, s)[Len(q) + 1] = s
      BY <1>1
    <3>2. \A i \in DOMAIN q : q[i] # s /\ pc'[q[i]] = "waiting"
      BY <1>1, <1>2, <1>3, <1>4
    <3> DEFINE r == Append(q, s)
    <3> HIDE DEF q, r
    <3>3. \A i \in DOMAIN r : pc'[r[i]] = "waiting" /\ Topic[r[i]] = c
      <4> SUFFICES ASSUME NEW i \in DOMAIN r
                   PROVE  pc'[r[i]] = "waiting" /\ Topic[r[i]] = c
        OBVIOUS
      <4>1. CASE i = Len(q) + 1
        BY <1>2, <2>3, <3>1, <4>1 DEF r
      <4>2. CASE i \in DOMAIN q
        BY <1>4, <3>1, <3>2, <4>2 DEF r
      <4> QED
        BY <3>1, <4>1, <4>2 DEF r
    <3>4. \A i, j \in DOMAIN r : r[i] = r[j] => i = j
      BY <1>4, <3>1, <3>2 DEF r
    <3>5. chan'[d].cv = r /\ d = c
      BY <1>2, <2>3 DEF r
    <3> QED
      BY <3>3, <3>4, <3>5
  <2>4. CASE d = c /\ q # <<>> /\ seg.chan.cv = Tail(q)
    <3>1. /\ \A i \in DOMAIN Tail(q) : i + 1 \in DOMAIN q /\ Tail(q)[i] = q[i + 1]
          /\ \A i, j \in DOMAIN Tail(q) : Tail(q)[i] = Tail(q)[j] => i = j
      BY <1>1, <1>4, <2>4, TailOfDistinct
    <3>2. \A i \in DOMAIN q : pc'[q[i]] = "waiting"
      BY <1>1, <1>2, <1>3, <1>4
    <3> HIDE DEF q
    <3> QED
      BY <1>2, <1>4, <2>4, <3>1, <3>2
  <2>5. CASE d = c /\ seg.chan.cv = <<>>
    BY <1>2, <2>5
  <2> QED
    BY <2>1, <2>2, <2>3, <2>4, <2>5 DEF QueueShape
<1>6. WakeLostOnlyToStop'
  <2> SUFFICES ASSUME NEW d \in Channels, ~chan'[d].acquired, chan'[d].cv # <<>>
               PROVE  \E t \in Subs : Topic[t] = d /\ (Woken(t)' \/ pc'[t] = "abandoned")
    BY DEF WakeLostOnlyToStop
  <2>1. CASE chan'[d] = chan[d] /\ (d # c \/ pc[s] \in Live)
    <3>1. PICK t \in Subs : Topic[t] = d /\ (Woken(t) \/ pc[t] = "abandoned")
      BY <2>1 DEF WakeInv, WakeLostOnlyToStop
    <3>2. t # s /\ pc'[t] = pc[t]
      BY <1>2, <2>1, <3>1 DEF Woken, Live
    <3> QED
      BY <2>1, <3>1, <3>2 DEF Woken
  <2>2. CASE d = c /\ q # <<>> /\ seg.chan.cv = Tail(q)
    <3>1. q[1] \in Subs /\ 1 \in DOMAIN q /\ \A i \in DOMAIN Tail(q) : Tail(q)[i] # q[1]
      BY <1>1, <1>4, <2>2, TailOfDistinct
    <3>2. Topic[q[1]] = c /\ pc'[q[1]] = "waiting" /\ q[1] # s
      BY <1>2, <1>3, <1>4, <1>1, <3>1
    <3>3. PICK t \in Subs : t = q[1]
      BY <3>1
    <3>4. Topic[t] = c /\ pc'[t] = "waiting" /\ \A i \in DOMAIN chan'[c].cv : chan'[c].cv[i] # t
      <4>1. chan'[c].cv = Tail(q)
        BY <1>2, <2>2
      <4> HIDE DEF q
      <4> QED
        BY <3>1, <3>2, <3>3, <4>1
    <3>5. Woken(t)'
      BY <3>4 DEF Woken
    <3> QED
      BY <2>2, <3>4, <3>5
  <2>3. CASE d = c /\ seg.chan.cv = q /\ ~chan[c].acquired /\ pc[s] \in Live
    <3>1. PICK t \in Subs : Topic[t] = c /\ (Woken(t) \/ pc[t] = "abandoned")
      BY <1>1, <1>2, <2>3 DEF WakeInv, WakeLostOnlyToStop
    <3>2. t # s /\ pc'[t] = pc[t]
      BY <1>2, <2>3, <3>1 DEF Woken, Live
    <3> QED
      BY <1>2, <2>3, <3>1, <3>2 DEF Woken
  <2> QED
    BY <1>2, <2>1, <2>2, <2>3 DEF QueueShape
<1> QED
  BY <1>5, <1>6 DEF WakeInv

\* The others keep their places when one leaves the queue.
LEMMA WithoutWaiterQueue ==
  ASSUME NEW ch \in ChannelStates, NEW s \in Subs,
         \A i, j \in DOMAIN ch.cv : ch.cv[i] = ch.cv[j] => i = j
  PROVE  LET r == WithoutWaiter(s, ch).cv
         IN  /\ \A i \in DOMAIN r : r[i] # s /\ \E k \in DOMAIN ch.cv : r[i] = ch.cv[k]
             /\ \A i, j \in DOMAIN r : r[i] = r[j] => i = j
             /\ \A j \in DOMAIN ch.cv : ch.cv[j] # s => \E i \in DOMAIN r : r[i] = ch.cv[j]
<1> DEFINE q == ch.cv
<1>1. q \in Seq(Subs)
  BY DEF ChannelStates
<1>2. CASE \A i \in DOMAIN q : q[i] # s
  <2>1. WithoutWaiter(s, ch).cv = q
    BY <1>2 DEF WithoutWaiter, ChannelStates
  <2> QED
    BY <1>2, <2>1
<1>3. CASE \E i \in DOMAIN q : q[i] = s
  <2> DEFINE k == CHOOSE i \in DOMAIN q : q[i] = s
             r == SubSeq(q, 1, k - 1) \o SubSeq(q, k + 1, Len(q))
  <2>1. WithoutWaiter(s, ch).cv = r
    BY <1>3 DEF WithoutWaiter, ChannelStates
  <2>2. k \in DOMAIN q /\ q[k] = s
    BY <1>3
  <2> HIDE DEF k, q
  <2>3. /\ Len(q) \in Nat /\ DOMAIN q = 1 .. Len(q)
        /\ Len(SubSeq(q, 1, k - 1)) = k - 1
        /\ \A i \in 1 .. k - 1 : SubSeq(q, 1, k - 1)[i] = q[i]
        /\ Len(SubSeq(q, k + 1, Len(q))) = Len(q) - k
        /\ \A i \in 1 .. Len(q) - k : SubSeq(q, k + 1, Len(q))[i] = q[k + i]
        /\ SubSeq(q, 1, k - 1) \in Seq(Subs) /\ SubSeq(q, k + 1, Len(q)) \in Seq(Subs)
    BY <1>1, <2>2
  <2>4. /\ DOMAIN r = 1 .. Len(q) - 1
        /\ \A i \in 1 .. k - 1 : r[i] = q[i]
        /\ \A i \in k .. Len(q) - 1 : r[i] = q[i + 1]
    <3> DEFINE a == SubSeq(q, 1, k - 1)
               b == SubSeq(q, k + 1, Len(q))
    <3>1. /\ a \in Seq(Subs) /\ b \in Seq(Subs)
          /\ Len(a) = k - 1 /\ Len(b) = Len(q) - k
          /\ k \in Int /\ 1 <= k /\ k <= Len(q) /\ Len(q) \in Nat
          /\ \A i \in 1 .. k - 1 : a[i] = q[i]
          /\ \A i \in 1 .. Len(q) - k : b[i] = q[k + i]
      BY <2>2, <2>3
    <3> HIDE DEF a, b
    <3>2. /\ Len(a \o b) = Len(q) - 1 /\ a \o b \in Seq(Subs)
          /\ \A i \in 1 .. Len(q) - 1 : (a \o b)[i] = IF i <= k - 1 THEN a[i] ELSE b[i - (k - 1)]
      <4> a \in Seq(Subs) /\ b \in Seq(Subs)
        BY <3>1
      <4>1. /\ a \o b \in Seq(Subs)
            /\ Len(a \o b) = Len(a) + Len(b)
            /\ \A i \in 1 .. Len(a) + Len(b) :
                 (a \o b)[i] = IF i <= Len(a) THEN a[i] ELSE b[i - Len(a)]
        BY ConcatProperties, Zenon
      <4>2. Len(a) + Len(b) = Len(q) - 1
        BY <3>1
      <4> QED
        BY <3>1, <4>1, <4>2
    <3>3. \A i \in k .. Len(q) - 1 : /\ (a \o b)[i] = b[i - (k - 1)]
                                     /\ i - (k - 1) \in 1 .. Len(q) - k
                                     /\ k + (i - (k - 1)) = i + 1
      BY <3>1, <3>2
    <3>4. \A i \in k .. Len(q) - 1 : (a \o b)[i] = q[i + 1]
      BY <3>1, <3>3
    <3>5. DOMAIN (a \o b) = 1 .. Len(q) - 1
      BY <3>2
    <3>6. \A i \in 1 .. k - 1 : (a \o b)[i] = q[i]
      BY <3>1, <3>2
    <3> QED
      BY <3>4, <3>5, <3>6 DEF a, b
  <2> HIDE DEF r
  <2>5. /\ \A i, j \in DOMAIN q : q[i] = q[j] => i = j
        /\ k \in Int /\ 1 <= k /\ k <= Len(q) /\ Len(q) \in Nat
        /\ DOMAIN q = 1 .. Len(q)
    BY <2>2, <2>3 DEF q
  <2>6. \A i \in DOMAIN r : \/ i < k /\ i \in DOMAIN q /\ r[i] = q[i]
                            \/ i >= k /\ i + 1 \in DOMAIN q /\ r[i] = q[i + 1]
    BY <2>4, <2>5
  <2>7. \A i \in DOMAIN r : r[i] # s /\ \E j \in DOMAIN q : r[i] = q[j]
    <3> SUFFICES ASSUME NEW i \in DOMAIN r
                 PROVE  r[i] # s /\ \E j \in DOMAIN q : r[i] = q[j]
      OBVIOUS
    <3>1. CASE i < k /\ i \in DOMAIN q /\ r[i] = q[i]
      BY <3>1, <2>2, <2>5
    <3>2. CASE i >= k /\ i + 1 \in DOMAIN q /\ r[i] = q[i + 1]
      <4>1. i \in Int /\ i + 1 # k
        BY <3>2, <2>4, <2>5
      <4> QED
        BY <3>2, <4>1, <2>2, <2>5
    <3> QED
      BY <2>6, <3>1, <3>2
  <2>8. \A i, j \in DOMAIN r : r[i] = r[j] => i = j
    <3> SUFFICES ASSUME NEW i \in DOMAIN r, NEW j \in DOMAIN r, r[i] = r[j]
                 PROVE  i = j
      OBVIOUS
    <3>1. /\ i \in Int /\ j \in Int
          /\ \/ i < k /\ i \in DOMAIN q /\ r[i] = q[i]
             \/ i >= k /\ i + 1 \in DOMAIN q /\ r[i] = q[i + 1]
          /\ \/ j < k /\ j \in DOMAIN q /\ r[j] = q[j]
             \/ j >= k /\ j + 1 \in DOMAIN q /\ r[j] = q[j + 1]
      BY <2>4, <2>5, <2>6
    <3>2. CASE i < k /\ j < k
      BY <3>1, <3>2, <2>5
    <3>3. CASE i >= k /\ j >= k
      <4>1. i + 1 = j + 1
        BY <3>1, <3>3, <2>5
      <4> QED
        BY <3>1, <4>1
    <3>4. CASE i < k /\ j >= k
      <4>1. i = j + 1
        BY <3>1, <3>4, <2>5
      <4> QED
        BY <3>1, <3>4, <4>1, <2>5
    <3>5. CASE i >= k /\ j < k
      <4>1. i + 1 = j
        BY <3>1, <3>5, <2>5
      <4> QED
        BY <3>1, <3>5, <4>1, <2>5
    <3> QED
      BY <3>1, <3>2, <3>3, <3>4, <3>5, <2>5
  <2>9. \A j \in DOMAIN q : q[j] # s => \E i \in DOMAIN r : r[i] = q[j]
    <3> SUFFICES ASSUME NEW j \in DOMAIN q, q[j] # s PROVE \E i \in DOMAIN r : r[i] = q[j]
      OBVIOUS
    <3>1. CASE j < k
      BY <2>4, <2>5, <3>1
    <3>2. CASE j > k
      <4>1. j - 1 \in k .. Len(q) - 1 /\ j - 1 \in DOMAIN r /\ (j - 1) + 1 = j
        BY <2>4, <2>5, <3>2
      <4>2. r[j - 1] = q[j]
        BY <2>4, <4>1
      <4> QED
        BY <4>1, <4>2
    <3> QED
      BY <2>2, <2>5, <3>1, <3>2
  <2> QED
    BY <2>1, <2>7, <2>8, <2>9 DEF q
<1> QED
  BY <1>2, <1>3

LEMMA StopWhileWaitingKeepsWakeInv ==
  ASSUME IInv, WakeInv, NEW s \in Subs, StopWhileWaiting(s)
  PROVE  WakeInv'
<1> DEFINE c    == Topic[s]
           left == WithoutWaiter(s, chan[c])
<1>1. /\ c \in Channels /\ chan[c] \in ChannelStates
      /\ pc \in [Subs -> PCs] /\ chan \in [Channels -> ChannelStates]
  BY TopicAssumption DEF IInv, TypeOK
<1>2. /\ pc'[s] = "abandoned" /\ chan'[c] = left /\ pc[s] = "waiting"
      /\ \A t \in Subs : t # s => pc'[t] = pc[t]
      /\ \A d \in Channels : d # c => chan'[d] = chan[d]
  BY <1>1 DEF StopWhileWaiting
<1>3. /\ \A i \in DOMAIN left.cv : /\ left.cv[i] # s
                                   /\ \E k \in DOMAIN chan[c].cv : left.cv[i] = chan[c].cv[k]
      /\ \A i, j \in DOMAIN left.cv : left.cv[i] = left.cv[j] => i = j
  BY <1>1, WithoutWaiterQueue DEF WakeInv, WaitersQueued
<1> HIDE DEF left
<1>4. WaitersQueued'
  <2> SUFFICES ASSUME NEW d \in Channels
               PROVE  /\ \A i \in DOMAIN chan'[d].cv :
                           pc'[chan'[d].cv[i]] = "waiting" /\ Topic[chan'[d].cv[i]] = d
                      /\ \A i, j \in DOMAIN chan'[d].cv : chan'[d].cv[i] = chan'[d].cv[j] => i = j
    BY DEF WaitersQueued
  <2>1. \A i \in DOMAIN chan[d].cv : /\ chan[d].cv[i] \in Subs
                                     /\ pc[chan[d].cv[i]] = "waiting"
                                     /\ Topic[chan[d].cv[i]] = d
    <3>1. chan[d].cv \in Seq(Subs)
      BY <1>1 DEF ChannelStates
    <3> QED
      BY <3>1 DEF WakeInv, WaitersQueued
  <2>2. CASE d = c
    <3>1. \A i \in DOMAIN left.cv : pc'[left.cv[i]] = "waiting" /\ Topic[left.cv[i]] = c
      BY <1>2, <1>3, <2>1, <2>2
    <3> QED
      BY <1>2, <1>3, <2>2, <3>1
  <2>3. CASE d # c
    <3>1. chan'[d] = chan[d] /\ \A i \in DOMAIN chan[d].cv : chan[d].cv[i] # s
      BY <1>2, <2>1, <2>3
    <3> QED
      BY <1>2, <2>1, <3>1 DEF WakeInv, WaitersQueued
  <2> QED
    BY <2>2, <2>3
<1>5. WakeLostOnlyToStop'
  <2> SUFFICES ASSUME NEW d \in Channels, ~chan'[d].acquired, chan'[d].cv # <<>>
               PROVE  \E t \in Subs : Topic[t] = d /\ (Woken(t)' \/ pc'[t] = "abandoned")
    BY DEF WakeLostOnlyToStop
  <2>1. CASE d = c
    BY <1>2, <2>1
  <2>2. CASE d # c
    <3>1. chan'[d] = chan[d]
      BY <1>2, <2>2
    <3>2. PICK t \in Subs : Topic[t] = d /\ (Woken(t) \/ pc[t] = "abandoned")
      BY <3>1 DEF WakeInv, WakeLostOnlyToStop
    <3>3. t # s /\ pc'[t] = pc[t]
      BY <1>2, <2>2, <3>2
    <3> QED
      BY <3>1, <3>2, <3>3 DEF Woken
  <2> QED
    BY <2>1, <2>2
<1> QED
  BY <1>4, <1>5 DEF WakeInv

\* What leaves coroutines and channels alone wakes nobody and loses nothing.
LEMMA UntouchedWakeInv ==
  ASSUME WakeInv, UNCHANGED chan,
         \A s \in Subs : pc[s] \in {"waiting", "abandoned"} => pc'[s] = pc[s],
         \A c \in Channels : \A i \in DOMAIN chan[c].cv : chan[c].cv[i] \in Subs
  PROVE  WakeInv'
<1>1. WaitersQueued'
  BY DEF WakeInv, WaitersQueued
<1>2. WakeLostOnlyToStop'
  <2> SUFFICES ASSUME NEW d \in Channels, ~chan'[d].acquired, chan'[d].cv # <<>>
               PROVE  \E t \in Subs : Topic[t] = d /\ (Woken(t)' \/ pc'[t] = "abandoned")
    BY DEF WakeLostOnlyToStop
  <2>1. PICK t \in Subs : Topic[t] = d /\ (Woken(t) \/ pc[t] = "abandoned")
    BY DEF WakeInv, WakeLostOnlyToStop
  <2> QED
    BY <2>1 DEF Woken
<1> QED
  BY <1>1, <1>2 DEF WakeInv

LEMMA StepWakeInv == IInv /\ WakeInv /\ [Next]_vars => WakeInv'
<1> SUFFICES ASSUME IInv, WakeInv, [Next]_vars PROVE WakeInv'
  OBVIOUS
<1>0. /\ \A c \in Channels : \A i \in DOMAIN chan[c].cv : chan[c].cv[i] \in Subs
      /\ pc \in [Subs -> PCs]
  <2>1. \A c \in Channels : chan[c].cv \in Seq(Subs)
    BY DEF IInv, TypeOK, ChannelStates
  <2> QED
    BY <2>1 DEF IInv, TypeOK
<1>1. CASE UNCHANGED <<pc, chan>>
  BY <1>0, <1>1, UntouchedWakeInv
<1>2. ASSUME NEW s \in Subs, Create(s) PROVE WakeInv'
  BY <1>0, <1>2, UntouchedWakeInv DEF Create
<1>3. ASSUME NEW s \in Subs, Start(s) PROVE WakeInv'
  BY <1>3, SegmentShapes, SegmentQueues, RunToKeepsWakeInv DEF Start
<1>4. ASSUME NEW s \in Subs, Wake(s) PROVE WakeInv'
  <2>1. pc[s] = "waiting" /\ Woken(s)
    BY <1>4 DEF Wake, Woken
  <2> QED
    BY <1>4, <2>1, SegmentShapes, SegmentQueues, RunToKeepsWakeInv DEF Wake
<1>5. ASSUME NEW s \in Subs, StopWhileWaiting(s) PROVE WakeInv'
  BY <1>5, StopWhileWaitingKeepsWakeInv
<1>6. ASSUME NEW s \in Subs, StopSeen(s) PROVE WakeInv'
  BY <1>6, SegmentShapes, SegmentQueues, RunToKeepsWakeInv DEF StopSeen
<1>7. ASSUME NEW s \in Subs, Drained(s) PROVE WakeInv'
  BY <1>7, SegmentShapes, SegmentQueues, RunToKeepsWakeInv DEF Drained
<1>8. ASSUME NEW s \in Subs, Stop(s) PROVE WakeInv'
  BY <1>1, <1>8 DEF Stop
<1>9. CASE ConnectionUp \/ ReaderDown \/ \E c \in Channels, e \in Responses : Response(c, e)
  BY <1>1, <1>9 DEF ConnectionUp, ReaderDown, Response, Notify
<1> QED
  BY <1>1, <1>2, <1>3, <1>4, <1>5, <1>6, <1>7, <1>8, <1>9 DEF Next, SubscriptionStep, vars

LEMMA InitWakeInv == Init => WakeInv
BY DEF Init, WakeInv, WaitersQueued, WakeLostOnlyToStop, Absent

----------------------------------------------------------------------------
(* The turns.  A waiter that has been woken goes on without looking: with  *)
(* three contenders a newcomer may have acquired the channel before it.    *)

\* No woken waiter is about to take a channel that another has acquired.
NoOvertaking == \A s \in Subs : Woken(s) => ~chan[Topic[s]].acquired

\* A coroutine that holds a channel is its listener, and so the only one.
SoleHolder ==
  \A s \in Subs : pc[s] \in Live => /\ chan[Topic[s]].acquired
                                    /\ chan[Topic[s]].on_event = s

\* What run() does to the state of the machine that holds its channel, down
\* when none does, and what it sends meanwhile.
RunMoves(before, after, sends) ==
  \/ after = before /\ sends = <<>>
  \/ before \in {"down", "closed"} /\ after \in {"down", "closed"} /\ sends = <<>>
  \/ before = "down" /\ after = "opening" /\ sends = <<"subscribe">>
  \/ before = "open" /\ after = "closing" /\ sends = <<"unsubscribe">>

\* How a segment leaves the channel: it queues behind the holder, or holds it
\* itself, or has released it.
TurnShape(s, seg) ==
  LET ch     == chan[Topic[s]]
      before == IF ch.acquired THEN sm[s].state ELSE "down"
  IN  /\ "acquired" \notin seg.fails
      /\ ch.acquired /\ seg.pc # "waiting" => ch.on_event = s
      /\ \/ /\ seg.pc = "waiting" /\ seg.sends = <<>>
            /\ ch.acquired /\ seg.chan.acquired
            /\ seg.chan.on_event = ch.on_event /\ seg.chan.cv = Append(ch.cv, s)
         \/ /\ seg.pc \in Live /\ seg.chan.acquired /\ seg.chan.on_event = s
            /\ seg.chan.cv = ch.cv
            /\ RunMoves(before, seg.sm.state, seg.sends)
         \/ /\ seg.pc = "done" /\ ~seg.chan.acquired
            /\ RunMoves(before, "down", seg.sends)

LEMMA AwaitClosedTurn ==
  ASSUME NEW r, NEW ch \in ChannelStates, ch.acquired
  PROVE  LET seg == AwaitClosed(r, ch)
         IN  /\ seg.sends = r.sends /\ "acquired" \notin seg.fails
             /\ \/ seg.pc = "done" /\ ~seg.chan.acquired /\ r.sm.state = "closed"
                \/ seg.pc = "draining" /\ seg.chan = ch /\ seg.sm = r.sm
<1>1. ~Released(ch).acquired
  BY ReleasedFacts
<1>2. "acquired" \notin ReleaseAsserts(ch)
  BY DEF ReleaseAsserts
<1> QED
  BY <1>1, <1>2 DEF AwaitClosed

\* From a free channel.
LEMMA AcquireTurn ==
  ASSUME NEW s \in Subs, NEW ch \in ChannelStates
  PROVE  LET seg == Acquire(s, ch)
         IN  /\ "acquired" \notin seg.fails
             /\ \/ /\ seg.pc \in Live /\ seg.chan.acquired /\ seg.chan.on_event = s
                   /\ seg.chan.cv = ch.cv
                   /\ RunMoves("down", seg.sm.state, seg.sends)
                \/ /\ seg.pc = "done" /\ ~seg.chan.acquired
                   /\ RunMoves("down", "down", seg.sends)
<1> DEFINE held  == AcquiredBy(s, ch)
           begun == IF connUp THEN ProcessEvent(FreshMachine, "up") ELSE Stay(FreshMachine)
           ended == [Close(begun.sm) EXCEPT !.sends = begun.sends \o @]
<1>1. /\ held \in ChannelStates /\ held.acquired /\ held.on_event = s
      /\ held.cv = ch.cv
  BY WaiterFacts DEF AcquiredBy, ChannelStates
<1>2. \/ begun.sm.state = "opening" /\ begun.sends = <<"subscribe">>
      \/ begun.sm.state = "down" /\ begun.sends = <<>>
  BY DEF ProcessEvent, FreshMachine, ProcessDownEvent, Enter, Stay
<1>3. \/ ended.sm.state = "opening" /\ ended.sends = <<"subscribe">>
      \/ ended.sm.state = "closed" /\ ended.sends = <<>>
  <2>1. CASE connUp
    <3>1. begun = [sm |-> [state |-> "opening", close_requested |-> FALSE],
                   sends |-> <<"subscribe">>, drop |-> FALSE]
      BY <2>1 DEF ProcessEvent, FreshMachine, ProcessDownEvent, Enter, Stay
    <3>2. Close(begun.sm).sm.state = "opening" /\ Close(begun.sm).sends = <<>>
      BY <3>1 DEF Close, Stay
    <3> HIDE DEF begun
    <3>3. ended.sends = <<"subscribe">> \o <<>>
      BY <3>1, <3>2 DEF Close, Stay, EnterClosed, EnterClosing, Enter
    <3>4. <<"subscribe">> \o <<>> = <<"subscribe">>
      OBVIOUS
    <3> QED
      BY <3>1, <3>2, <3>3, <3>4
  <2>2. CASE ~connUp
    <3>1. begun = [sm |-> [state |-> "down", close_requested |-> FALSE],
                   sends |-> <<>>, drop |-> FALSE]
      BY <2>2 DEF FreshMachine, Stay
    <3>2. Close(begun.sm).sm.state = "closed" /\ Close(begun.sm).sends = <<>>
      BY <3>1 DEF Close, EnterClosed, Enter, Stay
    <3> HIDE DEF begun
    <3>3. ended.sends = <<>> \o <<>>
      BY <3>1, <3>2 DEF Close, Stay, EnterClosed, EnterClosing, Enter
    <3>4. <<>> \o <<>> = <<>>
      OBVIOUS
    <3> QED
      BY <3>1, <3>2, <3>3, <3>4
  <2> QED
    BY <2>1, <2>2
<1>4. CASE stopLatch[s]
  <2>1. Acquire(s, ch) = AwaitClosed(ended, held)
    BY <1>4 DEF Acquire
  <2> HIDE DEF ended, held
  <2> QED
    BY <1>1, <1>3, <2>1, AwaitClosedTurn DEF Live, RunMoves
<1>5. CASE ~stopLatch[s]
  <2>1. Acquire(s, ch) = [pc |-> "holding", sm |-> begun.sm, chan |-> held,
                          sends |-> begun.sends, fails |-> {}]
    BY <1>5 DEF Acquire
  <2> HIDE DEF begun, held
  <2> QED
    BY <1>1, <1>2, <2>1 DEF Live, RunMoves
<1> QED
  BY <1>4, <1>5

LEMMA SegmentTurns ==
  ASSUME IInv, SoleHolder, NoOvertaking, NEW s \in Subs
  PROVE  /\ pc[s] = "spawned" => TurnShape(s, StartSegment(s))
         /\ Woken(s) => TurnShape(s, WakeSegment(s))
         /\ pc[s] = "holding" => TurnShape(s, StopSegment(s))
         /\ pc[s] = "draining" /\ sm[s].state = "closed" => TurnShape(s, DrainedSegment(s))
<1> DEFINE ch == chan[Topic[s]]
<1>1. /\ ch \in ChannelStates /\ sm[s] \in Machines /\ SoundMachine(sm[s])
      /\ sm[s].close_requested <=> pc[s] = "draining"
  BY TopicAssumption DEF IInv, TypeOK, SoundMachines
<1>2. CASE pc[s] = "spawned"
  <2> DEFINE here == Located(ch)
             seg  == StartSegment(s)
  <2>1. here \in ChannelStates /\ here.acquired = ch.acquired /\ here.cv = ch.cv
        /\ here.on_event = ch.on_event
    BY <1>1, WaiterFacts DEF Located, ChannelStates
  <2>2. CASE here.acquired
    <3>1. seg = [pc |-> "waiting", sm |-> FreshMachine, chan |-> WaitedOnBy(s, here),
                 sends |-> <<>>, fails |-> {}]
      BY <2>2 DEF StartSegment
    <3> HIDE DEF seg, here
    <3>2. /\ WaitedOnBy(s, here).cv = Append(ch.cv, s) /\ WaitedOnBy(s, here).acquired
          /\ WaitedOnBy(s, here).on_event = ch.on_event
      BY <2>1, <2>2, WaiterFacts DEF WaitedOnBy, ChannelStates
    <3>3. TurnShape(s, seg)
      BY <2>1, <2>2, <3>1, <3>2 DEF TurnShape
    <3> QED
      BY <1>2, <3>3 DEF seg, Woken
  <2>3. CASE ~here.acquired
    <3>1. seg = Acquire(s, here)
      BY <2>3 DEF StartSegment
    <3> HIDE DEF seg, here
    <3>2. TurnShape(s, seg)
      BY <2>1, <2>3, <3>1, AcquireTurn DEF TurnShape
    <3> QED
      BY <1>2, <3>2 DEF seg, Woken
  <2> QED
    BY <2>2, <2>3
<1>3. CASE Woken(s)
  <2>1. ~ch.acquired /\ pc[s] = "waiting"
    BY <1>3 DEF NoOvertaking, Woken
  <2>2. TurnShape(s, Acquire(s, ch))
    BY <1>1, <2>1, AcquireTurn DEF TurnShape
  <2> QED
    BY <2>1, <2>2 DEF WakeSegment
<1>4. CASE pc[s] \in Live
  <2>1. ch.acquired /\ ch.on_event = s
    BY <1>4 DEF SoleHolder
  <2>2. ASSUME NEW r, RunMoves(sm[s].state, r.sm.state, r.sends)
        PROVE  TurnShape(s, AwaitClosed(r, ch))
    <3> DEFINE seg == AwaitClosed(r, ch)
    <3>1. /\ seg.sends = r.sends /\ "acquired" \notin seg.fails
          /\ \/ seg.pc = "done" /\ ~seg.chan.acquired /\ r.sm.state = "closed"
             \/ seg.pc = "draining" /\ seg.chan = ch /\ seg.sm = r.sm
      BY <1>1, <2>1, AwaitClosedTurn
    <3> HIDE DEF seg
    <3>2. r.sm.state = "closed" => RunMoves(sm[s].state, "down", r.sends)
      BY <2>2 DEF RunMoves
    <3>3. TurnShape(s, seg)
      BY <2>1, <2>2, <3>1, <3>2 DEF TurnShape, Live
    <3> QED
      BY <3>3 DEF seg
  <2>3. CASE pc[s] = "holding"
    <3>1. ~sm[s].close_requested /\ sm[s].state \in {"down", "opening", "open"}
      BY <1>1, <2>3 DEF SoundMachine, Machines, States
    <3>2. RunMoves(sm[s].state, Close(sm[s]).sm.state, Close(sm[s]).sends)
      BY <1>1, <3>1 DEF Close, RunMoves, EnterClosed, EnterClosing, Enter, Stay, Machines
    <3> QED
      BY <2>2, <2>3, <3>2 DEF StopSegment, Woken
  <2>4. CASE pc[s] = "draining"
    <3>1. RunMoves(sm[s].state, Stay(sm[s]).sm.state, Stay(sm[s]).sends)
      BY DEF Stay, RunMoves
    <3> QED
      BY <2>2, <2>4, <3>1 DEF DrainedSegment, Woken
  <2> QED
    BY <1>4, <2>3, <2>4 DEF Live
<1> QED
  BY <1>2, <1>3, <1>4 DEF Live

\* The next holder takes its turn when the last has released the channel.
LEMMA RunToKeepsSoleHolder ==
  ASSUME IInv, SoleHolder, NEW s \in Subs, NEW seg, TurnShape(s, seg), RunTo(s, seg)
  PROVE  SoleHolder' /\ (ReleaseFindsAcquired => ReleaseFindsAcquired')
<1> DEFINE c == Topic[s]
<1>1. /\ c \in Channels /\ pc \in [Subs -> PCs] /\ chan \in [Channels -> ChannelStates]
  BY TopicAssumption DEF IInv, TypeOK
<1>2. /\ pc'[s] = seg.pc /\ chan'[c] = seg.chan
      /\ \A t \in Subs : t # s => pc'[t] = pc[t]
      /\ \A d \in Channels : d # c => chan'[d] = chan[d]
      /\ failedAsserts' = failedAsserts \cup seg.fails
  BY <1>1 DEF RunTo
<1>3. SoleHolder'
  <2> SUFFICES ASSUME NEW t \in Subs, pc'[t] \in Live
               PROVE  chan'[Topic[t]].acquired /\ chan'[Topic[t]].on_event = t
    BY DEF SoleHolder
  <2>1. CASE t = s
    BY <1>2, <2>1 DEF TurnShape, Live
  <2>2. CASE t # s /\ Topic[t] # c
    BY <1>2, <2>2, TopicAssumption DEF SoleHolder
  <2>3. CASE t # s /\ Topic[t] = c
    <3>1. chan[c].acquired /\ chan[c].on_event = t
      BY <1>2, <2>3 DEF SoleHolder
    <3>2. seg.pc = "waiting"
      BY <2>3, <3>1 DEF TurnShape
    <3>3. seg.chan.acquired /\ seg.chan.on_event = t
      BY <3>1, <3>2 DEF TurnShape, Live
    <3> QED
      BY <1>2, <2>3, <3>3
  <2> QED
    BY <2>1, <2>2, <2>3
<1>4. ReleaseFindsAcquired => ReleaseFindsAcquired'
  BY <1>2 DEF ReleaseFindsAcquired, TurnShape
<1> QED
  BY <1>3, <1>4

LEMMA StepSoleHolder ==
  IInv /\ SoleHolder /\ NoOvertaking /\ [Next]_vars
    => SoleHolder' /\ (ReleaseFindsAcquired => ReleaseFindsAcquired')
<1> SUFFICES ASSUME IInv, SoleHolder, NoOvertaking, [Next]_vars
             PROVE  SoleHolder' /\ (ReleaseFindsAcquired => ReleaseFindsAcquired')
  OBVIOUS
<1>0. TypeOK
  BY DEF IInv
<1>1. CASE UNCHANGED <<pc, chan, failedAsserts>>
  BY <1>1 DEF SoleHolder, ReleaseFindsAcquired
<1>2. ASSUME NEW s \in Subs, Create(s)
      PROVE  SoleHolder' /\ (ReleaseFindsAcquired => ReleaseFindsAcquired')
  BY <1>0, <1>2 DEF Create, SoleHolder, ReleaseFindsAcquired, Live, TypeOK
<1>3. ASSUME NEW s \in Subs, Start(s) \/ Wake(s) \/ StopSeen(s) \/ Drained(s)
      PROVE  SoleHolder' /\ (ReleaseFindsAcquired => ReleaseFindsAcquired')
  BY <1>3, SegmentTurns, RunToKeepsSoleHolder DEF Start, Wake, StopSeen, Drained
<1>4. ASSUME NEW s \in Subs, StopWhileWaiting(s)
      PROVE  SoleHolder' /\ (ReleaseFindsAcquired => ReleaseFindsAcquired')
  <2>1. /\ \A t \in Subs : pc'[t] \in Live => pc[t] \in Live
        /\ \A d \in Channels : /\ chan'[d].acquired = chan[d].acquired
                               /\ chan'[d].on_event = chan[d].on_event
        /\ UNCHANGED failedAsserts
    <3>1. \A ch \in ChannelStates : /\ WithoutWaiter(s, ch).acquired = ch.acquired
                                    /\ WithoutWaiter(s, ch).on_event = ch.on_event
      BY DEF WithoutWaiter, ChannelStates
    <3>2. /\ \A t \in Subs : pc'[t] = IF t = s THEN "abandoned" ELSE pc[t]
          /\ \A d \in Channels : chan'[d] = IF d = Topic[s] THEN WithoutWaiter(s, chan[d])
                                                            ELSE chan[d]
          /\ UNCHANGED failedAsserts
      BY <1>0, <1>4, TopicAssumption DEF StopWhileWaiting, TypeOK
    <3> QED
      BY <1>0, <3>1, <3>2 DEF TypeOK, Live
  <2> QED
    BY <2>1, TopicAssumption DEF SoleHolder, ReleaseFindsAcquired
<1>5. ASSUME NEW s \in Subs, Stop(s)
      PROVE  SoleHolder' /\ (ReleaseFindsAcquired => ReleaseFindsAcquired')
  BY <1>1, <1>5 DEF Stop
<1>6. CASE ConnectionUp \/ ReaderDown \/ \E c \in Channels, e \in Responses : Response(c, e)
  <2>1. UNCHANGED <<pc, chan>> /\ ("acquired" \in failedAsserts' => "acquired" \in failedAsserts)
    BY <1>6 DEF ConnectionUp, ReaderDown, Response, Notify
  <2> QED
    BY <2>1 DEF SoleHolder, ReleaseFindsAcquired
<1> QED
  BY <1>1, <1>2, <1>3, <1>4, <1>5, <1>6 DEF Next, SubscriptionStep, vars

\* No channel has more than two contenders.
TwoContenders ==
  \A r, s, t \in Subs : Topic[r] = Topic[s] /\ Topic[s] = Topic[t] => r = s \/ s = t \/ r = t

\* With two, a waiter is woken by the release of the other, and by nothing else.
OthersDone ==
  \A s, t \in Subs : Woken(s) /\ t # s /\ Topic[t] = Topic[s] => pc[t] = "done"

LEMMA NobodyOvertakes ==
  ASSUME IInv, OthersDone
  PROVE  NoOvertaking
<1> SUFFICES ASSUME NEW s \in Subs, Woken(s), chan[Topic[s]].acquired PROVE FALSE
  BY DEF NoOvertaking
<1>1. PICK t \in Subs : Topic[t] = Topic[s] /\ pc[t] \in {"holding", "draining"}
  BY TopicAssumption DEF IInv, HandlerLive
<1> QED
  BY <1>1 DEF OthersDone, Woken

LEMMA RunToKeepsOthersDone ==
  ASSUME TwoContenders, IInv, WaitersQueued, OthersDone, NEW s \in Subs, NEW seg, TurnShape(s, seg),
         RunTo(s, seg), pc[s] \notin {"new", "done"}
  PROVE  OthersDone'
<1> DEFINE c == Topic[s]
<1>1. /\ c \in Channels /\ pc \in [Subs -> PCs] /\ chan \in [Channels -> ChannelStates]
      /\ chan[c].cv \in Seq(Subs)
  BY TopicAssumption DEF IInv, TypeOK, ChannelStates
<1>2. /\ pc'[s] = seg.pc /\ chan'[c] = seg.chan
      /\ \A t \in Subs : t # s => pc'[t] = pc[t]
      /\ \A d \in Channels : d # c => chan'[d] = chan[d]
  BY <1>1 DEF RunTo
<1> SUFFICES ASSUME NEW w \in Subs, NEW t \in Subs, pc'[w] = "waiting",
                    \A i \in DOMAIN chan'[Topic[w]].cv : chan'[Topic[w]].cv[i] # w,
                    t # w, Topic[t] = Topic[w]
             PROVE  pc'[t] = "done"
  BY DEF OthersDone, Woken
<1>3. CASE w = s
  <2>1. seg.chan.cv = Append(chan[c].cv, s)
    BY <1>2, <1>3 DEF TurnShape, Live
  <2>2. /\ Len(chan[c].cv) + 1 \in DOMAIN Append(chan[c].cv, s)
        /\ Append(chan[c].cv, s)[Len(chan[c].cv) + 1] = s
    BY <1>1
  <2> QED
    BY <1>2, <1>3, <2>1, <2>2
<1>4. CASE w # s /\ Topic[w] # c
  <2>1. Woken(w) /\ t # s
    BY <1>2, <1>4, TopicAssumption DEF Woken
  <2> QED
    BY <1>2, <2>1 DEF OthersDone
<1>5. CASE w # s /\ Topic[w] = c
  <2>1. t = s
    BY <1>5 DEF TwoContenders
  <2>2. ~Woken(w)
    BY <1>5, <2>1 DEF OthersDone
  <2>3. PICK i \in DOMAIN chan[c].cv : chan[c].cv[i] = w
    BY <1>2, <1>5, <2>2 DEF Woken
  <2>4. seg.chan.cv # chan[c].cv
    BY <1>2, <1>5, <2>3
  <2>5. seg.chan.cv # Append(chan[c].cv, s)
    <3>1. i \in DOMAIN Append(chan[c].cv, s) /\ Append(chan[c].cv, s)[i] = w
      BY <1>1, <2>3
    <3> QED
      BY <1>2, <1>5, <3>1
  <2> QED
    BY <1>2, <2>1, <2>4, <2>5 DEF TurnShape
<1> QED
  BY <1>3, <1>4, <1>5

\* What leaves the waiters alone and brings no coroutine back wakes nobody.
LEMMA UntouchedOthersDone ==
  ASSUME OthersDone,
         \A s \in Subs : /\ pc'[s] = "waiting" => pc[s] = "waiting"
                         /\ pc[s] = "done" => pc'[s] = "done",
         \A s \in Subs : pc'[s] = "waiting" =>
           \A i \in DOMAIN chan[Topic[s]].cv : chan[Topic[s]].cv[i] = s =>
             \E j \in DOMAIN chan'[Topic[s]].cv : chan'[Topic[s]].cv[j] = s
  PROVE  OthersDone'
<1> SUFFICES ASSUME NEW w \in Subs, NEW t \in Subs, pc'[w] = "waiting",
                    \A i \in DOMAIN chan'[Topic[w]].cv : chan'[Topic[w]].cv[i] # w,
                    t # w, Topic[t] = Topic[w]
             PROVE  pc'[t] = "done"
  BY DEF OthersDone, Woken
<1>1. Woken(w)
  BY DEF Woken
<1> QED
  BY <1>1 DEF OthersDone

LEMMA StepOthersDone ==
  ASSUME TwoContenders, IInv, WaitersQueued, SoleHolder, OthersDone, [Next]_vars
  PROVE  OthersDone'
<1>0. TypeOK /\ NoOvertaking
  BY NobodyOvertakes DEF IInv
<1>1. CASE UNCHANGED <<pc, chan>>
  BY <1>1, UntouchedOthersDone
<1>2. ASSUME NEW s \in Subs, Create(s) PROVE OthersDone'
  <2>1. \A t \in Subs : pc'[t] = IF t = s THEN "spawned" ELSE pc[t]
    BY <1>0, <1>2 DEF Create, TypeOK
  <2> QED
    BY <1>2, <2>1, UntouchedOthersDone DEF Create
<1>3. ASSUME NEW s \in Subs, Start(s) \/ Wake(s) \/ StopSeen(s) \/ Drained(s) PROVE OthersDone'
  BY <1>0, <1>3, SegmentTurns, RunToKeepsOthersDone DEF Start, Wake, Woken, StopSeen, Drained
<1>4. ASSUME NEW s \in Subs, StopWhileWaiting(s) PROVE OthersDone'
  <2> DEFINE left == WithoutWaiter(s, chan[Topic[s]])
  <2>1. \A j \in DOMAIN chan[Topic[s]].cv : chan[Topic[s]].cv[j] # s =>
          \E i \in DOMAIN left.cv : left.cv[i] = chan[Topic[s]].cv[j]
    <3>1. chan[Topic[s]] \in ChannelStates
      BY <1>0, TopicAssumption DEF TypeOK
    <3> QED
      BY <3>1, TopicAssumption, WithoutWaiterQueue DEF WaitersQueued
  <2>2. /\ \A t \in Subs : pc'[t] = IF t = s THEN "abandoned" ELSE pc[t]
        /\ \A d \in Channels : chan'[d] = IF d = Topic[s] THEN left ELSE chan[d]
        /\ pc[s] = "waiting"
    BY <1>0, <1>4, TopicAssumption DEF StopWhileWaiting, TypeOK
  <2> HIDE DEF left
  <2>3. \A t \in Subs : pc'[t] = "waiting" =>
          \A i \in DOMAIN chan[Topic[t]].cv : chan[Topic[t]].cv[i] = t =>
            \E j \in DOMAIN chan'[Topic[t]].cv : chan'[Topic[t]].cv[j] = t
    <3> SUFFICES ASSUME NEW t \in Subs, pc'[t] = "waiting", NEW i \in DOMAIN chan[Topic[t]].cv,
                        chan[Topic[t]].cv[i] = t
                 PROVE  \E j \in DOMAIN chan'[Topic[t]].cv : chan'[Topic[t]].cv[j] = t
      OBVIOUS
    <3>1. t # s
      BY <2>2
    <3>2. CASE Topic[t] = Topic[s]
      BY <2>1, <2>2, <3>1, <3>2, TopicAssumption
    <3>3. CASE Topic[t] # Topic[s]
      BY <2>2, <3>3, TopicAssumption
    <3> QED
      BY <3>2, <3>3
  <2> QED
    BY <2>2, <2>3, UntouchedOthersDone
<1>5. ASSUME NEW s \in Subs, Stop(s) PROVE OthersDone'
  BY <1>1, <1>5 DEF Stop
<1>6. CASE ConnectionUp \/ ReaderDown \/ \E c \in Channels, e \in Responses : Response(c, e)
  BY <1>1, <1>6 DEF ConnectionUp, ReaderDown, Response, Notify
<1> QED
  BY <1>1, <1>2, <1>3, <1>4, <1>5, <1>6 DEF Next, SubscriptionStep, vars

\* Two contenders take proper turns.
PairInv == SoleHolder /\ ReleaseFindsAcquired /\ OthersDone

LEMMA PairInvariance ==
  ASSUME TwoContenders
  PROVE  Spec => [](IInv /\ PairInv)
<1>1. Init => PairInv
  BY DEF Init, PairInv, SoleHolder, Live, ReleaseFindsAcquired, OthersDone, Woken
<1>2. IInv /\ WakeInv /\ PairInv /\ [Next]_vars => PairInv'
  BY NobodyOvertakes, StepSoleHolder, StepOthersDone DEF PairInv, WakeInv
<1> QED
  BY <1>1, <1>2, InitIInv, StepIInv, InitWakeInv, StepWakeInv, PTL DEF Spec

----------------------------------------------------------------------------
(* The theorems.                                                           *)

\* Every variable keeps its type.
THEOREM TypeCorrect == Spec => []TypeOK
<1>1. IInv => TypeOK
  BY DEF IInv
<1> QED
  BY <1>1, Invariance, PTL

\* The interest of a channel counts every run() coroutine that still has a reference
\* to its state, in whatever order starts, stops, wake-ups and events come, so that
\* the state is never erased under one (locate_channel, release_channel).
THEOREM StatesOutliveConsumers == Spec => []InterestCovers
<1>1. IInv => InterestCovers
  <2> SUFFICES ASSUME IInv, NEW c \in Channels
               PROVE  chan[c].interest >= Cardinality(Consumers(c))
    BY DEF InterestCovers
  <2>1. Consumers(c) \subseteq Interested(c) /\ Interested(c) \in SUBSET Subs
    BY DEF Consumers, Interested
  <2>2. IsFiniteSet(Interested(c))
    BY <2>1, SubsAssumption, FS_Subset
  <2>3. /\ IsFiniteSet(Consumers(c))
        /\ Cardinality(Consumers(c)) <= Cardinality(Interested(c))
    BY <2>1, <2>2, FS_Subset
  <2>4. Cardinality(Consumers(c)) \in Nat /\ Cardinality(Interested(c)) \in Nat
    BY <2>2, <2>3, FS_CardinalityType
  <2>5. chan[c].interest = Cardinality(Interested(c))
    BY DEF IInv, InterestExact
  <2> QED
    BY <2>3, <2>4, <2>5
<1> QED
  BY <1>1, Invariance, PTL

\* assert(state.interest) in release_channel never fails.
THEOREM InterestNeverUnderflows == Spec => []ReleaseFindsInterest
<1>1. IInv => ReleaseFindsInterest
  BY DEF IInv
<1> QED
  BY <1>1, Invariance, PTL

\* The connector never calls an on_event whose coroutine frame is gone.
THEOREM HandlersAreLive == Spec => []HandlerLive
<1>1. IInv => HandlerLive
  BY DEF IInv
<1> QED
  BY <1>1, Invariance, PTL

\* A machine is closing or closed only between the stop of its subscription and
\* the release of its channel, and is not reported open in between.
THEOREM ClosingFollowsStop == Spec => []ClosingOnlyOnStop
<1>1. IInv => ClosingOnlyOnStop
  BY DEF IInv, SoundMachines, SoundMachine, ClosingOnlyOnStop
<1> QED
  BY <1>1, Invariance, PTL

\* The releases of a channel lose no wake-up, in whatever order newcomers and
\* woken waiters run (release_channel, lines 64 to 76 of run()): a free channel
\* with sleepers has one that is already woken, unless one was stopped waiting.
THEOREM WakeupsLostOnlyToStops == Spec => []WakeLostOnlyToStop
<1>1. WakeInv => WakeLostOnlyToStop
  BY DEF WakeInv
<1> QED
  BY <1>1, InitWakeInv, StepWakeInv, Invariance, PTL DEF Spec

\* assert(state.acquired) in release_channel, which fails with three contenders
\* for a channel, never fails as long as no channel has more than two.
THEOREM TwoContendersReleaseInTurn ==
  ASSUME TwoContenders
  PROVE  Spec => []ReleaseFindsAcquired
<1>1. PairInv => ReleaseFindsAcquired
  BY DEF PairInv
<1> QED
  BY <1>1, PairInvariance, PTL
=============================================================================
