------------------------------- MODULE MCParts -------------------------------
(* Parts of the library that stand alone.  Three subscriptions contend for one *)
(* channel, a fourth has its own; three coroutines pop from an async_queue, or *)
(* from a circular buffer of one or two items; three others wait at an         *)
(* async_latch; a bid ladder is told of four prices; three key objects are     *)
(* made over four documents, where an object is built in two orders, numbers   *)
(* are equal without having the same bytes or kind, and a string is hashed     *)
(* like two elements.  They share nothing: each is looked at while the others  *)
(* are as they were constructed.                                               *)
EXTENDS MCChannelSubscriptions, AsyncQueue, AsyncLatch, BidLadder, EntityKeys

CONSTANTS p1, p2, p3

MCPoppers    == {p1, p2, p3}
MCCapacities == 0 .. 2

MCPrices == 1 .. 4
MCDepths == 0 .. 2
MCLimits == {0, 2, 3}

Leaf(kind, of, bytes) == [kind |-> kind, of |-> of, bytes |-> bytes]
Str(bytes)  == Leaf("string", bytes, bytes)
Zero(bytes) == Leaf("double", <<"0.0">>, bytes)
One(kind)   == Leaf(kind, <<"1">>, <<"0001">>)
Arr(values) == [kind |-> "array", of |-> values]
Obj(pairs)  == [kind |-> "object", of |-> pairs]

MCTree ==
     "plain"    :> Obj(<< <<"a", Obj(<< <<"0", Zero(<<"0000">>)>>, <<"c", One("int64")>> >>)>> >>)
  @@ "permuted" :> Obj(<< <<"a", Obj(<< <<"c", One("uint64")>>, <<"0", Zero(<<"0000">>)>> >>)>> >>)
  @@ "listed"   :> Obj(<< <<"a", Arr(<<Zero(<<"8000">>), Leaf("double", NaN, <<"7ff8">>)>>)>> >>)
  @@ "clashing" :> Obj(<< <<"a", Str(<<"0", "0000", "c", "0001", "/", "a", "/", "/", "0", "0000">>)>> >>)
MCWritten == { <<"a", "/">>, <<"/", "0">> }
MCIndexes == { {}, { <<"/", "a", "/", "/", "0">> } }
MCNameOrder == << "0", "a", "c" >>
MCPathOrder == << <<"/", "0">>, <<"/", "a">>, <<"/", "a", "/", "/", "0">> >>
MCOrdinal   == "0" :> 0
MCDocuments == DOMAIN MCTree

RECURSIVE WithParts(_), Nesting(_)
WithParts(v) == {v} \cup UNION {WithParts(part) : part \in Parts(v)}
Nesting(v) == IF Parts(v) = {} THEN 0 ELSE 1 + Max({Nesting(part) : part \in Parts(v)})

MCJsonValues == UNION {WithParts(MCTree[d]) : d \in MCDocuments}
MCDepth  == [v \in MCJsonValues |-> Nesting(v)]

----------------------------------------------------------------------------

QueueIdle  == QueueInit /\ capacity = 0
LatchIdle  == LatchInit /\ is_set
LadderIdle == LadderInit /\ max_levels = 3

restVars == <<queueVars, latchVars, ladderVars, key>>

MCInit ==
  /\ Init /\ QueueInit /\ LatchInit /\ LadderInit /\ KeysInit
  /\ \/ QueueIdle /\ LatchIdle
     \/ QueueIdle /\ LadderIdle
     \/ LatchIdle /\ LadderIdle

MCNext ==
  \/ /\ QueueIdle /\ LatchIdle /\ LadderIdle /\ KeysInit
     /\ Next /\ UNCHANGED restVars
  \/ /\ Init /\ LatchIdle /\ LadderIdle /\ KeysInit
     /\ QueueNext /\ UNCHANGED <<vars, latchVars, ladderVars, key>>
  \/ /\ Init /\ QueueIdle /\ LadderIdle /\ KeysInit
     /\ LatchNext /\ UNCHANGED <<vars, queueVars, ladderVars, key>>
  \/ /\ Init /\ QueueIdle /\ LatchIdle /\ KeysInit
     /\ LadderNext /\ UNCHANGED <<vars, queueVars, latchVars, key>>
  \/ /\ Init /\ QueueIdle /\ LatchIdle /\ LadderIdle
     /\ KeysNext /\ UNCHANGED <<vars, queueVars, latchVars, ladderVars>>

MCSpec == MCInit /\ [][MCNext]_<<vars, restVars>> /\ QueueFairness /\ LatchFairness
=============================================================================
