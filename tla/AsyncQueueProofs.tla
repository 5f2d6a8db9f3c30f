-------------------------- MODULE AsyncQueueProofs --------------------------
(***************************************************************************)
(* Proofs, for any number of poppers and any capacity, that the queues of  *)
(* the connector lose no wake-up; and, for any number of waiters, that a   *)
(* latch does not.                                                         *)
(***************************************************************************)
EXTENDS AsyncQueue, AsyncLatch, FiniteSetTheorems, SequenceTheorems, TLAPS

IInv == QueueTypeOK /\ WokenCoverItems

\* A push moves the oldest waiting popper, if there is one, to the woken ones.
LEMMA HeadTail ==
  ASSUME NEW w \in Seq(Poppers), w # <<>>,
         \A i, j \in DOMAIN w : w[i] = w[j] => i = j
  PROVE  /\ Head(w) \in Poppers
         /\ Tail(w) \in Seq(Poppers)
         /\ \A i, j \in DOMAIN Tail(w) : Tail(w)[i] = Tail(w)[j] => i = j
         /\ {Tail(w)[i] : i \in DOMAIN Tail(w)} = {w[i] : i \in DOMAIN w} \ {Head(w)}
<1>1. Len(w) \in Nat /\ Len(w) > 0 /\ DOMAIN w = 1 .. Len(w) /\ Head(w) = w[1]
  OBVIOUS
<1>2. /\ Tail(w) \in Seq(Poppers)
      /\ DOMAIN Tail(w) = 1 .. Len(w) - 1
      /\ \A i \in 1 .. Len(w) - 1 : Tail(w)[i] = w[i + 1]
  BY <1>1
<1>3. \A i, j \in DOMAIN Tail(w) : Tail(w)[i] = Tail(w)[j] => i = j
  BY <1>1, <1>2
<1>4. \A i \in DOMAIN Tail(w) : Tail(w)[i] \in {w[k] : k \in DOMAIN w} \ {Head(w)}
  BY <1>1, <1>2
<1>5. ASSUME NEW i \in DOMAIN w, w[i] # Head(w)
      PROVE  w[i] \in {Tail(w)[k] : k \in DOMAIN Tail(w)}
  <2>1. i - 1 \in DOMAIN Tail(w) /\ Tail(w)[i - 1] = w[i]
    BY <1>1, <1>2, <1>5
  <2> QED
    BY <2>1
<1> QED
  BY <1>1, <1>2, <1>3, <1>4, <1>5

\* A popper that begins to wait is the last of the queue.
LEMMA Appended ==
  ASSUME NEW w \in Seq(Poppers), NEW p \in Poppers,
         p \notin {w[i] : i \in DOMAIN w},
         \A i, j \in DOMAIN w : w[i] = w[j] => i = j
  PROVE  /\ Append(w, p) \in Seq(Poppers)
         /\ \A i, j \in DOMAIN Append(w, p) : Append(w, p)[i] = Append(w, p)[j] => i = j
         /\ {Append(w, p)[i] : i \in DOMAIN Append(w, p)} = {w[i] : i \in DOMAIN w} \cup {p}
<1>1. /\ Len(w) \in Nat /\ DOMAIN w = 1 .. Len(w)
      /\ Append(w, p) \in Seq(Poppers)
      /\ DOMAIN Append(w, p) = 1 .. Len(w) + 1
      /\ \A i \in 1 .. Len(w) : Append(w, p)[i] = w[i]
      /\ Append(w, p)[Len(w) + 1] = p
  OBVIOUS
<1>2. \A i \in 1 .. Len(w) : w[i] # p
  BY <1>1
<1>3. \A i, j \in DOMAIN Append(w, p) : Append(w, p)[i] = Append(w, p)[j] => i = j
  BY <1>1, <1>2
<1>4. \A x : x \in {Append(w, p)[i] : i \in DOMAIN Append(w, p)}
               <=> x \in {w[i] : i \in DOMAIN w} \cup {p}
  BY <1>1
<1> QED
  BY <1>1, <1>3, <1>4

\* What is left of a sequence when its k-th entry is cut out.
LEMMA CutOut ==
  ASSUME NEW w \in Seq(Poppers), NEW k \in DOMAIN w,
         NEW x \in Seq(Poppers), Len(x) = k - 1, \A i \in 1 .. k - 1 : x[i] = w[i],
         NEW y \in Seq(Poppers), Len(y) = Len(w) - k,
         \A i \in 1 .. Len(w) - k : y[i] = w[i + k]
  PROVE  /\ x \o y \in Seq(Poppers)
         /\ DOMAIN (x \o y) = 1 .. Len(w) - 1
         /\ \A i \in 1 .. Len(w) - 1 : (x \o y)[i] = w[IF i < k THEN i ELSE i + 1]
<1>1. Len(w) \in Nat /\ DOMAIN w = 1 .. Len(w) /\ k \in 1 .. Len(w)
  OBVIOUS
<1>2. /\ x \o y \in Seq(Poppers)
      /\ Len(x \o y) = Len(w) - 1
      /\ \A i \in 1 .. Len(w) - 1 :
           (x \o y)[i] = IF i <= k - 1 THEN x[i] ELSE y[i - (k - 1)]
  <2> DEFINE z == x \o y
  <2>1. /\ z \in Seq(Poppers)
        /\ Len(z) = Len(x) + Len(y)
        /\ \A i \in 1 .. Len(x) + Len(y) :
             z[i] = IF i <= Len(x) THEN x[i] ELSE y[i - Len(x)]
    BY ConcatProperties
  <2>2. Len(x) + Len(y) = Len(w) - 1
    BY <1>1
  <2> HIDE DEF z
  <2>3. /\ z \in Seq(Poppers)
        /\ Len(z) = Len(w) - 1
        /\ \A i \in 1 .. Len(w) - 1 :
             z[i] = IF i <= Len(x) THEN x[i] ELSE y[i - Len(x)]
    BY <2>1, <2>2
  <2> QED
    BY <2>3 DEF z
<1>3. ASSUME NEW i \in 1 .. Len(w) - 1
      PROVE  (x \o y)[i] = w[IF i < k THEN i ELSE i + 1]
  <2>1. CASE i < k
    BY <1>1, <1>2, <2>1
  <2>2. CASE i >= k
    <3>1. i - (k - 1) \in 1 .. Len(w) - k
      BY <1>1, <2>2
    <3>2. y[i - (k - 1)] = w[(i - (k - 1)) + k]
      BY <3>1
    <3>3. (i - (k - 1)) + k = i + 1
      BY <1>1
    <3> QED
      BY <1>1, <1>2, <2>2, <3>2, <3>3
  <2> QED
    BY <1>1, <2>1, <2>2
<1> QED
  BY <1>2, <1>3

\* A popper that leaves the queue takes its only entry with it.
LEMMA Removed ==
  ASSUME NEW w \in Seq(Poppers), NEW k \in DOMAIN w,
         \A i, j \in DOMAIN w : w[i] = w[j] => i = j
  PROVE  LET v == SubSeq(w, 1, k - 1) \o SubSeq(w, k + 1, Len(w))
         IN  /\ v \in Seq(Poppers)
             /\ \A i, j \in DOMAIN v : v[i] = v[j] => i = j
             /\ {v[i] : i \in DOMAIN v} = {w[i] : i \in DOMAIN w} \ {w[k]}
             /\ w[k] \in Poppers
<1> DEFINE v == SubSeq(w, 1, k - 1) \o SubSeq(w, k + 1, Len(w))
           Old(i) == IF i < k THEN i ELSE i + 1
<1>1. Len(w) \in Nat /\ DOMAIN w = 1 .. Len(w) /\ k \in 1 .. Len(w) /\ w[k] \in Poppers
  OBVIOUS
<1>2. /\ SubSeq(w, 1, k - 1) \in Seq(Poppers)
      /\ Len(SubSeq(w, 1, k - 1)) = k - 1
      /\ \A i \in 1 .. k - 1 : SubSeq(w, 1, k - 1)[i] = w[i]
  BY <1>1
<1>3. /\ SubSeq(w, k + 1, Len(w)) \in Seq(Poppers)
      /\ Len(SubSeq(w, k + 1, Len(w))) = Len(w) - k
      /\ \A i \in 1 .. Len(w) - k : SubSeq(w, k + 1, Len(w))[i] = w[i + k]
  BY <1>1
<1>4. /\ v \in Seq(Poppers) /\ DOMAIN v = 1 .. Len(w) - 1
      /\ \A i \in 1 .. Len(w) - 1 : v[i] = w[Old(i)]
  <2> DEFINE x == SubSeq(w, 1, k - 1)
             y == SubSeq(w, k + 1, Len(w))
  <2>1. /\ x \in Seq(Poppers) /\ Len(x) = k - 1
        /\ \A i \in 1 .. k - 1 : x[i] = w[i]
    BY <1>2
  <2>2. /\ y \in Seq(Poppers) /\ Len(y) = Len(w) - k
        /\ \A i \in 1 .. Len(w) - k : y[i] = w[i + k]
    BY <1>3
  <2> HIDE DEF x, y
  <2>3. /\ x \o y \in Seq(Poppers)
        /\ DOMAIN (x \o y) = 1 .. Len(w) - 1
        /\ \A i \in 1 .. Len(w) - 1 : (x \o y)[i] = w[IF i < k THEN i ELSE i + 1]
    BY <2>1, <2>2, CutOut
  <2> QED
    BY <2>3 DEF x, y
<1> HIDE DEF v
<1>5. ASSUME NEW i \in DOMAIN v, NEW j \in DOMAIN v, v[i] = v[j]
      PROVE  i = j
  <2>1. /\ Old(i) \in DOMAIN w /\ Old(j) \in DOMAIN w
        /\ w[Old(i)] = w[Old(j)]
    BY <1>1, <1>4, <1>5
  <2>2. Old(i) = Old(j)
    BY <2>1
  <2> QED
    BY <1>1, <1>4, <2>2
<1>6. ASSUME NEW i \in DOMAIN v
      PROVE  v[i] \in {w[j] : j \in DOMAIN w} \ {w[k]}
  <2>1. Old(i) \in DOMAIN w /\ Old(i) # k /\ v[i] = w[Old(i)]
    BY <1>1, <1>4
  <2> QED
    BY <2>1
<1>7. ASSUME NEW i \in DOMAIN w, w[i] # w[k]
      PROVE  w[i] \in {v[j] : j \in DOMAIN v}
  <2> DEFINE n == IF i < k THEN i ELSE i - 1
  <2>1. n \in DOMAIN v /\ Old(n) = i
    BY <1>1, <1>4, <1>7
  <2>2. v[n] = w[i]
    BY <1>4, <2>1
  <2> QED
    BY <2>1, <2>2
<1>8. {v[i] : i \in DOMAIN v} = {w[i] : i \in DOMAIN w} \ {w[k]}
  BY <1>6, <1>7
<1> QED
  BY <1>1, <1>4, <1>5, <1>8 DEF v

\* One woken popper more or less is one more or less to count.
LEMMA WokenCount ==
  ASSUME NEW W \in SUBSET Poppers, NEW p
  PROVE  /\ Cardinality(W) \in Nat
         /\ p \notin W => Cardinality(W \cup {p}) = Cardinality(W) + 1
         /\ p \in W => Cardinality(W \ {p}) = Cardinality(W) - 1
<1>1. IsFiniteSet(W)
  BY PoppersAssumption, FS_Subset
<1> QED
  BY <1>1, FS_CardinalityType, FS_AddElement, FS_RemoveElement

----------------------------------------------------------------------------

LEMMA InitIInv == QueueInit => IInv
<1> SUFFICES ASSUME QueueInit PROVE IInv
  OBVIOUS
<1>1. waiting = <<>> /\ waiting \in Seq(Poppers) /\ DOMAIN waiting = {} /\ Waiting = {}
  BY DEF QueueInit, Waiting
<1> QED
  BY <1>1 DEF QueueInit, IInv, QueueTypeOK, WokenCoverItems

\* A push that finds nobody waiting leaves nothing to cover; one that finds a
\* sleeper adds an item and a woken popper.
LEMMA PushPreserves == IInv /\ Push => IInv'
<1> SUFFICES ASSUME IInv, Push PROVE IInv'
  OBVIOUS
<1> USE DEF IInv, QueueTypeOK, WokenCoverItems, Push, Waiting
<1>1. buffer' \in Nat /\ buffer' <= buffer + 1
  BY CapacitiesAssumption
<1>2. CASE waiting = <<>>
  BY <1>1, <1>2
<1>3. CASE waiting # <<>>
  <2> DEFINE p == Head(waiting)
  <2>1. /\ p \in Poppers /\ waiting' \in Seq(Poppers)
        /\ \A i, j \in DOMAIN waiting' : waiting'[i] = waiting'[j] => i = j
        /\ Waiting' = Waiting \ {p}
        /\ woken' = woken \cup {p}
    <3>1. waiting' = Tail(waiting) /\ woken' = woken \cup {p}
      BY <1>3
    <3>2. /\ waiting \in Seq(Poppers)
          /\ \A i, j \in DOMAIN waiting : waiting[i] = waiting[j] => i = j
      OBVIOUS
    <3>3. /\ p \in Poppers /\ Tail(waiting) \in Seq(Poppers)
          /\ \A i, j \in DOMAIN Tail(waiting) : Tail(waiting)[i] = Tail(waiting)[j] => i = j
          /\ {Tail(waiting)[i] : i \in DOMAIN Tail(waiting)}
               = {waiting[i] : i \in DOMAIN waiting} \ {p}
      BY ONLY <1>3, <3>2, HeadTail
    <3> HIDE DEF p
    <3> QED
      BY ONLY <3>1, <3>3 DEF Waiting
  <2>2. p \in Waiting
    <3>1. Len(waiting) > 0 /\ p = waiting[1] /\ 1 \in DOMAIN waiting
      BY <1>3
    <3> QED
      BY <3>1
  <2> HIDE DEF p
  <2>3. Cardinality(woken') = Cardinality(woken) + 1 /\ Cardinality(woken) \in Nat
    BY <2>1, <2>2, WokenCount
  <2>4. QueueTypeOK'
    BY <1>1, <2>1, <2>2
  <2>5. buffer' <= Cardinality(woken')
    <3>1. buffer \in Nat /\ buffer <= Cardinality(woken)
      BY <1>3
    <3> QED
      BY ONLY <1>1, <2>3, <3>1
  <2> QED
    BY <2>4, <2>5
<1> QED
  BY <1>2, <1>3

\* A popper waits only when the buffer is empty.
LEMMA PopPreserves ==
  ASSUME NEW p \in Poppers
  PROVE  IInv /\ Pop(p) => IInv'
<1> SUFFICES ASSUME IInv, Pop(p) PROVE IInv'
  OBVIOUS
<1> USE DEF IInv, QueueTypeOK, WokenCoverItems, Pop, Waiting
<1>0. Cardinality(woken) \in Nat
  BY WokenCount
<1>1. CASE buffer > 0
  BY <1>0, <1>1
<1>2. CASE ~(buffer > 0)
  <2>1. /\ waiting' \in Seq(Poppers)
        /\ \A i, j \in DOMAIN waiting' : waiting'[i] = waiting'[j] => i = j
        /\ Waiting' = Waiting \cup {p}
    BY <1>2, Appended
  <2>2. buffer = 0 /\ buffer' = 0 /\ woken' = woken /\ cancelled' = cancelled
    BY <1>2
  <2> QED
    BY <1>0, <2>1, <2>2
<1> QED
  BY <1>1, <1>2

\* A woken popper takes an item with it, or there was none.
LEMMA ResumePreserves ==
  ASSUME NEW p \in Poppers
  PROVE  IInv /\ Resume(p) => IInv'
<1> SUFFICES ASSUME IInv, Resume(p) PROVE IInv'
  OBVIOUS
<1> USE DEF IInv, QueueTypeOK, WokenCoverItems, Waiting
<1>1. /\ capacity' = capacity
      /\ p \in woken /\ woken' = woken \ {p} /\ cancelled' = cancelled \ {p}
      /\ Cardinality(woken) \in Nat /\ Cardinality(woken') \in Nat
      /\ Cardinality(woken') = Cardinality(woken) - 1
  BY WokenCount DEF Resume
<1>2. CASE buffer > 0
  <2>1. buffer' = buffer - 1 /\ waiting' = waiting
    BY <1>2 DEF Resume, Take
  <2> QED
    BY <1>1, <1>2, <2>1
<1>3. CASE ~(buffer > 0)
  <2>1. buffer = 0 /\ buffer' = 0
    BY <1>3 DEF Resume, WaitAgain
  <2>2. CASE p \in cancelled
    <3>1. waiting' = waiting
      BY <1>3, <2>2 DEF Resume, WaitAgain
    <3> QED
      BY <1>1, <2>1, <3>1
  <2>3. CASE p \notin cancelled
    <3>1. waiting' = Append(waiting, p) /\ p \notin Waiting
      BY <1>1, <1>3, <2>3 DEF Resume, WaitAgain
    <3>2. /\ waiting' \in Seq(Poppers)
          /\ \A i, j \in DOMAIN waiting' : waiting'[i] = waiting'[j] => i = j
          /\ Waiting' = Waiting \cup {p}
      BY <3>1, Appended
    <3>3. QueueTypeOK'
      BY <1>1, <2>1, <3>2
    <3>4. buffer' <= Cardinality(woken')
      BY ONLY <1>1, <2>1
    <3> QED
      BY <3>3, <3>4
  <2> QED
    BY <2>2, <2>3
<1> QED
  BY <1>2, <1>3

\* A cancelled popper that was asleep is one more that will look at the buffer.
LEMMA CancelWaitingPreserves ==
  ASSUME NEW p \in Poppers
  PROVE  IInv /\ CancelWaiting(p) => IInv'
<1> SUFFICES ASSUME IInv, NEW k \in DOMAIN waiting, waiting[k] = p,
                    waiting' = SubSeq(waiting, 1, k - 1)
                                 \o SubSeq(waiting, k + 1, Len(waiting)),
                    woken' = woken \cup {p}, cancelled' = cancelled \cup {p},
                    buffer' = buffer, capacity' = capacity
             PROVE  IInv'
  BY DEF CancelWaiting
<1> USE DEF IInv, QueueTypeOK, WokenCoverItems, Waiting
<1>1. /\ waiting' \in Seq(Poppers)
      /\ \A i, j \in DOMAIN waiting' : waiting'[i] = waiting'[j] => i = j
      /\ Waiting' = Waiting \ {p}
  <2> DEFINE v == SubSeq(waiting, 1, k - 1) \o SubSeq(waiting, k + 1, Len(waiting))
  <2>1. /\ v \in Seq(Poppers)
        /\ \A i, j \in DOMAIN v : v[i] = v[j] => i = j
        /\ {v[i] : i \in DOMAIN v} = {waiting[i] : i \in DOMAIN waiting} \ {waiting[k]}
    <3>1. waiting \in Seq(Poppers) /\ \A i, j \in DOMAIN waiting : waiting[i] = waiting[j] => i = j
      OBVIOUS
    <3> HIDE DEF v
    <3>2. LET u == SubSeq(waiting, 1, k - 1) \o SubSeq(waiting, k + 1, Len(waiting))
          IN  /\ u \in Seq(Poppers)
              /\ \A i, j \in DOMAIN u : u[i] = u[j] => i = j
              /\ {u[i] : i \in DOMAIN u}
                   = {waiting[i] : i \in DOMAIN waiting} \ {waiting[k]}
      BY ONLY <3>1, k \in DOMAIN waiting, Removed
    <3> QED
      BY <3>2 DEF v
  <2>2. waiting' = v
    OBVIOUS
  <2> HIDE DEF v
  <2> QED
    BY <2>1, <2>2
<1>2. p \in Waiting /\ p \notin woken /\ waiting # <<>>
  OBVIOUS
<1>3. /\ Cardinality(woken) \in Nat
      /\ Cardinality(woken') = Cardinality(woken) + 1
  BY <1>2, WokenCount
<1>4. QueueTypeOK'
  BY <1>1, <1>2
<1>5. buffer' <= Cardinality(woken')
  <2>1. buffer \in Nat /\ buffer <= Cardinality(woken) /\ buffer' = buffer
    BY <1>2
  <2> QED
    BY ONLY <1>3, <2>1
<1> QED
  BY <1>4, <1>5

LEMMA StepIInv == IInv /\ [QueueNext]_queueVars => IInv'
<1> SUFFICES ASSUME IInv, [QueueNext]_queueVars PROVE IInv'
  OBVIOUS
<1>1. CASE Push
  BY <1>1, PushPreserves
<1>2. CASE Clear
  <2>1. Cardinality(woken) \in Nat
    BY WokenCount DEF IInv, QueueTypeOK
  <2> QED
    BY <1>2, <2>1 DEF IInv, QueueTypeOK, WokenCoverItems, Waiting, Clear
<1>3. ASSUME NEW p \in Poppers, Pop(p) PROVE IInv'
  BY <1>3, PopPreserves
<1>4. ASSUME NEW p \in Poppers, Resume(p) PROVE IInv'
  BY <1>4, ResumePreserves
<1>5. ASSUME NEW p \in Poppers, CancelWaiting(p) PROVE IInv'
  BY <1>5, CancelWaitingPreserves
<1>6. ASSUME NEW p \in Poppers, CancelWoken(p) PROVE IInv'
  BY <1>6 DEF IInv, QueueTypeOK, WokenCoverItems, Waiting, CancelWoken
<1>7. CASE UNCHANGED queueVars
  BY <1>7 DEF IInv, QueueTypeOK, WokenCoverItems, Waiting, queueVars
<1> QED
  BY <1>1, <1>2, <1>3, <1>4, <1>5, <1>6, <1>7 DEF QueueNext

\* A popper is in one place: asleep once, or woken, or neither.
THEOREM TypeCorrect == QueueSpec => []QueueTypeOK
<1>1. IInv => QueueTypeOK
  BY DEF IInv
<1> QED
  BY InitIInv, StepIInv, <1>1, PTL DEF QueueSpec

\* No wake-up of async_queue::push or async_circular_buffer::push is lost,
\* whatever the number of poppers, the capacity and the cancellations.
THEOREM NoLostWakeup == QueueSpec => []WokenCoverItems
<1>1. IInv => WokenCoverItems
  BY DEF IInv
<1> QED
  BY InitIInv, StepIInv, <1>1, PTL DEF QueueSpec

\* An async_circular_buffer of any capacity holds no more items than that:
\* whatever is pushed, popped and cleared, the oldest give way.
THEOREM CapacityKept == QueueSpec => []WithinCapacity
<1> DEFINE CInv == buffer \in Nat /\ capacity \in Nat /\ WithinCapacity
<1>1. QueueInit => CInv
  BY CapacitiesAssumption DEF QueueInit, WithinCapacity
<1>2. CInv /\ [QueueNext]_queueVars => CInv'
  BY DEF WithinCapacity, QueueNext, Push, Clear, Pop, Resume, Take, WaitAgain,
         CancelWaiting, CancelWoken, queueVars
<1>3. CInv => WithinCapacity
  OBVIOUS
<1> QED
  BY <1>1, <1>2, <1>3, PTL DEF QueueSpec

\* A latch that is set has nobody asleep at it, and a set() lets everybody go who
\* waits, for any number of waiters and whichever of them are cancelled: the parts
\* of SetReleasesAll that are not about what happens in the end (async_latch.cpp).
THEOREM SetReleasesAtOnce ==
  LatchSpec => /\ [](is_set => pending = {})
               /\ [][is_set' => pending \subseteq aborted']_latchVars
<1> DEFINE NobodyAsleep == is_set => pending = {}
           SetReleases == is_set' => pending \subseteq aborted'
<1>1. LatchInit => NobodyAsleep
  BY DEF LatchInit
<1>2. NobodyAsleep /\ [LatchNext]_latchVars => NobodyAsleep'
  BY DEF LatchNext, set, reset, ExpiresAt, Wait, CancelWait, Return, is_set, latchVars
<1>3. NobodyAsleep /\ LatchNext => SetReleases
  BY DEF LatchNext, set, reset, ExpiresAt, Wait, CancelWait, Return, is_set
<1> HIDE DEF NobodyAsleep, SetReleases
<1>4. LatchSpec => []NobodyAsleep /\ [][SetReleases]_latchVars
  BY <1>1, <1>2, <1>3, PTL DEF LatchSpec
<1> QED BY <1>4 DEF NobodyAsleep, SetReleases
=============================================================================
