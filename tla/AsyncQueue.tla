----------------------------- MODULE AsyncQueue -----------------------------
(***************************************************************************)
(* async_queue and async_circular_buffer: a buffer and a timer used as a   *)
(* condition variable.  pop() waits while the buffer is empty; push() puts *)
(* an item in and cancels one wait.  A coroutine in pop() can be cancelled *)
(* itself (the connector pops inside parallel groups): its wait then ends  *)
(* like one that was cancelled by push().                                  *)
(***************************************************************************)
EXTENDS Integers, Sequences, FiniteSets

CONSTANTS Poppers,     \* the coroutines that pop
          Capacities,  \* of the buffer; 0: async_queue, which has none
          MaxItems     \* bound: items in the buffer of an async_queue

ASSUME PoppersAssumption    == IsFiniteSet(Poppers)
ASSUME CapacitiesAssumption == Capacities \subseteq Nat /\ MaxItems \in Nat

VARIABLES
  capacity,  \* the kind of queue this is, fixed at its construction
  buffer,    \* the items, by nothing but their number: a count
  waiting,   \* the waits pending on cv_, oldest first
  woken,     \* poppers whose wait is over and that have not resumed
  cancelled  \* poppers whose cancellation was requested

queueVars == <<capacity, buffer, waiting, woken, cancelled>>

Waiting == {waiting[i] : i \in DOMAIN waiting}

----------------------------------------------------------------------------

\* A push that wakes a popper for the first item only.
PushIntoEmpty ==
  /\ capacity = 0 => buffer < MaxItems
  /\ buffer' = IF buffer = capacity /\ capacity # 0 THEN buffer ELSE buffer + 1
  /\ IF waiting = <<>> \/ buffer # 0
       THEN UNCHANGED <<waiting, woken>>
       ELSE /\ waiting' = Tail(waiting)
            /\ woken' = woken \cup {Head(waiting)}
  /\ UNCHANGED <<capacity, cancelled>>

\* A full circular buffer drops its oldest item.
Push ==
  /\ capacity = 0 => buffer < MaxItems
  /\ buffer' = IF buffer = capacity /\ capacity # 0 THEN buffer ELSE buffer + 1
  /\ IF waiting = <<>>
       THEN UNCHANGED <<waiting, woken>>
       ELSE /\ waiting' = Tail(waiting)
            /\ woken' = woken \cup {Head(waiting)}
  /\ UNCHANGED <<capacity, cancelled>>

Clear == buffer' = 0 /\ UNCHANGED <<capacity, waiting, woken, cancelled>>

\* pop() is called: an item that is there is taken without suspending.
Pop(p) ==
  /\ p \notin Waiting \cup woken
  /\ IF buffer > 0
       THEN buffer' = buffer - 1 /\ UNCHANGED waiting
       ELSE waiting' = Append(waiting, p) /\ UNCHANGED buffer
  /\ UNCHANGED <<capacity, woken, cancelled>>

\* The loop ends: the popper has an item, be it cancelled or not.
Take(p) == buffer' = buffer - 1 /\ UNCHANGED waiting

\* The wait is over: the condition is tested again, for another popper may have
\* come first.  A cancelled popper that finds nothing throws.
WaitAgain(p) ==
  /\ buffer' = buffer
  /\ waiting' = IF p \in cancelled THEN waiting ELSE Append(waiting, p)

Resume(p) ==
  /\ p \in woken
  /\ IF buffer > 0 THEN Take(p) ELSE WaitAgain(p)
  /\ woken' = woken \ {p}
  /\ cancelled' = cancelled \ {p}
  /\ UNCHANGED capacity

\* A cancelled wait leaves the timer's queue.
CancelWaiting(p) ==
  \E i \in DOMAIN waiting :
    /\ waiting[i] = p
    /\ waiting' = SubSeq(waiting, 1, i - 1) \o SubSeq(waiting, i + 1, Len(waiting))
    /\ woken' = woken \cup {p}
    /\ cancelled' = cancelled \cup {p}
    /\ UNCHANGED <<capacity, buffer>>

CancelWoken(p) ==
  /\ p \in woken \ cancelled
  /\ cancelled' = cancelled \cup {p}
  /\ UNCHANGED <<capacity, buffer, waiting, woken>>

----------------------------------------------------------------------------

QueueInit ==
  /\ capacity \in Capacities
  /\ buffer = 0 /\ waiting = <<>> /\ woken = {} /\ cancelled = {}

QueueNext ==
  \/ Push \/ Clear
  \/ \E p \in Poppers : Pop(p) \/ Resume(p) \/ CancelWaiting(p) \/ CancelWoken(p)

QueueSpec == QueueInit /\ [][QueueNext]_queueVars

\* The executor resumes every coroutine whose wait is over.
QueueFairness == \A p \in Poppers : WF_queueVars(Resume(p))

QueueFairSpec == QueueSpec /\ QueueFairness

----------------------------------------------------------------------------
(* Properties.                                                             *)

\* Every variable keeps its type: a popper waits once, or is being woken, and
\* only a woken popper can be one that was cancelled.
QueueTypeOK ==
  /\ capacity \in Capacities
  /\ buffer \in Nat
  /\ waiting \in Seq(Poppers)
  /\ \A i, j \in DOMAIN waiting : waiting[i] = waiting[j] => i = j
  /\ woken \in SUBSET Poppers /\ woken \cap Waiting = {}
  /\ cancelled \in SUBSET woken

\* While a popper sleeps, every item in the buffer has a woken popper to take it:
\* no wake-up is lost, though poppers that never waited take items first and
\* woken ones are cancelled.
WokenCoverItems == waiting # <<>> => buffer <= Cardinality(woken)

\* A circular buffer never holds more than its capacity.
WithinCapacity == capacity # 0 => buffer <= capacity

\* Nobody sleeps for ever next to an item.
NobodySleepsOnItem == buffer > 0 /\ waiting # <<>> ~> buffer = 0 \/ waiting = <<>>

=============================================================================
