----------------------------- MODULE AsyncLatch -----------------------------
(***************************************************************************)
(* async_latch: a timer whose expiry says whether the latch is set.  A     *)
(* change of the expiry cancels every wait that is pending, and wait()     *)
(* takes a cancelled wait for the end of its own: it does not look at the  *)
(* latch again, and returns in the same way when set(), reset() or the     *)
(* cancellation of its coroutine was what ended the wait.                  *)
(***************************************************************************)
CONSTANT Waiters  \* the coroutines that call wait()

VARIABLES
  expiry,   \* of impl_: "min" or "max"
  pending,  \* the waits on impl_
  aborted   \* coroutines whose wait is over and that have not resumed

latchVars == <<expiry, pending, aborted>>

is_set == expiry = "min"

\* impl_.expires_at(when)
ExpiresAt(when) ==
  /\ expiry' = when
  /\ aborted' = aborted \cup pending
  /\ pending' = {}

set   == ExpiresAt("min")
reset == ExpiresAt("max")

\* A latch that is set does not suspend.
Wait(w) ==
  /\ w \notin pending \cup aborted
  /\ ~is_set
  /\ pending' = pending \cup {w}
  /\ UNCHANGED <<expiry, aborted>>

\* The parallel group that w is a member of has another winner.
CancelWait(w) ==
  /\ w \in pending
  /\ pending' = pending \ {w}
  /\ aborted' = aborted \cup {w}
  /\ UNCHANGED expiry

\* A wait() that looks again, as the queue's pop() does.
ReturnIfSet(w) ==
  /\ w \in aborted
  /\ aborted' = aborted \ {w}
  /\ pending' = IF is_set THEN pending ELSE pending \cup {w}
  /\ UNCHANGED expiry

\* operation_aborted: wait() returns.
Return(w) ==
  /\ w \in aborted
  /\ aborted' = aborted \ {w}
  /\ UNCHANGED <<expiry, pending>>

\* The latch is constructed set or not.
LatchInit == expiry \in {"min", "max"} /\ pending = {} /\ aborted = {}

LatchNext == \/ set \/ reset
             \/ \E w \in Waiters : Wait(w) \/ CancelWait(w) \/ Return(w)

\* The executor resumes every coroutine whose wait is over.
LatchFairness == \A w \in Waiters : WF_latchVars(Return(w))

LatchSpec == LatchInit /\ [][LatchNext]_latchVars /\ LatchFairness

----------------------------------------------------------------------------

\* A latch that is set has nobody asleep at it, and lets everybody go who waited
\* before, be it reset before they run again (async_latch.cpp, wait() and set()).
SetReleasesAll ==
  /\ [](is_set => pending = {})
  /\ [][is_set' => pending \subseteq aborted']_latchVars
  /\ \A w \in Waiters : w \in aborted ~> w \notin pending \cup aborted

=============================================================================
