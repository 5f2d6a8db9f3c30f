---------------------------- MODULE LifetimePtr ----------------------------
(***************************************************************************)
(* lifetime_ptr: shared handles on an object that runs by itself.  A       *)
(* handle owns a proxy, a bool, whose deleter owns the object; the         *)
(* deleter stops the object if the proxy says that it was started.  The    *)
(* object's own operations keep it alive until they are over.              *)
(***************************************************************************)
EXTENDS Naturals

CONSTANT Holders  \* whoever may hold a handle

VARIABLES
  made,     \* where make_lifetime_ptr is
  proxy,    \* *proxy
  started,  \* start() returned
  handles,  \* the holders that have a handle
  owners,   \* the shared_ptrs to the object itself
  stops     \* how often the object was stopped

lifeVars == <<made, proxy, started, handles, owners, stops>>

\* deleter: private_impl; operation: what start() spawned, by its completion
\* handler; stopping: the handler that stop() dispatched.
Owners == {"deleter", "operation", "stopping"}

LifeInit ==
  /\ made = "no" /\ proxy = FALSE /\ started = FALSE
  /\ handles = {} /\ owners = {} /\ stops = 0

----------------------------------------------------------------------------

\* A proxy that says "started" from the beginning.
ConstructArmed ==
  /\ made = "no"
  /\ made' = "starting"
  /\ proxy' = TRUE
  /\ owners' = {"deleter"}
  /\ UNCHANGED <<started, handles, stops>>

\* The object, the proxy and its deleter exist.
Construct ==
  /\ made = "no"
  /\ made' = "starting"
  /\ proxy' = FALSE
  /\ owners' = {"deleter"}
  /\ UNCHANGED <<started, handles, stops>>

\* lifetime_deleter: stop() dispatches a handler that owns the object.
Deleted == (owners \ {"deleter"}) \cup (IF proxy THEN {"stopping"} ELSE {})

\* A start() whose completion handler does not own the object.
StartReturnsUnowned(h) ==
  /\ made = "starting"
  /\ made' = "yes"
  /\ started' = TRUE
  /\ proxy' = TRUE
  /\ handles' = {h}
  /\ UNCHANGED <<owners, stops>>

\* start() returns, and the first handle with it.
StartReturns(h) ==
  /\ made = "starting"
  /\ made' = "yes"
  /\ started' = TRUE
  /\ proxy' = TRUE
  /\ handles' = {h}
  /\ owners' = owners \cup {"operation"}
  /\ UNCHANGED stops

\* start() throws: the proxy is the only one left to give up.
StartThrows ==
  /\ made = "starting"
  /\ made' = "failed"
  /\ owners' = Deleted
  /\ UNCHANGED <<proxy, started, handles, stops>>

Copy(h, g) ==
  /\ h \in handles /\ g \notin handles
  /\ handles' = handles \cup {g}
  /\ UNCHANGED <<made, proxy, started, owners, stops>>

\* A handle is given up; the last one deletes the proxy.
Release(h) ==
  /\ h \in handles
  /\ handles' = handles \ {h}
  /\ owners' = IF handles' = {} THEN Deleted ELSE owners
  /\ UNCHANGED <<made, proxy, started, stops>>

\* The dispatched handler runs, at once or later.
StopRuns ==
  /\ "stopping" \in owners
  /\ stops' = stops + 1
  /\ owners' = owners \ {"stopping"}
  /\ UNCHANGED <<made, proxy, started, handles>>

\* The operation's completion handler has run.
OperationEnds ==
  /\ "operation" \in owners
  /\ owners' = owners \ {"operation"}
  /\ UNCHANGED <<made, proxy, started, handles, stops>>

LifeNext ==
  \/ Construct
  \/ \E h \in Holders : StartReturns(h)
  \/ StartThrows
  \/ \E h, g \in Holders : Copy(h, g)
  \/ \E h \in Holders : Release(h)
  \/ StopRuns
  \/ OperationEnds

LifeSpec == LifeInit /\ [][LifeNext]_lifeVars

----------------------------------------------------------------------------

LifeTypeOK ==
  /\ made \in {"no", "starting", "yes", "failed"}
  /\ proxy \in BOOLEAN /\ started \in BOOLEAN
  /\ handles \in SUBSET Holders
  /\ owners \in SUBSET Owners
  /\ stops \in {0, 1}

\* The object is stopped once, after it was started and when its last handle is
\* gone; one that start() failed to start is never stopped (lifetime_deleter).
StoppedOnceAfterStart ==
  "stopping" \in owners \/ stops > 0 =>
    /\ started /\ handles = {}
    /\ ("stopping" \in owners => stops = 0)
    /\ stops <= 1
============================================================================
