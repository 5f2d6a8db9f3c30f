------------------------ MODULE SubscriptionMachine ------------------------
(***************************************************************************)
(* The event handler of one upstream subscription:                         *)
(* upstream_subscription_impl::state_machine.  Every operator here is a    *)
(* pure function from a machine and an event to what the handler leaves    *)
(* behind: the machine, the frames it gave to connection.send() and        *)
(* whether it called connection.drop().                                    *)
(***************************************************************************)
EXTENDS Sequences

States == {"down", "opening", "open", "closing", "closed"}

Ops == {"subscribe", "unsubscribe"}

\* The server's frames for a channel, by what the handlers tell apart: "data"
\* is a partial, an update or an info whose code is not 20001, "restart" the
\* info with code 20001, "error" a frame of any other type, or of none.
Responses == {"subscribed", "unsubscribed", "data", "restart", "error"}

Events == {"up", "down"} \cup Responses

Machines == [state : States, close_requested : BOOLEAN]

\* A machine whose state is not initialised.
UninitialisedMachine == [state |-> "indeterminate", close_requested |-> FALSE]

FreshMachine == [state |-> "down", close_requested |-> FALSE]

Outcomes == [sm : Machines, sends : Seq(Ops), drop : BOOLEAN]

----------------------------------------------------------------------------

Stay(sm) == [sm |-> sm, sends |-> <<>>, drop |-> FALSE]

Drop(sm) == [sm |-> sm, sends |-> <<>>, drop |-> TRUE]

Enter(sm, state) == Stay([sm EXCEPT !.state = state])

EnterClosed(sm) == Enter(sm, "closed")

EnterClosing(sm) == [Enter(sm, "closing") EXCEPT !.sends = <<"unsubscribe">>]

\* Versions of close() with a plausible bug: it takes an opening subscription
\* for a closed one; it does not wait for the server.
CloseAbandonsOpening(sm) ==
  IF sm.state \in {"down", "opening"} /\ ~sm.close_requested
    THEN EnterClosed([sm EXCEPT !.close_requested = TRUE])
    ELSE IF sm.state = "open" THEN EnterClosing([sm EXCEPT !.close_requested = TRUE])
    ELSE Stay([sm EXCEPT !.close_requested = TRUE])

CloseWithoutWaiting(sm) ==
  IF sm.state = "open"
    THEN [EnterClosed([sm EXCEPT !.close_requested = TRUE])
            EXCEPT !.sends = <<"unsubscribe">>]
    ELSE IF sm.state = "down" THEN EnterClosed([sm EXCEPT !.close_requested = TRUE])
    ELSE Stay([sm EXCEPT !.close_requested = TRUE])

Close(sm) ==
  LET asked == [sm EXCEPT !.close_requested = TRUE]
  IN  IF sm.close_requested THEN Stay(sm)
      ELSE CASE sm.state = "down" -> EnterClosed(asked)
             [] sm.state = "open" -> EnterClosing(asked)
             [] OTHER             -> Stay(asked)

----------------------------------------------------------------------------

ProcessDownEvent(sm, e) ==
  IF e = "up"
    THEN [Enter(sm, "opening") EXCEPT !.sends = <<"subscribe">>]
    ELSE Drop(sm)

\* An opening handler that forgets that a close was requested meanwhile.
OpeningIgnoresClose(sm, e) ==
  CASE e = "down"       -> Enter(sm, "down")
    [] e = "subscribed" -> Enter(sm, "open")
    [] OTHER            -> Drop(sm)

ProcessOpeningEvent(sm, e) ==
  CASE e = "down"       -> Enter(sm, "down")
    [] e = "subscribed" -> IF sm.close_requested THEN EnterClosing(sm)
                                                 ELSE Enter(sm, "open")
    [] OTHER            -> Drop(sm)

HandleResponse(sm, e) == IF e = "data" THEN Stay(sm) ELSE Drop(sm)

ProcessOpenEvent(sm, e) ==
  CASE e = "down" -> Enter(sm, "down")
    [] e = "up"   -> Stay(sm)
    [] OTHER      -> HandleResponse(sm, e)

ProcessClosingEvent(sm, e) ==
  CASE e \in {"down", "unsubscribed"} -> EnterClosed(sm)
    [] e = "up"                       -> Stay(sm)
    [] OTHER                          -> HandleResponse(sm, e)

\* assert(!"logic error - event seen when closed") is recorded by the caller.
ProcessClosedEvent(sm, e) == Stay(sm)

ProcessEvent(sm, e) ==
  CASE sm.state = "down"    -> ProcessDownEvent(sm, e)
    [] sm.state = "opening" -> ProcessOpeningEvent(sm, e)
    [] sm.state = "open"    -> ProcessOpenEvent(sm, e)
    [] sm.state = "closing" -> ProcessClosingEvent(sm, e)
    [] sm.state = "closed"  -> ProcessClosedEvent(sm, e)

=============================================================================
