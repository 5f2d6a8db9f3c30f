----------------------------- MODULE Connection -----------------------------
(***************************************************************************)
(* What a connector promises about its connection, whatever goes on inside *)
(* it: there is at most one, only in a session; a session that is over is  *)
(* followed by a delay and another attempt until the connector is stopped, *)
(* and by nothing afterwards; a drop closes the connection there is.       *)
(***************************************************************************)

VARIABLES
  phase,     \* of run() and reconnect()
  stopping,  \* the stop signal was emitted
  onDrop,    \* a drop would still have an effect
  sock       \* "open": frames can be exchanged with the server

connectionVars == <<phase, stopping, onDrop, sock>>

ConnectionInit == phase = "spawned" /\ stopping = FALSE /\ onDrop = FALSE /\ sock = "closed"

\* A websocket that can be dropped begins to connect, or has an invalid url.
Attempt ==
  /\ phase \in {"spawned", "delay"} /\ ~stopping
  /\ phase' = "connecting" /\ onDrop' = TRUE
  /\ UNCHANGED <<stopping, sock>>

Rejected ==
  /\ phase \in {"spawned", "delay"} /\ ~stopping
  /\ phase' = "delay"
  /\ UNCHANGED <<stopping, onDrop, sock>>

\* A session begins, also without a connection; never with one after a stop.
Arrive ==
  /\ phase = "connecting"
  /\ phase' = "session" \/ (stopping /\ phase' = "stopped")
  /\ sock' = "closed" \/ (~stopping /\ sock' = "open")
  /\ onDrop' = onDrop \/ onDrop' = FALSE
  /\ UNCHANGED stopping

Break ==
  /\ phase = "session" /\ sock' = "closed"
  /\ UNCHANGED <<phase, stopping, onDrop>>

\* Drops count once: they close what is open and spend onDrop.
Drop ==
  /\ onDrop
  /\ onDrop' = FALSE /\ sock' = "closed"
  /\ UNCHANGED <<phase, stopping>>

End ==
  /\ phase = "session"
  /\ phase' = IF stopping THEN "stopped" ELSE "delay"
  /\ onDrop' = FALSE /\ sock' = "closed"
  /\ UNCHANGED stopping

Stop ==
  /\ ~stopping
  /\ stopping' = TRUE
  /\ sock' = sock \/ sock' = "closed"
  /\ UNCHANGED <<phase, onDrop>>

Cease ==
  /\ phase \in {"spawned", "delay"} /\ stopping
  /\ phase' = "stopped"
  /\ UNCHANGED <<stopping, onDrop, sock>>

ConnectionNext ==
  Attempt \/ Rejected \/ Arrive \/ Break \/ Drop \/ End \/ Stop \/ Cease

ConnectionSpec == ConnectionInit /\ [][ConnectionNext]_connectionVars
=============================================================================
