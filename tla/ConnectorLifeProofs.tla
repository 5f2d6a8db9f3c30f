------------------------ MODULE ConnectorLifeProofs ------------------------
(***************************************************************************)
(* The connector is made of a stream and a lifetime_ptr, so that what was  *)
(* proved of these holds in it; it implements Connection, for any holders, *)
(* any number of endpoints and any urls; and a url of any length is        *)
(* decoded as it is meant.                                                 *)
(***************************************************************************)
EXTENDS ConnectorLife, SequenceTheorems, WellFoundedInduction, TLAPS

----------------------------------------------------------------------------
(* The stream: what a race keeps and throws away, for any number of        *)
(* endpoints.                                                              *)

\* The ranges that are over are the last ones, and so are their attempts.
RangesEndFromTheRight ==
  /\ ended \subseteq 1 .. n
  /\ \A k \in ended : \A e \in k .. n : e \in ended /\ attempt[e] \in {"open", "failed", "closed"}

\* The attempts are those of the endpoints found; a socket is closed when a
\* range that contains it is over.
AttemptsOfEndpoints ==
  /\ \A e \in Endpoints : attempt[e] = "off" <=> e > n
  /\ \A e \in Endpoints : attempt[e] = "closed" => e \in ended

\* A success is credited to its range, and that of a range to the one around it.
SuccessCredited ==
  /\ \A e \in Endpoints : attempt[e] = "open" => won[e] # "none"
  /\ \A k \in Endpoints : k + 1 \in ended /\ won[k + 1] # "none" => won[k] # "none"
  /\ \A k \in Endpoints : won[k] # "none" => attempt[k] \in {"open", "closed"} \/ k + 1 \in ended

\* What the stages say of the stream.
StagesInOrder ==
  /\ stage \in {"off", "resolving"} => NothingDialled
  /\ stage = "racing" => winner = 0
  /\ winner # 0 => winner \in ended /\ 1 \in ended
  /\ stage # "returned" => upgraded = FALSE
  /\ stage = "upgrade" /\ transport = "tls" => secured

RaceInv ==
  /\ RaceTypeOK /\ RangesEndFromTheRight /\ AttemptsOfEndpoints /\ SuccessCredited
  /\ StagesInOrder /\ RaceKeepsOneSocket /\ FailsOnlyIfAllFailed /\ UpgradedOnlyWhenSecure

----------------------------------------------------------------------------

\* A stream that dials nothing satisfies what is said of sockets.
LEMMA NothingDialledSound ==
  ASSUME NothingDialled
  PROVE  /\ n \in 0 .. MaxResults /\ winner \in 0 .. MaxResults /\ ended \in SUBSET Endpoints
         /\ attempt \in [Endpoints -> Sockets] /\ won \in [Endpoints -> Members]
         /\ RangesEndFromTheRight /\ AttemptsOfEndpoints /\ SuccessCredited
         /\ RaceKeepsOneSocket /\ FailsOnlyIfAllFailed
BY ResultsAssumption DEF NothingDialled, Endpoints, Sockets, Members, RangesEndFromTheRight,
   AttemptsOfEndpoints, SuccessCredited, RaceKeepsOneSocket, FailsOnlyIfAllFailed

\* A stream that was never used satisfies the invariant.
LEMMA RaceInitSound == RaceInit => RaceInv
<1> SUFFICES ASSUME RaceInit PROVE RaceInv
  OBVIOUS
<1>1. NothingDialled
  BY DEF RaceInit
<1>2. StagesInOrder /\ UpgradedOnlyWhenSecure
  BY <1>1 DEF RaceInit, StagesInOrder, UpgradedOnlyWhenSecure, NothingDialled
<1>3. RaceTypeOK
  BY <1>1, NothingDialledSound DEF RaceInit, RaceTypeOK, Stages
<1> QED
  BY <1>1, <1>2, <1>3, NothingDialledSound DEF RaceInv

\* An attempt ends: its own range is not over unless it is the last one.
LEMMA AttemptEndsSound ==
  ASSUME RaceInv, NEW e \in Endpoints, NEW outcome \in {"open", "failed"}, AttemptEnds(e, outcome)
  PROVE  RaceInv'
<1> USE ResultsAssumption DEF RaceInv
<1>1. /\ n \in 0 .. MaxResults /\ e \in 1 .. n /\ e \notin ended /\ n \in Nat
      /\ \A k \in ended : k > e
      /\ attempt' \in [Endpoints -> Sockets] /\ won' \in [Endpoints -> Members]
  <2>1. n \in 0 .. MaxResults /\ ended \subseteq Endpoints /\ e \in 1 .. n /\ n \in Nat
    BY ResultsAssumption DEF RaceTypeOK, AttemptEnds, AttemptsOfEndpoints, Endpoints
  <2>2. e \notin ended /\ \A k \in ended : ~(e \in k .. n)
    BY <2>1 DEF RangesEndFromTheRight, AttemptEnds, Endpoints
  <2>3. \A k \in ended : k > e
    BY <2>1, <2>2 DEF Endpoints
  <2>4. attempt' \in [Endpoints -> Sockets] /\ won' \in [Endpoints -> Members]
    BY DEF AttemptEnds, RaceTypeOK, Sockets, Members
  <2> QED
    BY <2>1, <2>2, <2>3, <2>4
<1>2. /\ attempt'[e] = outcome
      /\ \A f \in Endpoints \ {e} : attempt'[f] = attempt[f]
      /\ ended' = IF e = n THEN {n} ELSE ended
      /\ \A k \in Endpoints : won[k] # "none" => won'[k] = won[k]
      /\ \A k \in Endpoints : won'[k] # "none" /\ won[k] = "none" =>
           outcome = "open" /\ (k = e \/ (e = n /\ k + 1 = n))
      /\ outcome = "open" => won'[e] # "none" /\ (\A k \in Endpoints : e = n /\ k + 1 = n => won'[k] # "none")
  <2>1. e = n => ended = {}
    BY <1>1 DEF RangesEndFromTheRight
  <2> QED
    BY <1>1, <2>1 DEF AttemptEnds, RaceTypeOK, Endpoints
<1>3. RaceTypeOK'
  BY <1>1, <1>2 DEF AttemptEnds, RaceTypeOK, Endpoints, shakes
<1>4. RangesEndFromTheRight' /\ AttemptsOfEndpoints'
  BY <1>1, <1>2, <1>3 DEF AttemptEnds, RangesEndFromTheRight, AttemptsOfEndpoints, Endpoints, RaceTypeOK
<1>5. SuccessCredited'
  <2>1. ASSUME NEW k \in Endpoints, attempt'[k] = "open" PROVE won'[k] # "none"
    BY <1>2, <2>1 DEF SuccessCredited
  <2>2. e = n => won[e] = "none"
    <3>1. n + 1 \notin ended
      BY <1>1 DEF RangesEndFromTheRight
    <3> QED
      BY <3>1 DEF SuccessCredited, AttemptEnds
  <2>3. ASSUME NEW k \in Endpoints, k + 1 \in ended', won'[k + 1] # "none" PROVE won'[k] # "none"
    <3>1. CASE k + 1 \in ended
      <4>1. k + 1 \in Endpoints /\ k + 1 # e /\ ~(e = n)
        BY <1>1, <3>1 DEF RangesEndFromTheRight, Endpoints
      <4> QED
        BY <1>2, <2>3, <3>1, <4>1 DEF SuccessCredited
    <3>2. CASE k + 1 = n /\ n = e
      BY <1>1, <1>2, <2>2, <2>3, <3>2
    <3> QED
      BY <1>2, <2>3, <3>1, <3>2
  <2>4. ASSUME NEW k \in Endpoints, won'[k] # "none"
        PROVE  attempt'[k] \in {"open", "closed"} \/ k + 1 \in ended'
    <3>1. CASE won[k] # "none"
      <4>1. k = e => attempt[k] \notin {"open", "closed"}
        BY DEF AttemptEnds
      <4> QED
        BY <1>2, <3>1, <4>1 DEF SuccessCredited, AttemptEnds
    <3>2. CASE won[k] = "none"
      BY <1>2, <2>4, <3>2
    <3> QED
      BY <3>1, <3>2
  <2> QED
    BY <2>1, <2>3, <2>4 DEF SuccessCredited
<1>6. RaceKeepsOneSocket'
  <2>1. winner' = winner /\ winner = 0 /\ n' = n
    BY DEF AttemptEnds, StagesInOrder, shakes
  <2>2. ASSUME NEW k \in ended', NEW f \in k .. n, NEW g \in k .. n,
               attempt'[f] = "open", attempt'[g] = "open"
        PROVE  f = g
    <3>1. CASE k \in ended
      <4>1. k \in 1 .. n /\ k > e
        BY <1>1, <3>1 DEF RangesEndFromTheRight
      <4>2. f \in Endpoints \ {e} /\ g \in Endpoints \ {e}
        BY <1>1, <4>1 DEF Endpoints
      <4> QED
        BY <1>2, <2>2, <3>1, <4>2 DEF RaceKeepsOneSocket
    <3>2. CASE k = n
      BY <1>1, <3>2
    <3> QED
      BY <1>2, <3>1, <3>2
  <2> QED
    BY <2>1, <2>2 DEF RaceKeepsOneSocket
<1>7. FailsOnlyIfAllFailed'
  <2>1. n' = n
    BY DEF AttemptEnds
  <2>2. ASSUME NEW k \in ended', won'[k] = "none", NEW f \in k .. n
        PROVE  attempt'[f] = "failed"
    <3>1. CASE k \in ended
      <4>1. k \in 1 .. n /\ k > e
        BY <1>1, <3>1 DEF RangesEndFromTheRight
      <4>2. f \in Endpoints \ {e} /\ k \in Endpoints
        BY <1>1, <4>1 DEF Endpoints
      <4> QED
        BY <1>2, <2>2, <3>1, <4>2 DEF FailsOnlyIfAllFailed
    <3>2. CASE k = n /\ k = e
      BY <1>1, <1>2, <2>2, <3>2
    <3> QED
      BY <1>2, <3>1, <3>2
  <2> QED
    BY <2>1, <2>2 DEF FailsOnlyIfAllFailed
<1>8. StagesInOrder' /\ UpgradedOnlyWhenSecure'
  <2>1. stage = "racing" /\ stage' = "racing" /\ winner = 0 /\ UNCHANGED <<winner, upgraded, transport>>
    BY DEF AttemptEnds, StagesInOrder, shakes
  <2> QED
    BY <2>1 DEF StagesInOrder, UpgradedOnlyWhenSecure
<1> QED
  BY <1>3, <1>4, <1>5, <1>6, <1>7, <1>8

\* A range ends: selected() takes one socket and the other one is closed.
LEMMA RangeEndsSound ==
  ASSUME RaceInv, NEW k \in Endpoints, RangeEnds(k)
  PROVE  RaceInv'
<1> USE ResultsAssumption DEF RaceInv
<1>1. /\ n \in 0 .. MaxResults /\ n' = n /\ n \in Nat
      /\ k \in 1 .. n /\ k + 1 \in 1 .. n /\ k \notin ended /\ k + 1 \in ended
      /\ \A j \in ended : j > k /\ j \in 1 .. n
      /\ \A e \in (k + 1) .. n : e \in ended
      /\ attempt[k] \in {"open", "failed"}
      /\ ended' = ended \cup {k}
  <2>1. /\ n \in 0 .. MaxResults /\ n' = n /\ n \in Nat /\ ended' = ended \cup {k}
        /\ k \in 1 .. n /\ k \notin ended /\ k + 1 \in ended
    BY DEF RangeEnds, RaceTypeOK, Endpoints
  <2>2. k + 1 \in 1 .. n /\ \A e \in (k + 1) .. n : e \in ended
    BY <2>1 DEF RangesEndFromTheRight
  <2>3. \A j \in ended : j > k /\ j \in 1 .. n
    <3>1. ASSUME NEW j \in ended, ~(j > k) PROVE FALSE
      <4>1. j \in 1 .. n /\ k \in j .. n
        BY <2>1, <3>1 DEF RangesEndFromTheRight
      <4> QED
        BY <2>1, <4>1 DEF RangesEndFromTheRight
    <3> QED
      BY <3>1 DEF RangesEndFromTheRight
  <2>4. attempt[k] \in {"open", "failed"}
    BY <2>1 DEF RangeEnds, RaceTypeOK, AttemptsOfEndpoints, Sockets, Endpoints
  <2> QED
    BY <2>1, <2>2, <2>3, <2>4
<1>2. /\ winner' = 0 /\ winner = 0 /\ stage' = "racing" /\ stage = "racing"
      /\ UNCHANGED <<transport, shakes, cancelled>>
  BY DEF RangeEnds, StagesInOrder
<1>3. /\ attempt' \in [Endpoints -> Sockets] /\ won' \in [Endpoints -> Members]
      /\ \A e \in Endpoints : attempt'[e] # attempt[e] =>
           /\ attempt[e] = "open" /\ attempt'[e] = "closed"
           /\ (won[k] = "left" /\ e > k) \/ (won[k] = "right" /\ e = k)
      /\ \A e \in Endpoints : won[k] = "left" /\ e > k => attempt'[e] # "open"
      /\ won[k] = "right" => attempt'[k] # "open"
      /\ \A j \in Endpoints : won[j] # "none" => won'[j] = won[j]
      /\ \A j \in Endpoints : won'[j] # "none" /\ won[j] = "none" => won[k] # "none" /\ j + 1 = k
      /\ \A j \in Endpoints : j + 1 = k /\ won[k] # "none" => won'[j] # "none"
  BY DEF RangeEnds, RaceTypeOK, Sockets, Members
<1>4. RaceTypeOK'
  BY <1>1, <1>2, <1>3 DEF RaceTypeOK, Endpoints, shakes
<1>5. RangesEndFromTheRight'
  <2>1. ended' \subseteq 1 .. n'
    BY <1>1
  <2>2. ASSUME NEW j \in ended', NEW e \in j .. n
        PROVE  e \in ended' /\ attempt'[e] \in {"open", "failed", "closed"}
    <3>1. e \in Endpoints
      BY <1>1, <2>1, <2>2 DEF Endpoints
    <3>2. e = k \/ e \in (k + 1) .. n
      BY <1>1, <2>2
    <3>3. attempt[e] \in {"open", "failed", "closed"}
      BY <1>1, <3>2 DEF RangesEndFromTheRight
    <3> QED
      BY <1>1, <1>3, <3>1, <3>2, <3>3
  <2> QED
    BY <1>1, <2>1, <2>2 DEF RangesEndFromTheRight
<1>6. AttemptsOfEndpoints'
  <2>1. ASSUME NEW e \in Endpoints PROVE (attempt'[e] = "off" <=> e > n')
    BY <1>1, <1>3 DEF AttemptsOfEndpoints
  <2>2. ASSUME NEW e \in Endpoints, attempt'[e] = "closed" PROVE e \in ended'
    <3>1. CASE attempt[e] = "closed"
      BY <1>1, <3>1 DEF AttemptsOfEndpoints
    <3>2. CASE attempt[e] = "open" /\ e >= k
      <4>1. ~(e > n)
        BY <3>2 DEF AttemptsOfEndpoints
      <4> QED
        BY <1>1, <3>2, <4>1 DEF Endpoints
    <3> QED
      BY <1>1, <1>3, <2>2, <3>1, <3>2 DEF Endpoints
  <2> QED
    BY <2>1, <2>2 DEF AttemptsOfEndpoints
<1>7. SuccessCredited'
  <2>1. ASSUME NEW e \in Endpoints, attempt'[e] = "open" PROVE won'[e] # "none"
    BY <1>3, <2>1 DEF SuccessCredited
  <2>2. ASSUME NEW j \in Endpoints, j + 1 \in ended', won'[j + 1] # "none" PROVE won'[j] # "none"
    <3>1. CASE j + 1 \in ended
      BY <1>1, <1>3, <2>2, <3>1 DEF SuccessCredited, Endpoints
    <3>2. CASE j + 1 = k
      BY <1>1, <1>3, <2>2, <3>2 DEF Endpoints
    <3> QED
      BY <1>1, <2>2, <3>1, <3>2
  <2>3. ASSUME NEW j \in Endpoints, won'[j] # "none"
        PROVE  attempt'[j] \in {"open", "closed"} \/ j + 1 \in ended'
    BY <1>1, <1>3, <2>3 DEF SuccessCredited
  <2> QED
    BY <2>1, <2>2, <2>3 DEF SuccessCredited
<1>8. RaceKeepsOneSocket'
  <2>1. ASSUME NEW j \in ended', NEW e \in j .. n, NEW f \in j .. n,
               attempt'[e] = "open", attempt'[f] = "open"
        PROVE  e = f
    <3>1. e \in Endpoints /\ f \in Endpoints /\ attempt[e] = "open" /\ attempt[f] = "open"
      <4>1. e \in Endpoints /\ f \in Endpoints
        BY <1>1, <2>1 DEF Endpoints
      <4> QED
        BY <1>3, <2>1, <4>1
    <3>2. CASE e > k /\ f > k
      BY <1>1, <2>1, <3>1, <3>2 DEF RaceKeepsOneSocket
    <3>3. CASE e = k \/ f = k
      <4>1. won[k] \in {"left", "right"}
        BY <3>1, <3>3 DEF SuccessCredited, RaceTypeOK, Members
      <4> QED
        BY <1>1, <1>3, <2>1, <3>1, <3>3, <4>1 DEF Endpoints
    <3> QED
      BY <1>1, <2>1, <3>2, <3>3
  <2> QED
    BY <1>1, <1>2, <2>1 DEF RaceKeepsOneSocket
<1>9. FailsOnlyIfAllFailed'
  <2>1. ASSUME NEW j \in ended', won'[j] = "none", NEW e \in j .. n
        PROVE  attempt'[e] = "failed"
    <3>1. j \in Endpoints /\ e \in Endpoints /\ won[j] = "none"
      BY <1>1, <1>3, <2>1 DEF Endpoints
    <3>2. attempt[e] = "failed"
      <4>1. CASE j \in ended
        BY <2>1, <3>1, <4>1 DEF FailsOnlyIfAllFailed
      <4>2. CASE j = k
        <5>1. won[k + 1] = "none" /\ attempt[k] = "failed"
          BY <1>1, <3>1, <4>2 DEF SuccessCredited
        <5>2. e = k \/ e \in (k + 1) .. n
          BY <1>1, <2>1, <4>2
        <5> QED
          BY <1>1, <5>1, <5>2 DEF FailsOnlyIfAllFailed
      <4> QED
        BY <1>1, <2>1, <4>1, <4>2
    <3> QED
      BY <1>3, <3>1, <3>2
  <2> QED
    BY <1>1, <2>1 DEF FailsOnlyIfAllFailed
<1>10. StagesInOrder' /\ UpgradedOnlyWhenSecure'
  BY <1>2 DEF StagesInOrder, UpgradedOnlyWhenSecure, shakes
<1> QED
  BY <1>4, <1>5, <1>6, <1>7, <1>8, <1>9, <1>10

\* A step that leaves the sockets alone keeps what is said of them.
LEMMA SocketsKept ==
  ASSUME RaceInv, UNCHANGED sockets
  PROVE  /\ RangesEndFromTheRight' /\ AttemptsOfEndpoints' /\ SuccessCredited'
         /\ RaceKeepsOneSocket' /\ FailsOnlyIfAllFailed'
BY DEF RaceInv, sockets, RangesEndFromTheRight, AttemptsOfEndpoints, SuccessCredited,
   RaceKeepsOneSocket, FailsOnlyIfAllFailed

\* Closing the stream's socket is no matter of the race any more.
LEMMA CloseTcpSound ==
  ASSUME RaceInv, CloseTcp, UNCHANGED <<n, ended, won, winner>>
  PROVE  /\ attempt' \in [Endpoints -> Sockets]
         /\ RangesEndFromTheRight' /\ AttemptsOfEndpoints' /\ SuccessCredited'
         /\ RaceKeepsOneSocket' /\ FailsOnlyIfAllFailed'
<1> USE DEF RaceInv
<1>1. /\ attempt' \in [Endpoints -> Sockets]
      /\ \A e \in Endpoints : attempt'[e] = attempt[e]
           \/ (e = winner /\ winner # 0 /\ winner \in ended /\ attempt[e] = "open" /\ attempt'[e] = "closed")
  BY ResultsAssumption DEF CloseTcp, RaceTypeOK, Sockets, StagesInOrder, Endpoints
<1>2. n' = n /\ ended' = ended /\ won' = won /\ winner' = winner
      /\ \A k \in ended : \A e \in k .. n : e \in Endpoints /\ k \in Endpoints
  BY ResultsAssumption DEF RaceTypeOK, RangesEndFromTheRight, Endpoints
<1>3. RangesEndFromTheRight'
  BY <1>1, <1>2 DEF RangesEndFromTheRight
<1>4. AttemptsOfEndpoints' /\ SuccessCredited'
  BY <1>1, <1>2 DEF AttemptsOfEndpoints, SuccessCredited
<1>5. RaceKeepsOneSocket'
  BY <1>1, <1>2 DEF RaceKeepsOneSocket
<1>6. FailsOnlyIfAllFailed'
  BY <1>1, <1>2 DEF FailsOnlyIfAllFailed
<1> QED
  BY <1>1, <1>3, <1>4, <1>5, <1>6

\* The attempts begin.
LEMMA ResolvedSound ==
  ASSUME RaceInv, NEW m \in Endpoints, Resolved(m)
  PROVE  RaceInv'
<1> USE ResultsAssumption DEF RaceInv
<1>1. NothingDialled /\ upgraded = FALSE
  BY DEF Resolved, StagesInOrder
<1>2. CASE cancelled
  <2>1. stage' = "returned" /\ UNCHANGED <<transport, shakes, cancelled, sockets>>
    BY <1>2 DEF Resolved, Throw
  <2>2. RaceTypeOK'
    BY <2>1 DEF RaceTypeOK, Stages, sockets, shakes
  <2>3. StagesInOrder' /\ UpgradedOnlyWhenSecure'
    BY <1>1, <2>1 DEF StagesInOrder, UpgradedOnlyWhenSecure, NothingDialled, sockets, shakes
  <2> QED
    BY <2>1, <2>2, <2>3, SocketsKept
<1>3. CASE ~cancelled
  <2>1. /\ stage' = "racing" /\ n' = m /\ ended' = {} /\ winner' = 0
        /\ attempt' = [e \in Endpoints |-> IF e <= m THEN "connecting" ELSE "off"]
        /\ won' = [k \in Endpoints |-> "none"]
        /\ UNCHANGED <<transport, secured, upgraded, cancelled>>
    BY <1>1, <1>3 DEF Resolved, NothingDialled, shakes
  <2>2. RaceTypeOK'
    BY <2>1 DEF RaceTypeOK, Stages, Sockets, Members, Endpoints
  <2>3. RangesEndFromTheRight' /\ AttemptsOfEndpoints' /\ SuccessCredited'
    BY <2>1 DEF RangesEndFromTheRight, AttemptsOfEndpoints, SuccessCredited, Endpoints
  <2>4. RaceKeepsOneSocket' /\ FailsOnlyIfAllFailed'
    BY <2>1 DEF RaceKeepsOneSocket, FailsOnlyIfAllFailed
  <2>5. StagesInOrder' /\ UpgradedOnlyWhenSecure'
    BY <1>1, <2>1 DEF StagesInOrder, UpgradedOnlyWhenSecure
  <2> QED
    BY <2>2, <2>3, <2>4, <2>5
<1> QED
  BY <1>2, <1>3

\* The stream takes the one socket that is left, or there is none.
LEMMA RaceEndsSound ==
  ASSUME RaceInv, RaceEnds
  PROVE  RaceInv'
<1> USE ResultsAssumption DEF RaceInv
<1>1. /\ n \in Nat /\ n <= MaxResults /\ 1 \in ended /\ 1 \in 1 .. n
      /\ winner = 0 /\ stage = "racing" /\ upgraded = FALSE
  BY DEF RaceEnds, RaceTypeOK, RangesEndFromTheRight, StagesInOrder
<1>2. CASE won[1] = "none"
  <2>1. stage' = "returned" /\ UNCHANGED <<transport, shakes, cancelled, sockets>>
    BY <1>2 DEF RaceEnds, Throw
  <2>2. RaceTypeOK'
    BY <2>1 DEF RaceTypeOK, Stages, sockets, shakes
  <2>3. StagesInOrder' /\ UpgradedOnlyWhenSecure'
    BY <1>1, <2>1 DEF StagesInOrder, UpgradedOnlyWhenSecure, sockets, shakes
  <2> QED
    BY <2>1, <2>2, <2>3, SocketsKept
<1>3. CASE won[1] # "none"
  <2>1. PICK e \in 1 .. n : attempt[e] = "open" /\ winner' = e
    BY <1>3 DEF RaceEnds, ReplaceTcp
  <2>2. /\ UNCHANGED <<transport, n, attempt, ended, won, secured, upgraded, cancelled>>
        /\ stage' \in {"returned", "tls", "upgrade"}
        /\ stage' = "upgrade" => transport # "tls"
    BY <1>3 DEF RaceEnds, IsTls, shakes
  <2>3. RaceTypeOK'
    BY <1>1, <2>1, <2>2 DEF RaceTypeOK, Stages
  <2>4. RangesEndFromTheRight' /\ AttemptsOfEndpoints' /\ SuccessCredited' /\ FailsOnlyIfAllFailed'
    BY <2>2 DEF RangesEndFromTheRight, AttemptsOfEndpoints, SuccessCredited, FailsOnlyIfAllFailed
  <2>5. RaceKeepsOneSocket'
    <3>1. ASSUME NEW f \in Endpoints, attempt[f] = "open" PROVE f = e
      <4>1. f \in 1 .. n
        BY <1>1, <3>1 DEF AttemptsOfEndpoints, Endpoints
      <4> QED
        BY <1>1, <2>1, <3>1, <4>1 DEF RaceKeepsOneSocket
    <3> QED
      BY <2>1, <2>2, <3>1 DEF RaceKeepsOneSocket
  <2>6. StagesInOrder' /\ UpgradedOnlyWhenSecure'
    BY <1>1, <2>1, <2>2 DEF StagesInOrder, UpgradedOnlyWhenSecure, RangesEndFromTheRight
  <2> QED
    BY <2>3, <2>4, <2>5, <2>6
<1> QED
  BY <1>2, <1>3

\* Steps of the stages, which leave the sockets alone.
LEMMA StageStepSound ==
  ASSUME RaceInv,
         \/ \E t \in Transports : BeginConnect(t)
         \/ ResolveFails \/ TlsDone \/ UpgradeDone \/ HandshakeFails
  PROVE  RaceInv'
<1> USE DEF RaceInv
<1>1. UNCHANGED sockets
  BY DEF BeginConnect, ResolveFails, TlsDone, UpgradeDone, HandshakeFails
<1>2. NothingDialled => NothingDialled'
  BY <1>1 DEF NothingDialled, sockets
<1>3. RaceTypeOK'
  BY <1>1 DEF RaceTypeOK, Stages, sockets, shakes, BeginConnect, ResolveFails, TlsDone,
              UpgradeDone, HandshakeFails, Throw
<1>4. StagesInOrder' /\ UpgradedOnlyWhenSecure'
  <2>1. CASE \E t \in Transports : BeginConnect(t)
    BY <1>1, <1>2, <2>1 DEF StagesInOrder, UpgradedOnlyWhenSecure, sockets, shakes, BeginConnect
  <2>2. CASE ResolveFails
    BY <1>1, <1>2, <2>2 DEF StagesInOrder, UpgradedOnlyWhenSecure, sockets, shakes, ResolveFails, Throw
  <2>3. CASE TlsDone
    BY <1>1, <2>3 DEF StagesInOrder, UpgradedOnlyWhenSecure, sockets, shakes, TlsDone
  <2>4. CASE UpgradeDone
    BY <1>1, <2>4 DEF StagesInOrder, UpgradedOnlyWhenSecure, sockets, shakes, UpgradeDone
  <2>5. CASE HandshakeFails
    BY <1>1, <2>5 DEF StagesInOrder, UpgradedOnlyWhenSecure, sockets, shakes, HandshakeFails, Throw
  <2> QED
    BY <2>1, <2>2, <2>3, <2>4, <2>5
<1> QED
  BY <1>1, <1>3, <1>4, SocketsKept

\* Cancelling and closing concern a socket that the stream has.
LEMMA ClosingStepSound ==
  ASSUME RaceInv,
         \/ CancelConnect
         \/ CloseTcp /\ UNCHANGED <<transport, stage, n, ended, won, winner, shakes, cancelled>>
  PROVE  RaceInv'
<1> USE DEF RaceInv
<1>1. UNCHANGED <<transport, stage, n, ended, won, winner, secured, upgraded>> /\ cancelled' \in BOOLEAN
  BY DEF CancelConnect, RaceTypeOK, shakes
<1>2. /\ attempt' \in [Endpoints -> Sockets]
      /\ RangesEndFromTheRight' /\ AttemptsOfEndpoints' /\ SuccessCredited'
      /\ RaceKeepsOneSocket' /\ FailsOnlyIfAllFailed'
  <2>1. CASE CloseTcp
    BY <1>1, <2>1, CloseTcpSound
  <2>2. CASE UNCHANGED attempt
    BY <1>1, <2>2, SocketsKept DEF sockets, RaceTypeOK
  <2> QED
    BY <2>1, <2>2 DEF CancelConnect
<1>3. NothingDialled => NothingDialled'
  <2>1. CASE CloseTcp
    BY <1>1, <2>1, ResultsAssumption DEF NothingDialled, CloseTcp, Endpoints
  <2>2. CASE UNCHANGED attempt
    BY <1>1, <2>2 DEF NothingDialled
  <2> QED
    BY <2>1, <2>2 DEF CancelConnect
<1>4. RaceTypeOK'
  BY <1>1, <1>2 DEF RaceTypeOK
<1>5. StagesInOrder' /\ UpgradedOnlyWhenSecure'
  BY <1>1, <1>3 DEF StagesInOrder, UpgradedOnlyWhenSecure
<1> QED
  BY <1>2, <1>4, <1>5

\* A stream that is destroyed dials nothing, and is like one that never did.
LEMMA DestroyStreamSound ==
  ASSUME RaceInv, DestroyStream
  PROVE  RaceInv'
<1>1. NothingDialled'
  BY DEF DestroyStream, NothingDialled
<1>2. /\ n' \in 0 .. MaxResults /\ winner' \in 0 .. MaxResults /\ ended' \in SUBSET Endpoints
      /\ attempt' \in [Endpoints -> Sockets] /\ won' \in [Endpoints -> Members]
      /\ RangesEndFromTheRight' /\ AttemptsOfEndpoints' /\ SuccessCredited'
      /\ RaceKeepsOneSocket' /\ FailsOnlyIfAllFailed'
  BY <1>1, ResultsAssumption DEF NothingDialled, Endpoints, Sockets, Members,
     RangesEndFromTheRight, AttemptsOfEndpoints, SuccessCredited, RaceKeepsOneSocket, FailsOnlyIfAllFailed
<1>3. RaceTypeOK'
  BY <1>2 DEF RaceInv, RaceTypeOK, DestroyStream, Stages
<1>4. StagesInOrder' /\ UpgradedOnlyWhenSecure'
  BY <1>1 DEF StagesInOrder, UpgradedOnlyWhenSecure, DestroyStream, NothingDialled
<1> QED
  BY <1>2, <1>3, <1>4 DEF RaceInv

\* Every step of a stream keeps the invariant.
LEMMA RaceStepSound == RaceInv /\ [RaceNext]_raceVars => RaceInv'
<1> SUFFICES ASSUME RaceInv, [RaceNext]_raceVars PROVE RaceInv'
  OBVIOUS
<1>1. CASE \E t \in Transports : BeginConnect(t)
  BY <1>1, StageStepSound
<1>2. CASE ConnectStep
  <2>1. CASE \E m \in Endpoints : Resolved(m)
    BY <2>1, ResolvedSound
  <2>2. CASE \E e \in Endpoints, outcome \in {"open", "failed"} : AttemptEnds(e, outcome)
    BY <2>2, AttemptEndsSound
  <2>3. CASE \E k \in Endpoints : RangeEnds(k)
    BY <2>3, RangeEndsSound
  <2>4. CASE RaceEnds
    BY <2>4, RaceEndsSound
  <2>5. CASE ResolveFails \/ TlsDone \/ UpgradeDone \/ HandshakeFails
    BY <2>5, StageStepSound
  <2> QED
    BY <1>2, <2>1, <2>2, <2>3, <2>4, <2>5 DEF ConnectStep
<1>3. CASE \/ CancelConnect
           \/ CloseTcp /\ UNCHANGED <<transport, stage, n, ended, won, winner, shakes, cancelled>>
  BY <1>3, ClosingStepSound
<1>4. CASE DestroyStream
  BY <1>4, DestroyStreamSound
<1>5. CASE UNCHANGED raceVars
  <2>1. UNCHANGED sockets /\ UNCHANGED <<transport, stage, secured, upgraded, cancelled>>
    BY <1>5 DEF raceVars, sockets
  <2>2. RaceTypeOK' /\ StagesInOrder' /\ UpgradedOnlyWhenSecure'
    BY <2>1 DEF RaceInv, sockets, RaceTypeOK, StagesInOrder, UpgradedOnlyWhenSecure, NothingDialled
  <2> QED
    BY <2>1, <2>2, SocketsKept DEF RaceInv
<1> QED
  BY <1>1, <1>2, <1>3, <1>4, <1>5 DEF RaceNext

----------------------------------------------------------------------------

\* What is said above of the ranges, the attempts and the stages is always so, for
\* any number of endpoints that the host resolves to (connect()).
THEOREM RaceInvariant == RaceSpec => []RaceInv
<1>1. RaceInit => RaceInv
  BY RaceInitSound
<1>2. RaceInv /\ [RaceNext]_raceVars => RaceInv'
  BY RaceStepSound
<1> QED
  BY <1>1, <1>2, PTL DEF RaceSpec

\* For any number of endpoints: of a range that is over one socket at most is
\* open, and none but the stream's once it has one (connect_range(), selected()).
THEOREM NoSocketLeaks == RaceSpec => []RaceKeepsOneSocket
<1>1. RaceInv => RaceKeepsOneSocket
  BY DEF RaceInv
<1> QED
  BY <1>1, RaceInvariant, PTL

\* For any number of endpoints: a race fails only if every attempt has failed.
THEOREM NoSuccessIsLost == RaceSpec => []FailsOnlyIfAllFailed
<1>1. RaceInv => FailsOnlyIfAllFailed
  BY DEF RaceInv
<1> QED
  BY <1>1, RaceInvariant, PTL

\* For any number of endpoints: no wss stream is upgraded before its TLS handshake.
THEOREM UpgradesAreSecure == RaceSpec => []UpgradedOnlyWhenSecure
<1>1. RaceInv => UpgradedOnlyWhenSecure
  BY DEF RaceInv
<1> QED
  BY <1>1, RaceInvariant, PTL

----------------------------------------------------------------------------
(* The lifetime_ptr: who owns the object, and when it is stopped, for any  *)
(* holders and any order of copying and giving up handles.                 *)

\* A handle owns the proxy, whose deleter owns the object; so does
\* make_lifetime_ptr while start() runs.
ProxyOwned == handles # {} \/ made = "starting" => "deleter" \in owners

\* Only a start() that returned arms the proxy, and makes handles.
ArmedByStart ==
  /\ made = "yes" <=> started
  /\ proxy <=> started
  /\ handles # {} => started

\* Before it was stopped the object belongs to the deleter or to nobody's handle.
StopFollowsRelease ==
  /\ "deleter" \in owners => "stopping" \notin owners /\ stops = 0
  /\ "stopping" \in owners => stops = 0
  /\ ~started => "stopping" \notin owners /\ stops = 0

LifeInv == LifeTypeOK /\ ProxyOwned /\ ArmedByStart /\ StopFollowsRelease

\* The invariant says that the object is stopped once at most, after its start.
LEMMA LifeInvSuffices == LifeInv => StoppedOnceAfterStart
BY DEF LifeInv, LifeTypeOK, ProxyOwned, StopFollowsRelease, StoppedOnceAfterStart

\* Nothing exists at first.
LEMMA LifeInitSound == LifeInit => LifeInv
BY DEF LifeInit, LifeInv, LifeTypeOK, Owners, ProxyOwned, ArmedByStart, StopFollowsRelease

\* Every step of make_lifetime_ptr, of the handles and of the object keeps it.
LEMMA LifeStepSound == LifeInv /\ [LifeNext]_lifeVars => LifeInv'
<1> SUFFICES ASSUME LifeInv, [LifeNext]_lifeVars PROVE LifeInv'
  OBVIOUS
<1> USE DEF LifeInv, LifeTypeOK, Owners, ProxyOwned, ArmedByStart, StopFollowsRelease
<1>1. CASE Construct
  BY <1>1 DEF Construct
<1>2. CASE \E h \in Holders : StartReturns(h)
  BY <1>2 DEF StartReturns
<1>3. CASE StartThrows
  BY <1>3 DEF StartThrows, Deleted
<1>4. CASE \E h, g \in Holders : Copy(h, g)
  BY <1>4 DEF Copy
<1>5. ASSUME NEW h \in Holders, Release(h) PROVE LifeInv'
  <2>1. CASE handles' = {}
    BY <1>5, <2>1 DEF Release, Deleted
  <2>2. CASE handles' # {}
    BY <1>5, <2>2 DEF Release
  <2> QED
    BY <2>1, <2>2
<1>6. CASE StopRuns
  BY <1>6 DEF StopRuns
<1>7. CASE OperationEnds
  BY <1>7 DEF OperationEnds
<1>8. CASE UNCHANGED lifeVars
  BY <1>8 DEF lifeVars
<1> QED
  BY <1>1, <1>2, <1>3, <1>4, <1>5, <1>6, <1>7, <1>8 DEF LifeNext

\* For any holders: an object is stopped at most once, only after start() returned
\* and once its last handle is gone (lifetime_deleter, make_lifetime_ptr).
THEOREM StopsOnce == LifeSpec => []StoppedOnceAfterStart
<1>1. LifeSpec => []LifeInv
  BY LifeInitSound, LifeStepSound, PTL DEF LifeSpec
<1> QED
  BY <1>1, LifeInvSuffices, PTL

----------------------------------------------------------------------------
(* The parts. *)

\* A url that decodes has one of the two transports (deduce_transport).
LEMMA TransportDeduced ==
  DecodeUrl(url) # Invalid => DecodeUrl(url).transport \in Transports
BY DEF DecodeUrl, DeduceTransport, Transports

\* Every step of the connector is a step of the stream or leaves it alone.
LEMMA StepsOfStream == Next => [RaceNext]_raceVars
<1> SUFFICES ASSUME Next PROVE [RaceNext]_raceVars
  OBVIOUS
<1>1. CASE Make
  BY <1>1 DEF Make
<1>2. CASE \E h \in Holders : GiveUp(h) \/ Wait(h) \/ WaitResumes(h) \/ \E g \in Holders : Share(h, g)
  BY <1>2 DEF GiveUp, Wait, WaitResumes, Share
<1>3. CASE (\E h \in Holders : UserDrop(h)) \/ SocketCloses
  BY <1>3 DEF UserDrop, SocketCloses, RaceNext
<1>4. CASE Reconnect
  BY <1>4, TransportDeduced DEF Reconnect, RaceNext
<1>5. CASE Rejected \/ StoppedInDelay
  BY <1>5 DEF Rejected, StoppedInDelay
<1>6. CASE Connecting
  BY <1>6 DEF Connecting, RaceNext
<1>7. CASE SessionEnds
  BY <1>7 DEF SessionEnds, RaceNext
<1>8. CASE Emit
  BY <1>8 DEF Emit, RaceNext
<1> QED
  BY <1>1, <1>2, <1>3, <1>4, <1>5, <1>6, <1>7, <1>8 DEF Next

\* Every step of the connector is a step of its lifetime or leaves it alone.
LEMMA StepsOfLifetime == Next => [LifeNext]_lifeVars
<1> SUFFICES ASSUME Next PROVE [LifeNext]_lifeVars
  OBVIOUS
<1>1. CASE Make
  BY <1>1 DEF Make, LifeNext
<1>2. CASE \E h \in Holders : GiveUp(h) \/ \E g \in Holders : Share(h, g)
  BY <1>2 DEF GiveUp, Share, LifeNext
<1>3. CASE \E h \in Holders : Wait(h) \/ WaitResumes(h) \/ UserDrop(h)
  BY <1>3 DEF Wait, WaitResumes, UserDrop
<1>4. CASE Reconnect \/ Rejected \/ Connecting
  BY <1>4 DEF Reconnect, Rejected, Connecting
<1>5. CASE SocketCloses
  BY <1>5 DEF SocketCloses
<1>6. CASE SessionEnds \/ StoppedInDelay
  BY <1>6 DEF SessionEnds, StoppedInDelay, RunEnds, LifeNext
<1>7. CASE Emit
  BY <1>7 DEF Emit, LifeNext
<1> QED
  BY <1>1, <1>2, <1>3, <1>4, <1>5, <1>6, <1>7 DEF Next

\* The connector's actions are built from those of ConnectRace, so what is proved
\* of a stream may be used for the stream of a connector ...
LEMMA StreamOfConnector == Spec => RaceSpec
<1>1. Init => RaceInit
  BY DEF Init
<1>2. [Next]_connectorVars => [RaceNext]_raceVars
  BY StepsOfStream DEF connectorVars
<1> QED
  BY <1>1, <1>2, PTL DEF Spec, RaceSpec

\* ... and what is proved of a lifetime_ptr for the connector's.
LEMMA LifetimeOfConnector == Spec => LifeSpec
<1>1. Init => LifeInit
  BY DEF Init
<1>2. [Next]_connectorVars => [LifeNext]_lifeVars
  BY StepsOfLifetime DEF connectorVars
<1> QED
  BY <1>1, <1>2, PTL DEF Spec, LifeSpec

----------------------------------------------------------------------------
(* The connector's own state. *)

OwnTypes ==
  /\ url \in Urls /\ phase \in ConnectorPhases
  /\ onDrop \in BOOLEAN /\ dropLost \in BOOLEAN /\ connUp \in BOOLEAN
  /\ waits \in [Holders -> Waits]

\* A stream lives while reconnect() runs, and connect() has returned in a session.
PhasesFollowStream ==
  /\ phase \in {"spawned", "delay", "stopped"} => stage = "off"
  /\ phase = "connecting" => stage \notin {"off", "returned"}
  /\ phase = "session" => stage = "returned"

\* run() keeps the connector alive from start() to its end.
OperationOwned ==
  /\ phase # "spawned" => started
  /\ started /\ phase # "stopped" => "operation" \in owners

\* A drop that was not lost has closed the socket for good, and so has a cancellation.
ClosedForGood ==
  /\ phase \in {"connecting", "session"} /\ ~onDrop =>
       dropLost \/ (stage \in {"tls", "upgrade", "returned"} /\ ~TcpOpen)
  /\ cancelled /\ stage \in {"tls", "upgrade"} => ~TcpOpen

\* Only stop()'s handler emits the signal.
Signalled == cancelled => stops > 0

ConnectorInv ==
  /\ RaceInv /\ LifeInv
  /\ OwnTypes /\ PhasesFollowStream /\ OperationOwned /\ ClosedForGood /\ Signalled /\ SleepersKnow

\* A stream's socket is open only when connect() is past the race.
LEMMA OpenAfterRace ==
  ASSUME RaceInv
  PROVE  /\ TcpOpen => stage \in {"tls", "upgrade", "returned"}
         /\ Usable => stage = "returned"
BY DEF RaceInv, StagesInOrder, NothingDialled, RaceTypeOK, Stages, TcpOpen, Usable

\* What a handler of connect() can do to the stages and to the stream's socket.
LEMMA ConnectStepEffects ==
  ASSUME RaceInv, ConnectStep
  PROVE  /\ stage \notin {"off", "returned"} /\ stage' \in Stages \ {"off"}
         /\ UNCHANGED cancelled
         /\ stage \in {"tls", "upgrade"} =>
              /\ UNCHANGED <<attempt, winner>>
              /\ stage' \in {"upgrade", "returned"}
         /\ stage \in {"resolving", "racing"} /\ cancelled => stage' \notin {"tls", "upgrade"}
         /\ upgraded' => stage = "upgrade" /\ stage' = "returned"
<1> USE DEF RaceInv, RaceTypeOK, StagesInOrder, Stages, shakes, sockets
<1>1. CASE \E m \in Endpoints : Resolved(m)
  BY <1>1 DEF Resolved, Throw
<1>2. CASE ResolveFails \/ HandshakeFails
  BY <1>2 DEF ResolveFails, HandshakeFails, Throw
<1>3. CASE \E e \in Endpoints, outcome \in {"open", "failed"} : AttemptEnds(e, outcome)
  BY <1>3 DEF AttemptEnds
<1>4. CASE \E k \in Endpoints : RangeEnds(k)
  BY <1>4 DEF RangeEnds
<1>5. CASE RaceEnds
  BY <1>5 DEF RaceEnds, Throw
<1>6. CASE TlsDone
  BY <1>6 DEF TlsDone
<1>7. CASE UpgradeDone
  BY <1>7 DEF UpgradeDone
<1> QED
  BY <1>1, <1>2, <1>3, <1>4, <1>5, <1>6, <1>7 DEF ConnectStep

\* Closing the tcp socket leaves it closed.
LEMMA CloseTcpCloses ==
  ASSUME RaceTypeOK, CloseTcp, UNCHANGED winner
  PROVE  ~TcpOpen'
BY DEF RaceTypeOK, CloseTcp, TcpOpen, Endpoints

\* A connector begins with nothing.
LEMMA ConnectorInitSound == Init => ConnectorInv
BY RaceInitSound, LifeInitSound
   DEF Init, ConnectorInv, OwnTypes, ConnectorPhases, Waits, PhasesFollowStream, OperationOwned,
       ClosedForGood, Signalled, SleepersKnow, RaceInit, LifeInit

\* What the application does by its handles keeps the connector's state sound.
LEMMA ApplicationStepSound ==
  ASSUME ConnectorInv,
         \/ Make
         \/ \E h \in Holders : \/ GiveUp(h) \/ Wait(h) \/ WaitResumes(h) \/ UserDrop(h)
                               \/ \E g \in Holders : Share(h, g)
  PROVE  /\ OwnTypes' /\ PhasesFollowStream' /\ OperationOwned'
         /\ ClosedForGood' /\ Signalled' /\ SleepersKnow'
<1> USE DEF ConnectorInv, OwnTypes, PhasesFollowStream, OperationOwned, ClosedForGood, Signalled, SleepersKnow
<1>1. CASE Make
  <2>1. UNCHANGED <<raceVars, ownVars, stops>> /\ (phase # "spawned" => started)
    BY <1>1 DEF Make, Construct, StartThrows, StartReturns
  <2>2. ~started
    BY <1>1 DEF Make, Construct, StartThrows, StartReturns, LifeInv, ArmedByStart
  <2>3. started' => "operation" \in owners'
    BY <1>1, <2>2 DEF Make, Construct, StartThrows, StartReturns
  <2> QED
    BY <2>1, <2>2, <2>3 DEF raceVars, ownVars, TcpOpen
<1>2. CASE \E h \in Holders : GiveUp(h) \/ \E g \in Holders : Share(h, g)
  <2>1. /\ UNCHANGED <<raceVars, ownVars, started, stops>>
        /\ "operation" \in owners => "operation" \in owners'
    BY <1>2 DEF GiveUp, Release, Deleted, Share, Copy
  <2> QED
    BY <2>1 DEF raceVars, ownVars, TcpOpen
<1>3. CASE \E h \in Holders : Wait(h) \/ WaitResumes(h)
  <2>1. UNCHANGED <<raceVars, lifeVars, url, phase, onDrop, dropLost, connUp>>
    BY <1>3 DEF Wait, WaitResumes
  <2>2. waits' \in [Holders -> Waits] /\ SleepersKnow'
    BY <1>3 DEF Wait, WaitResumes, Waits
  <2> QED
    BY <2>1, <2>2 DEF raceVars, lifeVars, TcpOpen
<1>4. CASE \E h \in Holders : UserDrop(h)
  <2>1. /\ UNCHANGED <<stage, cancelled, winner, lifeVars, url, phase, connUp, waits>>
        /\ onDrop' = FALSE /\ CloseTcp
    BY <1>4 DEF UserDrop
  <2>2. dropLost' \in BOOLEAN /\ (stage \in {"resolving", "racing"} => dropLost')
    <3>1. dropLost' = (stage \in {"resolving", "racing"})
      BY <1>4 DEF UserDrop
    <3> HIDE DEF ConnectorInv, OwnTypes, PhasesFollowStream, OperationOwned, ClosedForGood, Signalled, SleepersKnow
    <3>2. (stage \in {"resolving", "racing"}) \in BOOLEAN
      BY SMT
    <3>3. dropLost' \in BOOLEAN
      BY <3>1, <3>2, Zenon
    <3>4. stage \in {"resolving", "racing"} => dropLost'
      BY <3>1, Zenon
    <3> QED
      BY <3>3, <3>4
  <2>3. ~TcpOpen' /\ stage \in Stages
    BY <2>1, CloseTcpCloses DEF RaceInv, RaceTypeOK
  <2>4. ClosedForGood'
    BY <2>1, <2>2, <2>3 DEF Stages
  <2> QED
    BY <2>1, <2>2, <2>4 DEF lifeVars
<1> QED
  BY <1>1, <1>2, <1>3, <1>4

\* run(), reconnect() and connect() keep it sound.
LEMMA RunStepSound ==
  ASSUME ConnectorInv,
         Reconnect \/ Rejected \/ Connecting \/ SocketCloses \/ SessionEnds \/ StoppedInDelay \/ Emit
  PROVE  /\ OwnTypes' /\ PhasesFollowStream' /\ OperationOwned'
         /\ ClosedForGood' /\ Signalled' /\ SleepersKnow'
<1> USE DEF ConnectorInv, OwnTypes, ConnectorPhases, PhasesFollowStream, OperationOwned,
            ClosedForGood, Signalled, SleepersKnow
<1>1. CASE Reconnect
  BY <1>1 DEF Reconnect, BeginConnect, lifeVars
<1>2. CASE Rejected
  BY <1>2 DEF Rejected, raceVars, lifeVars
<1>3. CASE Connecting
  <2>1. /\ phase = "connecting" /\ UNCHANGED <<lifeVars, url, onDrop, dropLost>>
        /\ phase' = (IF stage' = "returned" THEN "session" ELSE "connecting")
        /\ (connUp' = connUp /\ waits' = waits) \/ NotifyUp
    BY <1>3 DEF Connecting
  <2>2. connUp' \in BOOLEAN /\ waits' \in [Holders -> Waits] /\ SleepersKnow'
    <3>1. CASE connUp' = connUp /\ waits' = waits
      BY <3>1
    <3>2. CASE NotifyUp
      <4>1. \A h \in Holders : waits[h] \in Waits
        OBVIOUS
      <4>2. \A h \in Holders : waits'[h] \in Waits \ {"ready"}
        BY <3>2, <4>1 DEF NotifyUp, Waits
      <4> QED
        BY <3>2, <4>2 DEF NotifyUp, Waits
    <3> QED
      BY <2>1, <3>1, <3>2
  <2>3. /\ stage \in Stages \ {"off", "returned"} /\ stage' \in Stages \ {"off"} /\ UNCHANGED cancelled
        /\ stage \in {"tls", "upgrade"} =>
             UNCHANGED <<attempt, winner>> /\ stage' \in {"upgrade", "returned"}
        /\ stage \in {"resolving", "racing"} /\ cancelled => stage' \notin {"tls", "upgrade"}
    <3>1. RaceInv /\ ConnectStep /\ stage \in Stages
      BY <1>3 DEF Connecting, RaceInv, RaceTypeOK
    <3> QED
      BY <3>1, ConnectStepEffects
  <2>4. ClosedForGood'
    <3>1. CASE stage \in {"tls", "upgrade"}
      BY <2>1, <2>3, <3>1 DEF TcpOpen
    <3>2. CASE stage \in {"resolving", "racing"}
      BY <2>1, <2>3, <3>2
    <3> QED
      BY <2>3, <3>1, <3>2 DEF Stages
  <2> QED
    BY <2>1, <2>2, <2>3, <2>4 DEF lifeVars
<1>4. CASE SocketCloses
  <2>1. UNCHANGED <<stage, cancelled, winner, lifeVars, ownVars>> /\ ~TcpOpen'
    BY <1>4, CloseTcpCloses DEF SocketCloses, RaceInv
  <2> QED
    BY <2>1 DEF lifeVars, ownVars
<1>5. CASE SessionEnds
  <2>1. /\ phase = "session" /\ stage' = "off" /\ UNCHANGED cancelled
        /\ onDrop' = FALSE /\ UNCHANGED <<url, dropLost, connUp, waits>>
    BY <1>5 DEF SessionEnds, DestroyStream
  <2>2. \/ phase' = "delay" /\ UNCHANGED lifeVars
        \/ phase' = "stopped" /\ UNCHANGED <<started, stops>>
    BY <1>5 DEF SessionEnds, RunEnds, OperationEnds
  <2>3. OwnTypes' /\ SleepersKnow'
    BY <2>1, <2>2
  <2>4. PhasesFollowStream' /\ OperationOwned'
    BY <2>1, <2>2 DEF lifeVars
  <2>5. ClosedForGood' /\ Signalled'
    BY <2>1, <2>2 DEF lifeVars
  <2> QED
    BY <2>3, <2>4, <2>5
<1>6. CASE StoppedInDelay
  <2>1. /\ phase' = "stopped" /\ stage = "off" /\ cancelled
        /\ UNCHANGED <<raceVars, started, stops, url, onDrop, dropLost, connUp, waits>>
    BY <1>6 DEF StoppedInDelay, RunEnds, OperationEnds
  <2>2. OwnTypes' /\ SleepersKnow'
    BY <2>1
  <2>3. started /\ stops > 0
    BY <2>1 DEF LifeInv, LifeTypeOK, StopFollowsRelease
  <2>4. PhasesFollowStream' /\ OperationOwned'
    BY <2>1, <2>3 DEF raceVars
  <2>5. ClosedForGood' /\ Signalled'
    BY <2>1, <2>3 DEF raceVars
  <2> QED
    BY <2>2, <2>4, <2>5
<1>7. CASE Emit
  <2>1. /\ UNCHANGED <<stage, winner, started, ownVars>>
        /\ "operation" \in owners => "operation" \in owners'
        /\ stops' = stops + 1 /\ stops \in Nat
        /\ IF stage \in {"tls", "upgrade"} THEN CloseTcp ELSE UNCHANGED attempt
    BY <1>7 DEF Emit, StopRuns, CancelConnect, LifeInv, LifeTypeOK
  <2>2. /\ stage \in {"tls", "upgrade"} => ~TcpOpen'
        /\ stage \notin {"tls", "upgrade"} => (TcpOpen' <=> TcpOpen)
    BY <2>1, CloseTcpCloses DEF RaceInv, TcpOpen
  <2> QED
    BY <2>1, <2>2 DEF ownVars
<1> QED
  BY <1>1, <1>2, <1>3, <1>4, <1>5, <1>6, <1>7

\* Every step of a connector keeps its invariant.
LEMMA ConnectorStepSound == ConnectorInv /\ [Next]_connectorVars => ConnectorInv'
<1> SUFFICES ASSUME ConnectorInv, [Next]_connectorVars PROVE ConnectorInv'
  OBVIOUS
<1>1. RaceInv'
  BY RaceStepSound, StepsOfStream DEF ConnectorInv, connectorVars
<1>2. LifeInv'
  BY LifeStepSound, StepsOfLifetime DEF ConnectorInv, connectorVars
<1>3. OwnTypes' /\ PhasesFollowStream' /\ OperationOwned' /\ ClosedForGood' /\ Signalled' /\ SleepersKnow'
  <2>1. CASE UNCHANGED connectorVars
    BY <2>1 DEF ConnectorInv, OwnTypes, PhasesFollowStream, OperationOwned, ClosedForGood,
                Signalled, SleepersKnow, TcpOpen, connectorVars, raceVars, lifeVars, ownVars
  <2>2. CASE Next
    BY <2>2, ApplicationStepSound, RunStepSound DEF Next
  <2> QED
    BY <2>1, <2>2
<1> QED
  BY <1>1, <1>2, <1>3 DEF ConnectorInv

----------------------------------------------------------------------------

\* For any holders, endpoints and urls the connector's state is as said above.
THEOREM ConnectorInvariant == Spec => []ConnectorInv
BY ConnectorInitSound, ConnectorStepSound, PTL DEF Spec

\* Every variable of the connector, its stream and its lifetime keeps its type.
THEOREM ConnectorTypeCorrect == Spec => []ConnectorTypeOK
<1>1. ConnectorInv => ConnectorTypeOK
  BY DEF ConnectorInv, OwnTypes, RaceInv, LifeInv, ConnectorTypeOK
<1> QED
  BY <1>1, ConnectorInvariant, PTL

\* Nobody sleeps in wait_ready() or wait_down() through the state it awaits.
THEOREM NobodyOversleeps == Spec => []SleepersKnow
<1>1. ConnectorInv => SleepersKnow
  BY DEF ConnectorInv
<1> QED
  BY <1>1, ConnectorInvariant, PTL

\* The connector exists as long as it has a handle or run() has a stream (start()).
THEOREM ConnectorOutlivesRun == Spec => []AliveWhileRunning
<1>1. ConnectorInv => AliveWhileRunning
  BY DEF ConnectorInv, AliveWhileRunning, LifeInv, ProxyOwned, OperationOwned, PhasesFollowStream,
         OwnTypes, ConnectorPhases
<1> QED
  BY <1>1, ConnectorInvariant, PTL

\* A drop is lost only if the stream had no socket yet (drop()).
THEOREM DropsWork == Spec => []DropLostOnlyWhileDialling
<1>1. ConnectorInv => DropLostOnlyWhileDialling
  BY DEF ConnectorInv, ClosedForGood, DropLostOnlyWhileDialling, Usable
<1> QED
  BY <1>1, ConnectorInvariant, PTL

----------------------------------------------------------------------------
(* The connector implements Connection. *)

\* Nothing is connected at first.
LEMMA LinkInit == Init => Link!ConnectionInit
BY DEF Init, RaceInit, NothingDialled, Link!ConnectionInit, Usable, TcpOpen

\* Every step of the connector is one of Connection's, or changes nothing of it.
LEMMA LinkStep == ConnectorInv /\ [Next]_connectorVars => [Link!ConnectionNext]_(Link!connectionVars)
<1> SUFFICES ASSUME ConnectorInv, [Next]_connectorVars
             PROVE  Link!ConnectionNext \/ UNCHANGED Link!connectionVars
  OBVIOUS
<1> USE DEF Link!ConnectionNext, Link!connectionVars
<1>1. /\ TcpOpen => stage \in {"tls", "upgrade", "returned"}
      /\ Usable => stage = "returned"
      /\ PhasesFollowStream /\ OwnTypes /\ RaceTypeOK
  BY OpenAfterRace DEF ConnectorInv, RaceInv
<1>2. UNCHANGED <<raceVars, phase, onDrop>> => UNCHANGED Link!connectionVars
  BY DEF raceVars, Usable, TcpOpen
<1>3. CASE Make \/ \E h \in Holders : \/ GiveUp(h) \/ Wait(h) \/ WaitResumes(h)
                                      \/ \E g \in Holders : Share(h, g)
  BY <1>2, <1>3 DEF Make, GiveUp, Wait, WaitResumes, Share, ownVars
<1>4. CASE \E h \in Holders : UserDrop(h)
  <2>1. onDrop /\ onDrop' = FALSE /\ UNCHANGED <<cancelled, phase>> /\ ~TcpOpen'
    BY <1>1, <1>4, CloseTcpCloses DEF UserDrop
  <2> QED
    BY <2>1 DEF Link!Drop, Usable
<1>5. CASE Reconnect
  <2>1. ~Usable /\ ~Usable'
    BY <1>1, <1>5 DEF Reconnect, BeginConnect, Usable, TcpOpen, sockets, shakes
  <2> QED
    BY <1>5, <2>1 DEF Reconnect, BeginConnect, Link!Attempt
<1>6. CASE Rejected
  BY <1>2, <1>6 DEF Rejected, Link!Rejected, raceVars, Usable, TcpOpen
<1>7. CASE Connecting
  <2>1. /\ phase = "connecting" /\ onDrop' = onDrop /\ UNCHANGED cancelled /\ ~Usable
        /\ phase' = (IF stage' = "returned" THEN "session" ELSE "connecting")
    BY <1>1, <1>7, ConnectStepEffects DEF Connecting, ConnectorInv, PhasesFollowStream
  <2>2. Usable' => stage' = "returned" /\ ~cancelled
    <3>1. upgraded' => stage = "upgrade" /\ stage' = "returned" /\ UNCHANGED <<attempt, winner>>
      BY <1>7, ConnectStepEffects DEF Connecting, ConnectorInv
    <3>2. stage = "upgrade" /\ cancelled => ~TcpOpen
      BY DEF ConnectorInv, ClosedForGood
    <3> QED
      BY <3>1, <3>2 DEF Usable, TcpOpen
  <2> QED
    BY <2>1, <2>2 DEF Link!Arrive
<1>8. CASE SocketCloses
  <2>1. phase = "session" /\ UNCHANGED <<phase, cancelled, onDrop>> /\ ~TcpOpen'
    BY <1>1, <1>8, CloseTcpCloses DEF SocketCloses, ownVars
  <2> QED
    BY <2>1 DEF Link!Break, Usable
<1>9. CASE SessionEnds
  <2>1. /\ phase = "session" /\ phase' = (IF cancelled THEN "stopped" ELSE "delay")
        /\ onDrop' = FALSE /\ UNCHANGED cancelled /\ ~Usable'
    BY <1>9 DEF SessionEnds, RunEnds, DestroyStream, Usable
  <2> QED
    BY <2>1 DEF Link!End
<1>10. CASE StoppedInDelay
  BY <1>10 DEF StoppedInDelay, RunEnds, Link!Cease, raceVars, Usable, TcpOpen
<1>11. CASE Emit
  <2>1. /\ cancelled' = TRUE /\ UNCHANGED <<phase, onDrop, winner, upgraded>>
        /\ (CloseTcp \/ UNCHANGED attempt)
    BY <1>11 DEF Emit, CancelConnect, ownVars, shakes
  <2>2. Usable' => Usable
    BY <1>1, <2>1, CloseTcpCloses DEF Usable, TcpOpen
  <2>3. ~cancelled
    BY <1>11 DEF Emit, StopRuns, ConnectorInv, Signalled, LifeInv, StopFollowsRelease
  <2> QED
    BY <2>1, <2>2, <2>3 DEF Link!Stop
<1>12. CASE UNCHANGED connectorVars
  BY <1>2, <1>12 DEF connectorVars, ownVars
<1> QED
  BY <1>3, <1>4, <1>5, <1>6, <1>7, <1>8, <1>9, <1>10, <1>11, <1>12 DEF Next

\* For any holders, endpoints and urls the connector implements Connection.
THEOREM ConnectorImplements == Spec => ImplementsConnection
<1>1. Spec => []ConnectorInv
  BY ConnectorInvariant
<1>2. Init => Link!ConnectionInit
  BY LinkInit
<1>3. ConnectorInv /\ [Next]_connectorVars => [Link!ConnectionNext]_(Link!connectionVars)
  BY LinkStep
<1> QED
  BY <1>1, <1>2, <1>3, PTL DEF Spec, ImplementsConnection, Link!ConnectionSpec

----------------------------------------------------------------------------
(* decode_url(): the greedy parts of the expression end where the reference *)
(* finds the ends of the parts of a url, which may have any length.         *)

\* The least of some positions.
LEMMA LeastPosition ==
  ASSUME NEW T \in SUBSET Nat, T # {}
  PROVE  Min(T) \in T /\ \A k \in T : Min(T) <= k
<1> DEFINE R == {ss \in Nat \X Nat : ss[1] < ss[2]}
<1>1. IsWellFoundedOn(R, Nat)
  BY NatLessThanWellFounded DEF OpToRel
<1>2. PICK m \in T : \A k \in T : <<k, m>> \notin R
  <2> HIDE DEF R
  <2> QED
    BY <1>1, WFMin
<1>3. ASSUME NEW k \in T PROVE m <= k
  <2>1. <<k, m>> \in R <=> k < m
    BY Zenon
  <2> QED
    BY <1>2, <2>1
<1> QED
  BY <1>3 DEF Min

\* e is where the first of some tokens from the i-th position on is, or the end.
Ends(s, i, tokens, e) ==
  /\ e \in i .. (Len(s) + 1)
  /\ e <= Len(s) => s[e] \in tokens
  /\ \A j \in i .. (e - 1) : s[j] \notin tokens

\* There is one end.
LEMMA EndsOnce ==
  ASSUME NEW s \in Seq(STRING), NEW i \in 1 .. (Len(s) + 1), NEW tokens, NEW d, NEW e,
         Ends(s, i, tokens, d), Ends(s, i, tokens, e)
  PROVE  d = e
BY DEF Ends

\* A greedy part of the expression ends there ...
LEMMA GreedyEnds ==
  ASSUME NEW s \in Seq(STRING), NEW i \in 1 .. (Len(s) + 1), NEW tokens
  PROVE  Run(s, i, tokens) \in Nat /\ Ends(s, i, tokens, i + Run(s, i, tokens))
<1> DEFINE T == {k \in 0 .. (Len(s) - i + 1) : i + k > Len(s) \/ s[i + k] \in tokens}
<1>1. T \in SUBSET Nat /\ Len(s) \in Nat
  OBVIOUS
<1>2. Len(s) - i + 1 \in T
  BY <1>1
<1>3. Min(T) \in T /\ \A k \in T : Min(T) <= k
  BY <1>1, <1>2, LeastPosition
<1>4. PICK r : r = Min(T)
  OBVIOUS
<1>5. r \in 0 .. (Len(s) - i + 1) /\ (i + r > Len(s) \/ s[i + r] \in tokens)
  BY <1>3, <1>4
<1>6. ASSUME NEW j \in i .. (i + r - 1) PROVE s[j] \notin tokens
  <2> SUFFICES ASSUME s[j] \in tokens PROVE FALSE
    OBVIOUS
  <2>1. j - i \in 0 .. (Len(s) - i + 1) /\ i + (j - i) = j
    BY <1>1, <1>5
  <2>2. j - i \in T
    BY <2>1
  <2>3. r <= j - i
    BY <1>3, <1>4, <2>2
  <2> QED
    BY <1>1, <1>5, <2>3
<1>7. Ends(s, i, tokens, i + r)
  <2>1. i + r \in i .. (Len(s) + 1)
    BY <1>1, <1>5
  <2> QED
    BY <1>5, <1>6, <2>1 DEF Ends
<1>8. Run(s, i, tokens) = r
  BY <1>4 DEF Run
<1> QED
  BY <1>5, <1>7, <1>8

\* ... and so does what the reference looks for.
LEMMA FirstEnds ==
  ASSUME NEW s \in Seq(STRING), NEW tokens
  PROVE  Ends(s, 1, tokens, First(s, tokens))
<1> DEFINE T == {i \in 1 .. (Len(s) + 1) : i > Len(s) \/ s[i] \in tokens}
<1>1. T \in SUBSET Nat /\ Len(s) \in Nat
  OBVIOUS
<1>2. Len(s) + 1 \in T
  BY <1>1
<1>3. Min(T) \in T /\ \A k \in T : Min(T) <= k
  BY <1>1, <1>2, LeastPosition
<1>4. PICK r : r = Min(T)
  OBVIOUS
<1>5. r \in 1 .. (Len(s) + 1) /\ (r > Len(s) \/ s[r] \in tokens)
  BY <1>3, <1>4
<1>6. ASSUME NEW j \in 1 .. (r - 1) PROVE s[j] \notin tokens
  <2> SUFFICES ASSUME s[j] \in tokens PROVE FALSE
    OBVIOUS
  <2>1. j \in T
    BY <1>1, <1>5
  <2> QED
    BY <1>1, <1>3, <1>4, <1>5, <2>1
<1> QED
  BY <1>1, <1>4, <1>5, <1>6 DEF First, Ends

\* A part of a part of a sequence is a part of it.
LEMMA PartOfPart ==
  ASSUME NEW s \in Seq(STRING), NEW i \in 1 .. (Len(s) + 1), NEW j \in (i - 1) .. Len(s),
         NEW m \in 1 .. (j - i + 2), NEW k \in (m - 1) .. (j - i + 1)
  PROVE  SubSeq(SubSeq(s, i, j), m, k) = SubSeq(s, i + m - 1, i + k - 1)
<1>1. i \in Int /\ j \in Int /\ m \in Int /\ k \in Int /\ Len(s) \in Nat
  OBVIOUS
<1>2. CASE k < m
  BY <1>1, <1>2, SubSeqEmpty
<1>3. CASE k >= m
  <2>1. /\ i \in 1 .. Len(s) /\ j \in 1 .. Len(s)
        /\ m \in 1 .. (j - i + 1) /\ k \in 1 .. (j - i + 1)
    BY <1>1, <1>3
  <2> QED
    BY <2>1, SubSeqOfSubSeq
<1> QED
  BY <1>1, <1>2, <1>3

\* The parts of a sequence and their lengths.
LEMMA Parts ==
  ASSUME NEW s \in Seq(STRING), NEW m \in 1 .. (Len(s) + 1), NEW k \in (m - 1) .. Len(s)
  PROVE  /\ SubSeq(s, m, k) \in Seq(STRING) /\ Len(SubSeq(s, m, k)) = k - m + 1
         /\ \A i \in 1 .. (k - m + 1) : SubSeq(s, m, k)[i] = s[m + i - 1]
         /\ SubSeq(s, m, k) = <<>> <=> k = m - 1
<1>1. m \in Int /\ k \in Int /\ \A i \in m .. k : s[i] \in STRING
  OBVIOUS
<1>2. /\ SubSeq(s, m, k) \in Seq(STRING)
      /\ Len(SubSeq(s, m, k)) = IF m <= k THEN k - m + 1 ELSE 0
      /\ \A i \in 1 .. (k - m + 1) : SubSeq(s, m, k)[i] = s[m + i - 1]
  BY <1>1, SubSeqProperties
<1>3. SubSeq(s, m, k) = <<>> <=> Len(SubSeq(s, m, k)) = 0
  <2>1. PICK t \in Seq(STRING) : t = SubSeq(s, m, k)
    BY <1>2
  <2>2. t = <<>> <=> Len(t) = 0
    BY EmptySeq
  <2> QED
    BY <2>1, <2>2
<1> QED
  BY <1>1, <1>2, <1>3

\* The tokens that the expression looks for are not blank.
LEMMA BlankDiffers == Blank \notin {"/", ":", "?", "#"}
BY Zenon DEF Blank

\* The ends that the expression and the reference find in s: of the authority t, of
\* the host in either (h, c), and of the port from p on.
AuthorityEnds(s, e, h, p, a, t, c) ==
  /\ \A i \in 1 .. Len(s) : s[i] # Blank
  /\ Ends(s, 1, {"/", "?", "#"}, e) /\ (e > Len(s) \/ s[e] = "/")
  /\ Ends(s, 1, {"/", Blank, ":"}, h) /\ p = h + Optional(s, h, ":")
  /\ p \in 1 .. (Len(s) + 1) => Ends(s, p, {"/", Blank}, a)
  /\ t = SubSeq(s, 1, e - 1) /\ Ends(t, 1, {":"}, c)

\* The expression and the reference find the same host and the same port.
LEMMA AuthoritiesAgree ==
  ASSUME NEW s \in Seq(STRING), NEW e, NEW h, NEW p, NEW a, NEW t, NEW c,
         AuthorityEnds(s, e, h, p, a, t, c)
  PROVE  /\ e \in 1 .. (Len(s) + 1) /\ h \in 1 .. e /\ p \in h .. e /\ a = e /\ c = h
         /\ Len(t) = e - 1
         /\ SubSeq(t, 1, c - 1) = SubSeq(s, 1, h - 1)
         /\ c >= Len(t) <=> SubSeq(s, p, a - 1) = <<>>
         /\ c >= Len(t) \/ SubSeq(t, c + 1, Len(t)) = SubSeq(s, p, a - 1)
<1> USE DEF AuthorityEnds
<1>0. Len(s) \in Nat /\ Blank \notin {"/", ":", "?", "#"}
  BY BlankDiffers
<1>1. e \in 1 .. (Len(s) + 1) /\ h \in 1 .. (Len(s) + 1)
  BY DEF Ends
<1>2. h <= e
  <2> SUFFICES ASSUME e < h PROVE FALSE
    BY <1>1
  <2>1. s[e] \notin {"/", Blank, ":"} /\ e <= Len(s)
    BY <1>0, <1>1 DEF Ends
  <2> QED
    BY <1>1, <2>1
<1>3. /\ p = IF h < e THEN h + 1 ELSE h
      /\ h < e => s[h] = ":"
  <2>1. CASE h < e
    <3>1. h <= Len(s) /\ s[h] \in {"/", Blank, ":"} /\ s[h] \notin {"/", "?", "#"}
      BY <1>0, <1>1, <2>1 DEF Ends
    <3>2. s[h] = ":"
      BY <1>0, <1>1, <3>1
    <3> QED
      BY <2>1, <3>1, <3>2 DEF Optional
  <2>2. CASE h = e
    <3>1. ~(h <= Len(s) /\ s[h] = ":")
      BY <1>0, <1>1, <2>2
    <3> QED
      BY <1>1, <2>2, <3>1 DEF Optional
  <2> QED
    BY <1>1, <1>2, <2>1, <2>2
<1>4. p \in h .. e /\ p \in 1 .. (Len(s) + 1)
  BY <1>0, <1>1, <1>2, <1>3
<1>5. a = e
  <2>1. Ends(s, p, {"/", Blank}, e)
    <3>1. \A j \in p .. (e - 1) : j \in 1 .. (e - 1) /\ j \in 1 .. Len(s)
      BY <1>0, <1>1, <1>4
    <3>2. \A j \in p .. (e - 1) : s[j] \notin {"/", Blank}
      BY <3>1 DEF Ends
    <3> QED
      BY <1>0, <1>1, <1>4, <3>2 DEF Ends
  <2> QED
    BY <1>4, <2>1, EndsOnce
<1>6. /\ t \in Seq(STRING) /\ Len(t) = e - 1
      /\ \A i \in 1 .. (e - 1) : t[i] = s[i]
  <2>1. e - 1 \in (1 - 1) .. Len(s) /\ 1 \in 1 .. (Len(s) + 1)
    BY <1>0, <1>1
  <2>2. /\ t \in Seq(STRING) /\ Len(t) = (e - 1) - 1 + 1
        /\ \A i \in 1 .. ((e - 1) - 1 + 1) : t[i] = s[1 + i - 1]
    BY <2>1, Parts
  <2> QED
    BY <1>1, <2>2
<1>7. c = h
  <2>1. Ends(t, 1, {":"}, h)
    <3>1. \A j \in 1 .. (h - 1) : j \in 1 .. (e - 1) /\ t[j] = s[j] /\ s[j] \notin {"/", Blank, ":"}
      BY <1>1, <1>2, <1>6 DEF Ends
    <3>2. h \in 1 .. (Len(t) + 1) /\ (h <= Len(t) => t[h] = ":")
      BY <1>1, <1>2, <1>3, <1>6
    <3> QED
      BY <3>1, <3>2 DEF Ends
  <2>2. Ends(t, 1, {":"}, c) /\ 1 \in 1 .. (Len(t) + 1)
    BY <1>1, <1>6
  <2> QED
    BY <1>6, <2>1, <2>2, EndsOnce
<1>8. SubSeq(t, 1, c - 1) = SubSeq(s, 1, h - 1)
  <2>1. SubSeq(SubSeq(s, 1, e - 1), 1, h - 1) = SubSeq(s, 1 + 1 - 1, 1 + (h - 1) - 1)
    <3>1. /\ 1 \in 1 .. (Len(s) + 1) /\ e - 1 \in (1 - 1) .. Len(s)
          /\ 1 \in 1 .. ((e - 1) - 1 + 2) /\ h - 1 \in (1 - 1) .. ((e - 1) - 1 + 1)
      BY <1>0, <1>1, <1>2
    <3> QED
      BY <3>1, PartOfPart
  <2>2. 1 + 1 - 1 = 1 /\ 1 + (h - 1) - 1 = h - 1
    BY <1>1
  <2> QED
    BY <1>7, <2>1, <2>2
<1>9. c >= e - 1 <=> SubSeq(s, p, a - 1) = <<>>
  <2>1. SubSeq(s, p, e - 1) = <<>> <=> e - 1 = p - 1
    <3>1. p \in 1 .. (Len(s) + 1) /\ e - 1 \in (p - 1) .. Len(s)
      BY <1>0, <1>1, <1>4
    <3> QED
      BY <3>1, Parts
  <2>2. c >= e - 1 <=> e - 1 = p - 1
    BY <1>1, <1>2, <1>3, <1>7
  <2> QED
    BY <1>5, <2>1, <2>2
<1>10. c < e - 1 => SubSeq(t, c + 1, e - 1) = SubSeq(s, p, a - 1)
  <2> SUFFICES ASSUME c < e - 1 PROVE SubSeq(t, c + 1, e - 1) = SubSeq(s, p, a - 1)
    OBVIOUS
  <2>1. SubSeq(SubSeq(s, 1, e - 1), p, e - 1) = SubSeq(s, 1 + p - 1, 1 + (e - 1) - 1)
    <3>1. /\ 1 \in 1 .. (Len(s) + 1) /\ e - 1 \in (1 - 1) .. Len(s)
          /\ p \in 1 .. ((e - 1) - 1 + 2) /\ e - 1 \in (p - 1) .. ((e - 1) - 1 + 1)
      BY <1>0, <1>1, <1>4
    <3> QED
      BY <3>1, PartOfPart
  <2>2. p = c + 1 /\ 1 + p - 1 = p /\ 1 + (e - 1) - 1 = a - 1
    BY <1>1, <1>3, <1>4, <1>5, <1>7
  <2> QED
    BY <2>1, <2>2
<1> HIDE DEF AuthorityEnds
<1>11. h \in 1 .. e /\ p \in h .. e
  BY <1>1, <1>2, <1>4
<1>12. /\ c >= Len(t) <=> SubSeq(s, p, a - 1) = <<>>
       /\ c >= Len(t) \/ SubSeq(t, c + 1, Len(t)) = SubSeq(s, p, a - 1)
  <2>1. c \in Nat /\ e - 1 \in Nat
    BY <1>1, <1>7, <1>11
  <2>2. c < e - 1 \/ c >= e - 1
    BY <2>1
  <2> QED
    BY <1>6, <1>9, <1>10, <2>2
<1> QED
  BY <1>1, <1>5, <1>6, <1>7, <1>8, <1>11, <1>12

\* What Target() leaves of a part: not the delimiter it only consists of at its end.
BareOf(u, d) ==
  IF u # <<>> /\ u[Len(u)] = d /\ First(u, {d}) = Len(u) THEN SubSeq(u, 1, Len(u) - 1) ELSE u

\* Target(), of what follows the authority.
TargetOf(t) ==
  LET h     == First(t, {"#"})
      front == BareOf(SubSeq(t, 1, h - 1), "?")
      back  == IF h < Len(t) THEN SubSeq(t, h, Len(t)) ELSE <<>>
  IN  IF front = <<>> THEN <<"/">> \o back ELSE front \o back

\* Target() looks only at what follows the authority.
LEMMA TargetUnfolds ==
  ASSUME NEW s
  PROVE  Target(s) = TargetOf(SubSeq(s, First(s, {"/", "?", "#"}), Len(s)))
BY DEF Target, TargetOf, BareOf

\* Sequences of one token, and what a mark is put before.
LEMMA OneToken ==
  ASSUME NEW S, NEW x \in S
  PROVE  <<x>> \in Seq(S)
OBVIOUS

LEMMA Marked ==
  ASSUME NEW S, NEW s \in Seq(S), NEW x, NEW P \in BOOLEAN, P \/ x \in S
  PROVE  (IF P THEN <<>> ELSE <<x>> \o s) \in Seq(S)
BY OneToken, EmptySeq, ConcatProperties

\* The expression and the reference find the same target.
LEMMA TargetsAgree ==
  ASSUME NEW s \in Seq(STRING), \A i \in 1 .. Len(s) : s[i] # Blank,
         NEW e, Ends(s, 1, {"/", "?", "#"}, e), e > Len(s) \/ s[e] = "/",
         NEW q, Ends(s, e, {Blank, "#", "?"}, q), NEW y, y = q + Optional(s, q, "?"),
         NEW f, y \in 1 .. (Len(s) + 1) => Ends(s, y, {Blank, "#"}, f),
         NEW g, g = f + Optional(s, f, "#")
  PROVE  BuildTarget(SubSeq(s, e, q - 1), SubSeq(s, y, f - 1), SubSeq(s, g, Len(s))) = Target(s)
<1>0. Len(s) \in Nat /\ Blank \notin {"/", ":", "?", "#"}
  BY BlankDiffers
<1>n. PICK N \in Nat : N = Len(s)
  BY <1>0
<1>1. e \in 1 .. (Len(s) + 1) /\ e = First(s, {"/", "?", "#"})
  <2>1. Ends(s, 1, {"/", "?", "#"}, First(s, {"/", "?", "#"})) /\ 1 \in 1 .. (Len(s) + 1)
    BY <1>0, FirstEnds
  <2> QED
    BY <2>1, EndsOnce DEF Ends
<1>2. /\ q \in e .. (Len(s) + 1) /\ f \in y .. (Len(s) + 1)
      /\ \/ y = q /\ f = q
         \/ y = q + 1 /\ q <= Len(s) /\ s[q] = "?"
      /\ \A j \in e .. (q - 1) : s[j] \notin {"#", "?"}
      /\ Ends(s, e, {"#"}, f)
  <2>1. /\ q \in e .. (Len(s) + 1)
        /\ \A j \in e .. (q - 1) : s[j] \notin {"#", "?"}
        /\ q <= Len(s) => s[q] \in {"#", "?"}
    BY <1>0 DEF Ends
  <2>2. CASE q <= Len(s) /\ s[q] = "?"
    <3>1. y = q + 1 /\ y \in 1 .. (Len(s) + 1)
      BY <1>0, <1>1, <2>1, <2>2 DEF Optional
    <3>2. Ends(s, y, {Blank, "#"}, f)
      BY <3>1
    <3>3. f \in y .. (Len(s) + 1) /\ f \in e .. (Len(s) + 1)
      BY <1>0, <2>1, <3>1, <3>2 DEF Ends
    <3>4. f <= Len(s) => s[f] = "#"
      BY <1>0, <2>1, <3>1, <3>2, <3>3 DEF Ends
    <3>5. ASSUME NEW j \in e .. (f - 1) PROVE s[j] # "#"
      <4>1. j < q \/ j = q \/ j \in y .. (f - 1)
        BY <2>1, <3>1, <3>3
      <4> QED
        BY <2>1, <2>2, <3>2, <4>1 DEF Ends
    <3> QED
      BY <2>1, <2>2, <3>1, <3>3, <3>4, <3>5 DEF Ends
  <2>3. CASE ~(q <= Len(s) /\ s[q] = "?")
    <3>1. y = q /\ y \in 1 .. (Len(s) + 1)
      BY <1>0, <1>1, <2>1, <2>3 DEF Optional
    <3>2. q <= Len(s) => s[q] = "#"
      BY <2>1, <2>3
    <3>3. Ends(s, q, {Blank, "#"}, q)
      BY <1>0, <2>1, <3>2 DEF Ends
    <3>4. f = q
      BY <3>1, <3>3, EndsOnce
    <3>5. Ends(s, e, {"#"}, q)
      BY <2>1, <3>2 DEF Ends
    <3> QED
      BY <1>0, <2>1, <3>1, <3>4, <3>5
  <2> QED
    BY <2>2, <2>3
<1>3. y \in q .. (Len(s) + 1) /\ f \in e .. (Len(s) + 1)
  BY <1>n, <1>0, <1>1, <1>2
<1>4. g = IF f <= Len(s) THEN f + 1 ELSE f
  <2>1. f <= Len(s) => s[f] = "#"
    BY <1>2 DEF Ends
  <2> QED
    BY <1>3, <2>1 DEF Optional
<1>p. /\ e \in Nat /\ q \in Nat /\ y \in Nat /\ f \in Nat /\ g \in Nat
      /\ 1 <= e /\ e <= q /\ q <= y /\ y <= f /\ f <= N + 1
      /\ g = IF f <= N THEN f + 1 ELSE f
  BY <1>1, <1>2, <1>3, <1>4, <1>n
<1> DEFINE t == SubSeq(s, e, N)
           h == First(t, {"#"})
           u == SubSeq(t, 1, h - 1)
           path == SubSeq(s, e, q - 1)
           query == SubSeq(s, y, f - 1)
           fragment == SubSeq(s, g, N)
           front == BareOf(u, "?")
           back == IF h < Len(t) THEN SubSeq(t, h, Len(t)) ELSE <<>>
<1>5. Target(s) = IF front = <<>> THEN <<"/">> \o back ELSE front \o back
  <2>1. Target(s) = TargetOf(t)
    <3>1. SubSeq(s, First(s, {"/", "?", "#"}), Len(s)) = t
      BY <1>1, <1>n
    <3> HIDE DEF t
    <3> QED
      BY <3>1, TargetUnfolds
  <2> HIDE DEF t
  <2> QED
    BY <2>1 DEF TargetOf
<1>6. /\ t \in Seq(STRING) /\ Len(t) = N - e + 1
      /\ \A j \in 1 .. (N - e + 1) : t[j] = s[e + j - 1]
  <2>1. N \in (e - 1) .. N
    BY <1>p
  <2> QED
    BY <1>1, <1>n, <2>1, Parts
<1>7. h = f - e + 1
  <2> HIDE DEF t
  <2>1. Ends(t, 1, {"#"}, h) /\ 1 \in 1 .. (Len(t) + 1)
    BY <1>n, <1>0, <1>1, <1>6, FirstEnds
  <2>2. PICK k : k = f - e + 1
    OBVIOUS
  <2>3. k \in 1 .. (Len(t) + 1)
    BY <1>6, <1>p, <2>2
  <2>4. k <= Len(t) => t[k] = "#"
    <3> SUFFICES ASSUME k <= Len(t) PROVE t[k] = "#"
      OBVIOUS
    <3>1. k \in 1 .. (N - e + 1) /\ e + k - 1 = f /\ f <= N
      BY <1>6, <1>p, <2>2
    <3> QED
      BY <1>2, <1>6, <1>n, <3>1 DEF Ends
  <2>5. ASSUME NEW j \in 1 .. (k - 1) PROVE t[j] # "#"
    <3>1. j \in 1 .. (N - e + 1) /\ e + j - 1 \in e .. (f - 1)
      BY <1>p, <2>2
    <3> QED
      BY <1>2, <1>6, <1>n, <3>1 DEF Ends
  <2>6. Ends(t, 1, {"#"}, k)
    BY <2>3, <2>4, <2>5 DEF Ends
  <2> HIDE DEF h
  <2>7. h = k
    BY <1>6, <2>1, <2>6, EndsOnce
  <2> QED
    BY <2>2, <2>7
<1>8. u = SubSeq(s, e, f - 1)
  <2>1. SubSeq(SubSeq(s, e, N), 1, f - e) = SubSeq(s, e + 1 - 1, e + (f - e) - 1)
    <3>1. /\ N \in (e - 1) .. N /\ 1 \in 1 .. (N - e + 2)
          /\ f - e \in (1 - 1) .. (N - e + 1)
      BY <1>n, <1>0, <1>1, <1>3
    <3> QED
      BY <1>1, <1>n, <3>1, PartOfPart
  <2>2. h - 1 = f - e /\ e + 1 - 1 = e /\ e + (f - e) - 1 = f - 1
    BY <1>1, <1>3, <1>7
  <2> HIDE DEF h
  <2> QED
    BY <2>1, <2>2
<1>9. /\ u \in Seq(STRING) /\ Len(u) = f - e
      /\ \A j \in 1 .. (f - e) : u[j] = s[e + j - 1]
      /\ u = <<>> <=> f = e
  <2>1. f - 1 \in (e - 1) .. N /\ (f - 1) - e + 1 = f - e /\ (f - 1 = e - 1 <=> f = e)
    BY <1>p
  <2>2. /\ SubSeq(s, e, f - 1) \in Seq(STRING) /\ Len(SubSeq(s, e, f - 1)) = (f - 1) - e + 1
        /\ \A j \in 1 .. ((f - 1) - e + 1) : SubSeq(s, e, f - 1)[j] = s[e + j - 1]
        /\ SubSeq(s, e, f - 1) = <<>> <=> f - 1 = e - 1
    BY <1>1, <1>n, <2>1, Parts
  <2> HIDE DEF u
  <2> QED
    BY <1>8, <2>1, <2>2
<1>10. /\ path \in Seq(STRING) /\ (path = <<>> <=> q = e)
       /\ query \in Seq(STRING) /\ (query = <<>> <=> f = y)
       /\ fragment \in Seq(STRING) /\ (fragment = <<>> <=> g = N + 1)
  <2>1. /\ q - 1 \in (e - 1) .. N /\ f - 1 \in (y - 1) .. N /\ N \in (g - 1) .. N
        /\ y \in 1 .. (N + 1) /\ g \in 1 .. (N + 1)
        /\ (q - 1 = e - 1 <=> q = e) /\ (f - 1 = y - 1 <=> f = y) /\ (N = g - 1 <=> g = N + 1)
    BY <1>p
  <2> QED
    BY <1>1, <1>n, <2>1, Parts
<1>11. back = IF fragment = <<>> THEN <<>> ELSE <<"#">> \o fragment
  <2>1. h < Len(t) <=> fragment # <<>>
    <3>1. Len(t) = N - e + 1
      BY <1>6
    <3> HIDE DEF t, h, fragment
    <3> QED
      BY <1>p, <1>7, <1>10, <3>1
  <2>2. ASSUME h < Len(t) PROVE SubSeq(t, h, Len(t)) = <<"#">> \o fragment
    <3>1. f < N /\ s[f] = "#" /\ g = f + 1
      <4>1. Len(t) = N - e + 1
        BY <1>6
      <4>2. f < N
        <5> HIDE DEF t, h
        <5> QED
          BY <1>p, <1>7, <2>2, <4>1
      <4> QED
        BY <1>2, <1>n, <1>p, <4>2 DEF Ends
    <3>2. SubSeq(SubSeq(s, e, N), f - e + 1, N - e + 1) = SubSeq(s, e + (f - e + 1) - 1, e + (N - e + 1) - 1)
      <4>1. /\ N \in (e - 1) .. N /\ f - e + 1 \in 1 .. (N - e + 2)
            /\ N - e + 1 \in ((f - e + 1) - 1) .. (N - e + 1)
        BY <1>n, <1>0, <1>1, <1>3, <3>1
      <4> QED
        BY <1>1, <1>n, <4>1, PartOfPart
    <3>3. e + (f - e + 1) - 1 = f /\ e + (N - e + 1) - 1 = N
      BY <1>n, <1>0, <1>1, <1>3
    <3>4. SubSeq(s, f, N) = <<s[f]>> \o SubSeq(s, f + 1, N)
      <4>1. f \in 1 .. N /\ N \in f .. N
        BY <1>n, <1>0, <1>1, <1>3, <3>1
      <4> QED
        BY <4>1, SubSeqRecursiveFirst
    <3>5. SubSeq(t, h, Len(t)) = SubSeq(s, f, N)
      BY <1>6, <1>7, <3>2, <3>3
    <3> QED
      BY <3>1, <3>4, <3>5
  <2> QED
    BY <2>1, <2>2
<1> HIDE DEF t, h, u, path, query, fragment, back
<1>12. ASSUME e <= N PROVE front = path \o (IF query = <<>> THEN <<>> ELSE <<"?">> \o query) /\ path # <<>>
  <2>1. path # <<>>
    <3>1. q # e
      BY <1>n, <1>0, <1>1, <1>12 DEF Ends
    <3> QED
      BY <1>10, <3>1
  <2>2. CASE y = q /\ f = q
    <3>1. query = <<>> /\ u = path /\ f > e
      BY <1>1, <1>2, <1>8, <1>10, <2>1, <2>2 DEF path, query
    <3>2. f - e \in 1 .. (f - e) /\ e + (f - e) - 1 \in e .. (q - 1)
      BY <1>1, <1>3, <2>2, <3>1
    <3>3. u[Len(u)] # "?"
      BY <1>2, <1>9, <3>2
    <3>4. front = u
      BY <3>3 DEF BareOf
    <3>5. path \o <<>> = path
      BY <1>10, ConcatEmptySeq
    <3> QED
      BY <2>1, <3>1, <3>4, <3>5
  <2>3. CASE y = q + 1 /\ q <= Len(s) /\ s[q] = "?"
    <3>1. f \in (q + 1) .. (N + 1) /\ e <= q /\ q \in 1 .. N
      BY <1>n, <1>0, <1>1, <1>2, <2>3
    <3>2. First(u, {"?"}) = q - e + 1
      <4>1. PICK k : k = q - e + 1
        OBVIOUS
      <4>2. k \in 1 .. (f - e) /\ e + k - 1 = q
        BY <1>1, <3>1, <4>1
      <4>3. u[k] = "?"
        BY <1>9, <2>3, <4>2
      <4>4. ASSUME NEW j \in 1 .. (k - 1) PROVE u[j] # "?"
        <5>1. j \in 1 .. (f - e) /\ e + j - 1 \in e .. (q - 1)
          BY <1>p, <3>1, <4>1
        <5> QED
          BY <1>2, <1>9, <5>1
      <4>5. k \in 1 .. (Len(u) + 1)
        BY <1>9, <4>2
      <4>6. Ends(u, 1, {"?"}, k)
        BY <4>3, <4>4, <4>5 DEF Ends
      <4>7. Ends(u, 1, {"?"}, First(u, {"?"})) /\ 1 \in 1 .. (Len(u) + 1)
        BY <1>9, <4>5, FirstEnds
      <4> QED
        BY <1>9, <4>1, <4>6, <4>7, EndsOnce
    <3>3. CASE f = y
      <4>1. query = <<>> /\ f = q + 1
        BY <1>10, <2>3, <3>3
      <4>2. Len(u) = q - e + 1 /\ u # <<>>
        BY <1>1, <1>9, <3>1, <4>1
      <4>3. u[Len(u)] = "?"
        <5>1. q - e + 1 \in 1 .. (f - e) /\ e + (q - e + 1) - 1 = q
          BY <1>1, <3>1, <4>1
        <5> QED
          BY <1>9, <2>3, <4>2, <5>1
      <4>4. front = SubSeq(u, 1, Len(u) - 1)
        BY <3>2, <4>2, <4>3 DEF BareOf
      <4>5. SubSeq(SubSeq(s, e, f - 1), 1, q - e) = SubSeq(s, e + 1 - 1, e + (q - e) - 1)
        <5>1. /\ f - 1 \in (e - 1) .. Len(s) /\ 1 \in 1 .. ((f - 1) - e + 2)
              /\ q - e \in (1 - 1) .. ((f - 1) - e + 1)
          BY <1>n, <1>0, <1>1, <3>1
        <5> QED
          BY <1>1, <5>1, PartOfPart
      <4>6. Len(u) - 1 = q - e /\ e + 1 - 1 = e /\ e + (q - e) - 1 = q - 1
        BY <1>1, <3>1, <4>2
      <4>7. front = path
        BY <1>8, <4>4, <4>5, <4>6 DEF path
      <4>8. path \o <<>> = path
        BY <1>10, ConcatEmptySeq
      <4> QED
        BY <2>1, <4>1, <4>7, <4>8
    <3>4. CASE f # y
      <4>1. query # <<>> /\ f > q + 1
        BY <1>10, <2>3, <3>1, <3>4
      <4>2. First(u, {"?"}) # Len(u)
        BY <1>1, <1>9, <3>1, <3>2, <4>1
      <4>3. front = u
        BY <4>2 DEF BareOf
      <4>4. SubSeq(s, e, q - 1) \o SubSeq(s, (q - 1) + 1, f - 1) = SubSeq(s, e, f - 1)
        <5>1. e \in 1 .. (Len(s) + 1) /\ q - 1 \in (e - 1) .. Len(s) /\ f - 1 \in (q - 1) .. Len(s)
          BY <1>n, <1>0, <1>1, <3>1
        <5> QED
          BY <5>1, ConcatAdjacentSubSeq
      <4>5. SubSeq(s, q, f - 1) = <<s[q]>> \o SubSeq(s, q + 1, f - 1)
        <5>1. q \in 1 .. Len(s) /\ f - 1 \in q .. Len(s)
          BY <1>n, <1>0, <3>1, <4>1
        <5> QED
          BY <5>1, SubSeqRecursiveFirst
      <4>6. (q - 1) + 1 = q
        BY <3>1
      <4>7. SubSeq(s, q, f - 1) = <<"?">> \o query
        BY <2>3, <4>5 DEF query
      <4>8. u = path \o (<<"?">> \o query)
        BY <1>8, <4>4, <4>6, <4>7 DEF path
      <4> QED
        BY <2>1, <4>1, <4>3, <4>8
    <3> QED
      BY <3>3, <3>4
  <2> QED
    BY <1>2, <2>2, <2>3
<1>13. ASSUME e > N PROVE front = <<>> /\ path = <<>> /\ query = <<>> /\ fragment = <<>>
  <2>1. e = N + 1 /\ q = e /\ f = e /\ y = e /\ g = e
    BY <1>n, <1>0, <1>1, <1>2, <1>3, <1>4, <1>13
  <2> QED
    BY <1>9, <1>10, <2>1 DEF BareOf
<1> HIDE DEF front
<1>14. BuildTarget(path, query, fragment) = Target(s)
  <2> DEFINE Q == IF query = <<>> THEN <<>> ELSE <<"?">> \o query
  <2>0. Q \in Seq(STRING) /\ back \in Seq(STRING)
    <3>1. /\ query = <<>> \/ "?" \in STRING
          /\ fragment = <<>> \/ "#" \in STRING
      <4>1. query # <<>> => q \in 1 .. Len(s) /\ s[q] = "?"
        BY <1>2, <1>10, <1>n, <1>p
      <4>2. fragment # <<>> => f \in 1 .. Len(s) /\ s[f] = "#"
        BY <1>2, <1>10, <1>n, <1>p DEF Ends
      <4> QED
        BY <4>1, <4>2, ElementOfSeq
    <3>2. (query = <<>>) \in BOOLEAN /\ (fragment = <<>>) \in BOOLEAN
      OBVIOUS
    <3>3. (IF query = <<>> THEN <<>> ELSE <<"?">> \o query) \in Seq(STRING)
      BY <1>10, <3>1, <3>2, Marked
    <3>4. (IF fragment = <<>> THEN <<>> ELSE <<"#">> \o fragment) \in Seq(STRING)
      BY <1>10, <3>1, <3>2, Marked
    <3> QED
      BY <1>11, <3>3, <3>4
  <2>1. CASE e <= N
    <3>1. front = path \o Q /\ path # <<>>
      BY <1>12, <2>1
    <3>2. front # <<>>
      BY <1>10, <2>0, <3>1, ConcatEqualIffEmpty
    <3> HIDE DEF Q
    <3>3. Target(s) = (path \o Q) \o back
      BY <1>5, <3>1, <3>2
    <3> QED
      BY <1>11, <3>1, <3>3 DEF BuildTarget, Q
  <2>2. CASE e > N
    <3>1. front = <<>> /\ path = <<>> /\ query = <<>> /\ fragment = <<>> /\ back = <<>>
      BY <1>11, <1>13, <2>2
    <3>2. <<"/">> \o <<>> = <<"/">>
      BY ConcatEmptySeq
    <3> QED
      BY <1>5, <3>1, <3>2 DEF BuildTarget
  <2> QED
    BY <1>n, <1>0, <1>1, <2>1, <2>2
<1> QED
  BY <1>14, <1>n DEF path, query, fragment

\* What a greedy part takes ends before r.
LEMMA TakenUpTo ==
  ASSUME NEW s \in Seq(STRING), NEW i \in 1 .. (Len(s) + 1), NEW tokens,
         NEW r, r = i + Run(s, i, tokens)
  PROVE  Taken(s, i, tokens) = SubSeq(s, i, r - 1)
<1>1. i \in Nat /\ Run(s, i, tokens) \in Nat
  BY GreedyEnds
<1>2. i + Run(s, i, tokens) - 1 = r - 1
  BY <1>1
<1> QED
  BY <1>2 DEF Taken

\* decode_url() and the reference agree on any tokens, provided that the
\* url's authority ends at a slash or at its end.
LEMMA UrlDecoded ==
  ASSUME NEW u, u.rest \in Seq(STRING), PlainAuthority(u)
  PROVE  DecodeUrl(u) = Reference(u)
<1> DEFINE s == u.rest
           e == First(s, {"/", "?", "#"})
           h == 1 + Run(s, 1, {"/", Blank, ":"})
           p == h + Optional(s, h, ":")
           a == p + Run(s, p, {"/", Blank})
           q == a + Run(s, a, {Blank, "#", "?"})
           y == q + Optional(s, q, "?")
           f == y + Run(s, y, {Blank, "#"})
           g == f + Optional(s, f, "#")
           t == SubSeq(s, 1, e - 1)
           c == First(t, {":"})
<1>0. Len(s) \in Nat /\ 1 \in 1 .. (Len(s) + 1) /\ s \in Seq(STRING)
  OBVIOUS
<1>1. Ends(s, 1, {"/", "?", "#"}, e) /\ (e > Len(s) \/ s[e] = "/")
  BY <1>0, FirstEnds DEF PlainAuthority
<1>2. Ends(s, 1, {"/", Blank, ":"}, h)
  BY <1>0, GreedyEnds
<1>3. p \in 1 .. (Len(s) + 1) => Ends(s, p, {"/", Blank}, a)
  BY <1>0, GreedyEnds
<1>4. t \in Seq(STRING) /\ Ends(t, 1, {":"}, c)
  <2>1. e - 1 \in (1 - 1) .. Len(s)
    BY <1>0, <1>1 DEF Ends
  <2>2. t \in Seq(STRING)
    BY <1>0, <2>1, Parts
  <2> HIDE DEF t
  <2> QED
    BY <2>2, FirstEnds
<1>5. /\ Crack(s).host = Taken(s, 1, {"/", Blank, ":"})
      /\ Crack(s).port = Taken(s, p, {"/", Blank})
      /\ Crack(s).path = Taken(s, a, {Blank, "#", "?"})
      /\ Crack(s).query = Taken(s, y, {Blank, "#"})
      /\ Crack(s).fragment = Taken(s, g, {Blank})
  BY DEF Crack
<1>6. Reference(u) =
        IF \/ u.scheme \notin {"ws", "wss", "http", "https"} \/ c = 1
           \/ \E i \in DOMAIN s : s[i] = Blank
          THEN Invalid
          ELSE [hostname  |-> SubSeq(t, 1, c - 1),
                service   |-> IF c >= Len(t)
                                THEN <<IF u.scheme \in {"ws", "http"} THEN "http" ELSE "https">>
                                ELSE SubSeq(t, c + 1, Len(t)),
                path_etc  |-> Target(s),
                transport |-> IF u.scheme \in {"wss", "https"} THEN "tls" ELSE "tcp"]
  BY DEF Reference, Authority
<1>d. DecodeUrl(u) =
        IF ~Matches(u) THEN Invalid
        ELSE [hostname  |-> Crack(s).host,
              service   |-> DeducePort(u.scheme, Crack(s).port),
              path_etc  |-> BuildTarget(Crack(s).path, Crack(s).query, Crack(s).fragment),
              transport |-> DeduceTransport(u.scheme)]
  BY DEF DecodeUrl
<1>m. Matches(u) <=> /\ u.scheme \in {"ws", "wss", "http", "https"} /\ Crack(s).host # <<>>
                     /\ \A i \in 1 .. Len(s) : s[i] # Blank
  BY <1>0 DEF Matches
<1> HIDE DEF s, e, h, p, a, q, y, f, g, t, c
<1>7. CASE u.scheme \in {"ws", "wss", "http", "https"} /\ \A i \in 1 .. Len(s) : s[i] # Blank
  <2>1. /\ e \in 1 .. (Len(s) + 1) /\ h \in 1 .. e /\ p \in h .. e /\ a = e /\ c = h
        /\ Len(t) = e - 1
        /\ SubSeq(t, 1, c - 1) = SubSeq(s, 1, h - 1)
        /\ c >= Len(t) <=> SubSeq(s, p, a - 1) = <<>>
        /\ c >= Len(t) \/ SubSeq(t, c + 1, Len(t)) = SubSeq(s, p, a - 1)
    <3>1. \A i \in 1 .. Len(s) : s[i] # Blank
      BY <1>7
    <3>2. p = h + Optional(s, h, ":")
      BY DEF p
    <3>3. t = SubSeq(s, 1, e - 1)
      BY DEF t
    <3>4. AuthorityEnds(s, e, h, p, a, t, c)
      BY <1>1, <1>2, <1>3, <1>4, <3>1, <3>2, <3>3 DEF AuthorityEnds
    <3> QED
      BY <1>0, <3>4, AuthoritiesAgree
  <2>2. /\ Ends(s, e, {Blank, "#", "?"}, q)
        /\ y \in 1 .. (Len(s) + 1) => Ends(s, y, {Blank, "#"}, f)
    BY <1>0, <2>1, GreedyEnds DEF q, f
  <2>3. BuildTarget(SubSeq(s, e, q - 1), SubSeq(s, y, f - 1), SubSeq(s, g, Len(s))) = Target(s)
    BY <1>0, <1>1, <1>7, <2>2, TargetsAgree DEF y, g
  <2>4. /\ q \in 1 .. (Len(s) + 1) /\ y \in 1 .. (Len(s) + 1) /\ g \in 1 .. (Len(s) + 1)
    <3>1. q \in 1 .. (Len(s) + 1)
      BY <1>0, <2>1, <2>2 DEF Ends
    <3>2. y \in 1 .. (Len(s) + 1)
      BY <1>0, <3>1 DEF y, Optional
    <3>3. f \in 1 .. (Len(s) + 1)
      BY <1>0, <2>2, <3>2 DEF Ends
    <3> QED
      BY <1>0, <3>1, <3>2, <3>3 DEF g, Optional
  <2>5. /\ Crack(s).host = SubSeq(s, 1, h - 1) /\ Crack(s).port = SubSeq(s, p, a - 1)
        /\ Crack(s).path = SubSeq(s, a, q - 1) /\ Crack(s).query = SubSeq(s, y, f - 1)
        /\ Crack(s).fragment = SubSeq(s, g, Len(s))
    <3>1. Taken(s, 1, {"/", Blank, ":"}) = SubSeq(s, 1, h - 1)
      BY <1>0, TakenUpTo DEF h
    <3>2. p \in 1 .. (Len(s) + 1) /\ a \in 1 .. (Len(s) + 1)
      BY <1>0, <2>1
    <3>3. Taken(s, p, {"/", Blank}) = SubSeq(s, p, a - 1)
      BY <1>0, <3>2, TakenUpTo DEF a
    <3>4. Taken(s, a, {Blank, "#", "?"}) = SubSeq(s, a, q - 1)
      BY <1>0, <3>2, TakenUpTo DEF q
    <3>5. Taken(s, y, {Blank, "#"}) = SubSeq(s, y, f - 1)
      BY <1>0, <2>4, TakenUpTo DEF f
    <3>6. Taken(s, g, {Blank}) = SubSeq(s, g, Len(s))
      <4>1. PICK k : k = g + Run(s, g, {Blank})
        OBVIOUS
      <4>2. Ends(s, g, {Blank}, k)
        BY <1>0, <2>4, <4>1, GreedyEnds
      <4>3. Ends(s, g, {Blank}, Len(s) + 1)
        BY <1>0, <1>7, <2>4 DEF Ends
      <4>4. k = Len(s) + 1
        BY <1>0, <2>4, <4>2, <4>3, EndsOnce
      <4>5. Taken(s, g, {Blank}) = SubSeq(s, g, k - 1)
        BY <1>0, <2>4, <4>1, TakenUpTo
      <4>6. k - 1 = Len(s)
        BY <1>0, <4>4
      <4> QED
        BY <4>5, <4>6, Zenon
    <3>7. Crack(s).host = SubSeq(s, 1, h - 1) /\ Crack(s).port = SubSeq(s, p, a - 1)
      BY <1>5, <3>1, <3>3
    <3>8. Crack(s).path = SubSeq(s, a, q - 1) /\ Crack(s).query = SubSeq(s, y, f - 1)
      BY <1>5, <3>4, <3>5
    <3>9. Crack(s).fragment = SubSeq(s, g, Len(s))
      BY <1>5, <3>6
    <3> QED
      BY <3>7, <3>8, <3>9
  <2>c. Crack(s).host = <<>> <=> c = 1
    <3>1. h - 1 \in (1 - 1) .. Len(s)
      BY <1>0, <2>1
    <3>2. SubSeq(s, 1, h - 1) = <<>> <=> h - 1 = 1 - 1
      BY <1>0, <3>1, Parts
    <3>3. h - 1 = 1 - 1 <=> c = 1
      BY <2>1
    <3> QED
      BY <2>5, <3>2, <3>3
  <2>6. Matches(u) <=> c # 1
    BY <1>7, <1>m, <2>c
  <2>7. ~(\E i \in DOMAIN s : s[i] = Blank)
    BY <1>0, <1>7
  <2>8. CASE c = 1
    BY <1>6, <1>d, <2>6, <2>8
  <2>9. CASE c # 1
    <3>1. BuildTarget(Crack(s).path, Crack(s).query, Crack(s).fragment) = Target(s)
      BY <2>1, <2>3, <2>5
    <3>2. DeducePort(u.scheme, Crack(s).port) =
            IF c >= Len(t) THEN <<IF u.scheme \in {"ws", "http"} THEN "http" ELSE "https">>
            ELSE SubSeq(t, c + 1, Len(t))
      <4>1. CASE c >= Len(t)
        BY <2>1, <2>5, <4>1 DEF DeducePort
      <4>2. CASE ~(c >= Len(t))
        BY <2>1, <2>5, <4>2 DEF DeducePort
      <4> QED
        BY <2>1, <4>1, <4>2
    <3>3. DeduceTransport(u.scheme) = IF u.scheme \in {"wss", "https"} THEN "tls" ELSE "tcp"
      BY <1>7 DEF DeduceTransport
    <3> QED
      BY <1>6, <1>7, <1>d, <2>1, <2>5, <2>6, <2>7, <2>9, <3>1, <3>2, <3>3
  <2> QED
    BY <2>8, <2>9
<1>8. CASE ~(u.scheme \in {"ws", "wss", "http", "https"} /\ \A i \in 1 .. Len(s) : s[i] # Blank)
  <2>1. ~Matches(u)
    BY <1>8, <1>m
  <2>2. u.scheme \notin {"ws", "wss", "http", "https"} \/ \E i \in DOMAIN s : s[i] = Blank
    BY <1>0, <1>8
  <2> QED
    BY <1>6, <1>d, <2>1, <2>2
<1> QED
  BY <1>7, <1>8

\* The connector dials what its url means if the authority of this ends at a slash or at
\* its end, however long it is (decode_url()).
THEOREM UrlsDecodedAsMeant == Spec => []DecodesAsReference
<1>1. ConnectorInv => DecodesAsReference
  <2> SUFFICES ASSUME ConnectorInv, PlainAuthority(url) PROVE DecodeUrl(url) = Reference(url)
    BY DEF DecodesAsReference
  <2>1. url \in Urls
    BY DEF ConnectorInv, OwnTypes
  <2>2. url.rest \in Seq(STRING)
    BY <2>1, UrlsAssumption
  <2> QED
    BY <2>2, UrlDecoded
<1> QED
  BY <1>1, ConnectorInvariant, PTL
=============================================================================
