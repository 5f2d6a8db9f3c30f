-------------------------- MODULE FtxHandoverProofs --------------------------
(***************************************************************************)
(* Proofs of how a channel is handed from one subscription to the next     *)
(* while the connector, its writer and the server are at work on it: what  *)
(* each request, answer and machine of a channel can be at the same time.  *)
(***************************************************************************)
EXTENDS FtxConnectorProofs

----------------------------------------------------------------------------
(* What is under way for a channel.                                        *)

\* p is a queue of frames to the server, q one from it.
NoRequest(p, c) == \A i \in DOMAIN p : p[i].chan # c

OneRequest(p, c, op) ==
  \E i \in DOMAIN p : /\ p[i].chan = c /\ p[i].op = op
                      /\ \A j \in DOMAIN p : j # i => p[j].chan # c

\* What the server sends of its own accord, and the answer to a wrong request.
Unsolicited == {"data", "restart", "error"}

NoFrame(q, c) == \A i \in DOMAIN q : q[i].chan # c

NoAnswer(q, c) == \A i \in DOMAIN q : q[i].chan = c => q[i].type \in Unsolicited

AnswerFirst(q, c) ==
  \E i \in DOMAIN q :
    /\ q[i].chan = c /\ q[i].type = "subscribed"
    /\ \A j \in DOMAIN q : j # i /\ q[j].chan = c => j > i /\ q[j].type \in Unsolicited

AnswerLast(q, c) ==
  \E i \in DOMAIN q :
    /\ q[i].chan = c /\ q[i].type = "unsubscribed"
    /\ \A j \in DOMAIN q : j # i /\ q[j].chan = c => j < i /\ q[j].type \in Unsolicited

\* A frame behind the others.
LEMMA RequestAppended ==
  ASSUME NEW p \in Seq(SoundFrames), NEW f \in SoundFrames, NEW c
  PROVE  LET r == Append(p, f)
         IN  /\ f.chan # c => /\ NoRequest(p, c) => NoRequest(r, c)
                              /\ \A op : OneRequest(p, c, op) => OneRequest(r, c, op)
             /\ f.chan = c /\ NoRequest(p, c) => OneRequest(r, c, f.op)
<1> DEFINE r == Append(p, f)
<1>1. /\ Len(p) \in Nat /\ DOMAIN p = 1 .. Len(p) /\ DOMAIN r = 1 .. Len(p) + 1
      /\ \A i \in 1 .. Len(p) : r[i] = p[i]
      /\ r[Len(p) + 1] = f
  OBVIOUS
<1> HIDE DEF r
<1>2. f.chan # c /\ NoRequest(p, c) => NoRequest(r, c)
  BY <1>1 DEF NoRequest
<1>3. ASSUME f.chan # c, NEW op, OneRequest(p, c, op) PROVE OneRequest(r, c, op)
  <2>1. PICK i \in DOMAIN p : /\ p[i].chan = c /\ p[i].op = op
                              /\ \A j \in DOMAIN p : j # i => p[j].chan # c
    BY <1>3 DEF OneRequest
  <2>2. /\ i \in DOMAIN r /\ r[i].chan = c /\ r[i].op = op
        /\ \A j \in DOMAIN r : j # i => r[j].chan # c
    BY <1>1, <1>3, <2>1
  <2> QED
    BY <2>2 DEF OneRequest
<1>4. ASSUME f.chan = c, NoRequest(p, c) PROVE OneRequest(r, c, f.op)
  <2>1. /\ Len(p) + 1 \in DOMAIN r /\ r[Len(p) + 1] = f
        /\ \A j \in DOMAIN r : j # Len(p) + 1 => r[j].chan # c
    BY <1>1, <1>4 DEF NoRequest
  <2> QED
    BY <1>4, <2>1 DEF OneRequest
<1> QED
  BY <1>2, <1>3, <1>4 DEF r

\* The first frame goes.
LEMMA RequestTaken ==
  ASSUME NEW p \in Seq(SoundFrames), p # <<>>, NEW c
  PROVE  LET r == Tail(p)
             f == p[1]
         IN  /\ NoRequest(p, c) => NoRequest(r, c) /\ f.chan # c
             /\ f.chan # c => \A op : OneRequest(p, c, op) => OneRequest(r, c, op)
             /\ f.chan = c => \A op : OneRequest(p, c, op) => f.op = op /\ NoRequest(r, c)
<1> DEFINE r == Tail(p)
           f == p[1]
<1>1. /\ Len(p) \in Nat \ {0} /\ DOMAIN p = 1 .. Len(p) /\ DOMAIN r = 1 .. Len(p) - 1
      /\ \A i \in 1 .. Len(p) - 1 : r[i] = p[i + 1]
  OBVIOUS
<1> HIDE DEF r
<1>2. NoRequest(p, c) => NoRequest(r, c) /\ f.chan # c
  BY <1>1 DEF NoRequest
<1>3. ASSUME NEW op, OneRequest(p, c, op)
      PROVE  /\ f.chan # c => OneRequest(r, c, op)
             /\ f.chan = c => f.op = op /\ NoRequest(r, c)
  <2>1. PICK i \in DOMAIN p : /\ p[i].chan = c /\ p[i].op = op
                              /\ \A j \in DOMAIN p : j # i => p[j].chan # c
    BY <1>3 DEF OneRequest
  <2>2. CASE f.chan # c
    <3>1. i # 1 /\ i - 1 \in DOMAIN r /\ r[i - 1] = p[i]
      BY <1>1, <2>1, <2>2
    <3>2. \A j \in DOMAIN r : j # i - 1 => r[j].chan # c
      <4>1. \A j \in DOMAIN r : j # i - 1 => j + 1 \in DOMAIN p /\ j + 1 # i /\ r[j] = p[j + 1]
        BY <1>1, <2>1
      <4> QED
        BY <2>1, <4>1
    <3> QED
      BY <2>1, <2>2, <3>1, <3>2 DEF OneRequest
  <2>3. CASE f.chan = c
    <3>1. i = 1
      BY <1>1, <2>1, <2>3
    <3>2. \A j \in DOMAIN r : j + 1 \in DOMAIN p /\ j + 1 # i /\ r[j] = p[j + 1]
      BY <1>1, <3>1
    <3> QED
      BY <2>1, <2>3, <3>1, <3>2 DEF NoRequest
  <2> QED
    BY <2>2, <2>3
<1> QED
  BY <1>2, <1>3 DEF r

\* The frames that an event makes the subscriptions send, in any order.
LEMMA RequestsQueued ==
  ASSUME NEW p \in Seq(SoundFrames), NEW fs \in Seq(SoundFrames), NEW c
  PROVE  LET r == p \o fs
         IN  /\ NoRequest(fs, c) =>
                  /\ NoRequest(p, c) => NoRequest(r, c)
                  /\ \A op : OneRequest(p, c, op) => OneRequest(r, c, op)
             /\ \A op : OneRequest(fs, c, op) /\ NoRequest(p, c) => OneRequest(r, c, op)
<1> DEFINE r == p \o fs
<1>1. /\ Len(p) \in Nat /\ Len(fs) \in Nat
      /\ DOMAIN p = 1 .. Len(p) /\ DOMAIN fs = 1 .. Len(fs)
      /\ DOMAIN r = 1 .. Len(p) + Len(fs)
      /\ \A i \in 1 .. Len(p) + Len(fs) : r[i] = IF i <= Len(p) THEN p[i] ELSE fs[i - Len(p)]
  OBVIOUS
<1> HIDE DEF r
<1>2. \A i \in DOMAIN r : \/ i \in DOMAIN p /\ r[i] = p[i]
                          \/ /\ i - Len(p) \in DOMAIN fs /\ r[i] = fs[i - Len(p)]
                             /\ i \in Int
  BY <1>1
<1>3. NoRequest(fs, c) /\ NoRequest(p, c) => NoRequest(r, c)
  BY <1>2 DEF NoRequest
<1>4. ASSUME NoRequest(fs, c), NEW op, OneRequest(p, c, op) PROVE OneRequest(r, c, op)
  <2>1. PICK i \in DOMAIN p : /\ p[i].chan = c /\ p[i].op = op
                              /\ \A j \in DOMAIN p : j # i => p[j].chan # c
    BY <1>4 DEF OneRequest
  <2>2. i \in DOMAIN r /\ r[i] = p[i]
    BY <1>1, <2>1
  <2>3. \A j \in DOMAIN r : j # i => r[j].chan # c
    BY <1>2, <1>4, <2>1 DEF NoRequest
  <2> QED
    BY <2>1, <2>2, <2>3 DEF OneRequest
<1>5. ASSUME NoRequest(p, c), NEW op, OneRequest(fs, c, op) PROVE OneRequest(r, c, op)
  <2>1. PICK i \in DOMAIN fs : /\ fs[i].chan = c /\ fs[i].op = op
                               /\ \A j \in DOMAIN fs : j # i => fs[j].chan # c
    BY <1>5 DEF OneRequest
  <2>2. Len(p) + i \in DOMAIN r /\ r[Len(p) + i] = fs[i]
    BY <1>1, <2>1
  <2>3. \A j \in DOMAIN r : j # Len(p) + i => r[j].chan # c
    <3>1. \A j \in Int : j - Len(p) = i => j = Len(p) + i
      BY <1>1, <2>1
    <3> QED
      BY <1>2, <1>5, <2>1, <3>1 DEF NoRequest
  <2> QED
    BY <2>1, <2>2, <2>3 DEF OneRequest
<1> QED
  BY <1>3, <1>4, <1>5 DEF r

\* The server sends a frame.
LEMMA FrameArrived ==
  ASSUME NEW q \in Seq(Inbound), NEW m \in Inbound, NEW c
  PROVE  LET r == Append(q, m)
         IN  /\ m.chan # c => /\ NoFrame(q, c) => NoFrame(r, c)
                              /\ NoAnswer(q, c) => NoAnswer(r, c)
                              /\ AnswerFirst(q, c) => AnswerFirst(r, c)
                              /\ AnswerLast(q, c) => AnswerLast(r, c)
             /\ m.type \in Unsolicited => /\ NoAnswer(q, c) => NoAnswer(r, c)
                                          /\ AnswerFirst(q, c) => AnswerFirst(r, c)
             /\ m.chan = c /\ m.type = "subscribed" /\ NoFrame(q, c) => AnswerFirst(r, c)
             /\ m.chan = c /\ m.type = "unsubscribed" /\ NoAnswer(q, c) => AnswerLast(r, c)
<1> DEFINE r == Append(q, m)
<1>1. /\ Len(q) \in Nat /\ DOMAIN q = 1 .. Len(q) /\ DOMAIN r = 1 .. Len(q) + 1
      /\ \A i \in 1 .. Len(q) : r[i] = q[i]
      /\ r[Len(q) + 1] = m
  OBVIOUS
<1> HIDE DEF r
<1>2. m.chan # c => /\ NoFrame(q, c) => NoFrame(r, c)
                    /\ NoAnswer(q, c) => NoAnswer(r, c)
  BY <1>1 DEF NoFrame, NoAnswer
<1>3. m.type \in Unsolicited /\ NoAnswer(q, c) => NoAnswer(r, c)
  BY <1>1 DEF NoAnswer
<1>4. ASSUME m.chan # c \/ m.type \in Unsolicited, AnswerFirst(q, c) PROVE AnswerFirst(r, c)
  <2>1. PICK i \in DOMAIN q :
          /\ q[i].chan = c /\ q[i].type = "subscribed"
          /\ \A j \in DOMAIN q : j # i /\ q[j].chan = c => j > i /\ q[j].type \in Unsolicited
    BY <1>4 DEF AnswerFirst
  <2>2. /\ i \in DOMAIN r /\ r[i].chan = c /\ r[i].type = "subscribed"
        /\ \A j \in DOMAIN r : j # i /\ r[j].chan = c => j > i /\ r[j].type \in Unsolicited
    BY <1>1, <1>4, <2>1
  <2> QED
    BY <2>2 DEF AnswerFirst
<1>5. ASSUME m.chan # c, AnswerLast(q, c) PROVE AnswerLast(r, c)
  <2>1. PICK i \in DOMAIN q :
          /\ q[i].chan = c /\ q[i].type = "unsubscribed"
          /\ \A j \in DOMAIN q : j # i /\ q[j].chan = c => j < i /\ q[j].type \in Unsolicited
    BY <1>5 DEF AnswerLast
  <2>2. /\ i \in DOMAIN r /\ r[i].chan = c /\ r[i].type = "unsubscribed"
        /\ \A j \in DOMAIN r : j # i /\ r[j].chan = c => j < i /\ r[j].type \in Unsolicited
    BY <1>1, <1>5, <2>1
  <2> QED
    BY <2>2 DEF AnswerLast
<1>6. ASSUME m.chan = c, m.type = "subscribed", NoFrame(q, c) PROVE AnswerFirst(r, c)
  <2>1. /\ Len(q) + 1 \in DOMAIN r /\ r[Len(q) + 1] = m
        /\ \A j \in DOMAIN r : j # Len(q) + 1 => r[j].chan # c
    BY <1>1, <1>6 DEF NoFrame
  <2> QED
    BY <1>6, <2>1 DEF AnswerFirst
<1>7. ASSUME m.chan = c, m.type = "unsubscribed", NoAnswer(q, c) PROVE AnswerLast(r, c)
  <2>1. /\ Len(q) + 1 \in DOMAIN r /\ r[Len(q) + 1] = m
        /\ \A j \in DOMAIN r : j # Len(q) + 1 /\ r[j].chan = c =>
             j < Len(q) + 1 /\ r[j].type \in Unsolicited
    BY <1>1, <1>7 DEF NoAnswer
  <2> QED
    BY <1>7, <2>1 DEF AnswerLast
<1> QED
  BY <1>2, <1>3, <1>4, <1>5, <1>6, <1>7 DEF r

\* The reader takes the first frame.
LEMMA FrameTaken ==
  ASSUME NEW q \in Seq(Inbound), q # <<>>, NEW c
  PROVE  LET r == Tail(q)
             m == Head(q)
         IN  /\ NoFrame(q, c) => NoFrame(r, c) /\ m.chan # c
             /\ NoAnswer(q, c) => NoAnswer(r, c) /\ (m.chan = c => m.type \in Unsolicited)
             /\ AnswerFirst(q, c) => IF m.chan = c THEN m.type = "subscribed" /\ NoAnswer(r, c)
                                                   ELSE AnswerFirst(r, c)
             /\ AnswerLast(q, c) =>
                  IF m.chan = c /\ m.type \notin Unsolicited
                    THEN m.type = "unsubscribed" /\ NoFrame(r, c)
                    ELSE AnswerLast(r, c)
<1> DEFINE r == Tail(q)
           m == Head(q)
<1>1. /\ Len(q) \in Nat \ {0} /\ DOMAIN q = 1 .. Len(q) /\ DOMAIN r = 1 .. Len(q) - 1
      /\ \A i \in 1 .. Len(q) - 1 : r[i] = q[i + 1]
      /\ m = q[1] /\ 1 \in DOMAIN q
  OBVIOUS
<1> HIDE DEF r, m
<1>2. \A j \in DOMAIN r : j + 1 \in DOMAIN q /\ r[j] = q[j + 1] /\ j \in Int /\ j + 1 # 1
  BY <1>1
<1>3. NoFrame(q, c) => NoFrame(r, c) /\ m.chan # c
  BY <1>1, <1>2 DEF NoFrame
<1>4. NoAnswer(q, c) => NoAnswer(r, c) /\ (m.chan = c => m.type \in Unsolicited)
  BY <1>1, <1>2 DEF NoAnswer
<1>5. ASSUME AnswerFirst(q, c)
      PROVE  IF m.chan = c THEN m.type = "subscribed" /\ NoAnswer(r, c) ELSE AnswerFirst(r, c)
  <2>1. PICK i \in DOMAIN q :
          /\ q[i].chan = c /\ q[i].type = "subscribed"
          /\ \A j \in DOMAIN q : j # i /\ q[j].chan = c => j > i /\ q[j].type \in Unsolicited
    BY <1>5 DEF AnswerFirst
  <2>2. CASE m.chan = c
    <3>1. i = 1
      BY <1>1, <2>1, <2>2
    <3>2. \A j \in DOMAIN r : r[j].chan = c => r[j].type \in Unsolicited
      BY <1>2, <2>1, <3>1
    <3> QED
      BY <1>1, <2>1, <2>2, <3>1, <3>2 DEF NoAnswer
  <2>3. CASE m.chan # c
    <3>1. i # 1 /\ i - 1 \in DOMAIN r /\ r[i - 1] = q[i]
      BY <1>1, <2>1, <2>3
    <3>2. \A j \in DOMAIN r : j # i - 1 => j + 1 # i
      BY <1>1, <1>2
    <3>3. \A j \in DOMAIN r : j + 1 > i => j > i - 1
      BY <1>1, <1>2
    <3>4. \A j \in DOMAIN r : j # i - 1 /\ r[j].chan = c => j > i - 1 /\ r[j].type \in Unsolicited
      BY <1>2, <2>1, <3>2, <3>3
    <3> QED
      BY <2>1, <2>3, <3>1, <3>4 DEF AnswerFirst
  <2> QED
    BY <2>2, <2>3
<1>6. ASSUME AnswerLast(q, c)
      PROVE  IF m.chan = c /\ m.type \notin Unsolicited
               THEN m.type = "unsubscribed" /\ NoFrame(r, c)
               ELSE AnswerLast(r, c)
  <2>1. PICK i \in DOMAIN q :
          /\ q[i].chan = c /\ q[i].type = "unsubscribed"
          /\ \A j \in DOMAIN q : j # i /\ q[j].chan = c => j < i /\ q[j].type \in Unsolicited
    BY <1>6 DEF AnswerLast
  <2>2. CASE i = 1
    <3>1. m.chan = c /\ m.type = "unsubscribed" /\ m.type \notin Unsolicited
      BY <1>1, <2>1, <2>2 DEF Unsolicited
    <3>2. \A j \in DOMAIN r : r[j].chan # c
      <4>1. \A j \in DOMAIN r : ~(j + 1 < 1)
        BY <1>1
      <4> QED
        BY <1>2, <2>1, <2>2, <4>1
    <3> QED
      BY <3>1, <3>2 DEF NoFrame
  <2>3. CASE i # 1
    <3>1. i - 1 \in DOMAIN r /\ r[i - 1] = q[i]
      BY <1>1, <2>1, <2>3
    <3>2. \A j \in DOMAIN r : j # i - 1 => j + 1 # i
      BY <1>1, <1>2
    <3>3. \A j \in DOMAIN r : j + 1 < i => j < i - 1
      BY <1>1, <1>2
    <3>4. \A j \in DOMAIN r : j # i - 1 /\ r[j].chan = c => j < i - 1 /\ r[j].type \in Unsolicited
      BY <1>2, <2>1, <3>2, <3>3
    <3>5. ~(m.chan = c /\ m.type \notin Unsolicited)
      BY <1>1, <2>1, <2>3
    <3> QED
      BY <2>1, <3>1, <3>4, <3>5 DEF AnswerLast
  <2> QED
    BY <2>2, <2>3
<1> QED
  BY <1>3, <1>4, <1>5, <1>6 DEF r, m

----------------------------------------------------------------------------
(* Where a channel is.  st is the state of the machine that holds it, down *)
(* when none does; served are the channels the server sends data for.      *)

Idle(st, served, p, q, c) ==
  /\ st \in {"down", "closed"} /\ c \notin served
  /\ NoRequest(p, c) /\ NoFrame(q, c)

\* The subscription has asked for it, the server has answered, or never will.
Asking(st, served, p, q, c) ==
  /\ st = "opening" /\ c \notin served
  /\ OneRequest(p, c, "subscribe") /\ NoFrame(q, c)

Answered(st, served, p, q, c) ==
  /\ st = "opening" /\ c \in served
  /\ NoRequest(p, c) /\ AnswerFirst(q, c)

Ignored(st, served, p, q, c) ==
  /\ st = "opening" /\ c \notin served
  /\ NoRequest(p, c) /\ NoFrame(q, c)

\* A state that has outlived its session may be open at a server that sends
\* nothing, and so may one whose request to end it was ignored be closing.
Serving(st, served, p, q, c) ==
  /\ st \in {"open", "closing"}
  /\ st = "open" => c \in served \/ NoFrame(q, c)
  /\ NoRequest(p, c) /\ NoAnswer(q, c)

Leaving(st, served, p, q, c) ==
  /\ st = "closing"
  /\ OneRequest(p, c, "unsubscribe") /\ NoAnswer(q, c)

Left(st, served, p, q, c) ==
  /\ st = "closing" /\ c \notin served
  /\ NoRequest(p, c) /\ AnswerLast(q, c)

Placed(st, served, p, q, c) ==
  \/ Idle(st, served, p, q, c) \/ Asking(st, served, p, q, c)
  \/ Answered(st, served, p, q, c) \/ Ignored(st, served, p, q, c)
  \/ Serving(st, served, p, q, c) \/ Leaving(st, served, p, q, c)
  \/ Left(st, served, p, q, c)

\* What happens to one channel leaves the others where they are.
LEMMA PlacedElsewhere ==
  ASSUME NEW st, NEW c, NEW served, NEW served2, NEW p, NEW p2, NEW q, NEW q2,
         Placed(st, served, p, q, c),
         c \in served <=> c \in served2,
         NoRequest(p, c) => NoRequest(p2, c),
         \A op : OneRequest(p, c, op) => OneRequest(p2, c, op),
         NoFrame(q, c) => NoFrame(q2, c), NoAnswer(q, c) => NoAnswer(q2, c),
         AnswerFirst(q, c) => AnswerFirst(q2, c), AnswerLast(q, c) => AnswerLast(q2, c)
  PROVE  Placed(st, served2, p2, q2, c)
BY DEF Placed, Idle, Asking, Answered, Ignored, Serving, Leaving, Left

\* A coroutine goes on.
LEMMA PlacedAfterRun ==
  ASSUME NEW st, NEW st2, NEW c, NEW served, NEW p \in Seq(SoundFrames), NEW q, NEW sends,
         Placed(st, served, p, q, c), RunMoves(st, st2, sends),
         NEW f \in SoundFrames, f.chan = c, sends # <<>> => f.op = sends[1]
  PROVE  Placed(st2, served, IF sends = <<>> THEN p ELSE Append(p, f), q, c)
<1>1. CASE sends = <<>>
  <2>1. st2 = st \/ (st \in {"down", "closed"} /\ st2 \in {"down", "closed"})
    BY <1>1 DEF RunMoves
  <2> QED
    BY <1>1, <2>1 DEF Placed, Idle, Asking, Answered, Ignored, Serving, Leaving, Left
<1>2. CASE sends # <<>>
  <2>1. NoRequest(p, c) => OneRequest(Append(p, f), c, f.op)
    BY RequestAppended
  <2>2. CASE st = "down" /\ st2 = "opening" /\ sends = <<"subscribe">>
    <3>1. Idle(st, served, p, q, c)
      BY <2>2 DEF Placed, Asking, Answered, Ignored, Serving, Leaving, Left
    <3>2. f.op = "subscribe"
      BY <1>2, <2>2
    <3> QED
      BY <1>2, <2>1, <2>2, <3>1, <3>2 DEF Idle, Placed, Asking
  <2>3. CASE st = "open" /\ st2 = "closing" /\ sends = <<"unsubscribe">>
    <3>1. Serving(st, served, p, q, c)
      BY <2>3 DEF Placed, Idle, Asking, Answered, Ignored, Leaving, Left
    <3>2. f.op = "unsubscribe"
      BY <1>2, <2>3
    <3> QED
      BY <1>2, <2>1, <2>3, <3>1, <3>2 DEF Serving, Placed, Leaving
  <2> QED
    BY <1>2, <2>2, <2>3 DEF RunMoves
<1> QED
  BY <1>1, <1>2

\* The reader takes a frame of the channel.
LEMMA PlacedAfterRead ==
  ASSUME NEW st, NEW c, NEW served, NEW p, NEW q \in Seq(Inbound), q # <<>>,
         Placed(st, served, p, q, c), Head(q).chan = c
  PROVE  \/ /\ Head(q).type \in Unsolicited /\ st \in {"opening", "open", "closing"}
            /\ Placed(st, served, p, Tail(q), c)
         \/ /\ Head(q).type = "subscribed" /\ st = "opening"
            /\ Placed("open", served, p, Tail(q), c)
         \/ /\ Head(q).type = "unsubscribed" /\ st = "closing"
            /\ Placed("closed", served, p, Tail(q), c)
<1> DEFINE m == Head(q)
           r == Tail(q)
<1>1. /\ NoFrame(q, c) => NoFrame(r, c) /\ m.chan # c
      /\ NoAnswer(q, c) => NoAnswer(r, c) /\ (m.chan = c => m.type \in Unsolicited)
      /\ AnswerFirst(q, c) => IF m.chan = c THEN m.type = "subscribed" /\ NoAnswer(r, c)
                                            ELSE AnswerFirst(r, c)
      /\ AnswerLast(q, c) => IF m.chan = c /\ m.type \notin Unsolicited
                               THEN m.type = "unsubscribed" /\ NoFrame(r, c)
                               ELSE AnswerLast(r, c)
  BY FrameTaken
<1> HIDE DEF m, r
<1>2. m.chan = c
  BY DEF m
<1>3. CASE Answered(st, served, p, q, c)
  BY <1>1, <1>2, <1>3 DEF Answered, Placed, Serving, m, r
<1>4. CASE Serving(st, served, p, q, c)
  <2>1. m.type \in Unsolicited /\ Serving(st, served, p, r, c)
    BY <1>1, <1>2, <1>4 DEF Serving
  <2> QED
    BY <1>4, <2>1 DEF Serving, Placed, m, r
<1>5. CASE Leaving(st, served, p, q, c)
  <2>1. m.type \in Unsolicited /\ Leaving(st, served, p, r, c)
    BY <1>1, <1>2, <1>5 DEF Leaving
  <2> QED
    BY <1>5, <2>1 DEF Leaving, Placed, m, r
<1>6. CASE Left(st, served, p, q, c)
  <2>1. CASE m.type \in Unsolicited
    <3>1. Left(st, served, p, r, c)
      BY <1>1, <1>2, <1>6, <2>1 DEF Left
    <3> QED
      BY <1>6, <2>1, <3>1 DEF Left, Placed, m, r
  <2>2. CASE m.type \notin Unsolicited
    <3>1. m.type = "unsubscribed" /\ Idle("closed", served, p, r, c)
      BY <1>1, <1>2, <1>6, <2>2 DEF Left, Idle
    <3> QED
      BY <1>6, <3>1 DEF Left, Placed, m, r
  <2> QED
    BY <2>1, <2>2
<1>7. CASE Idle(st, served, p, q, c) \/ Asking(st, served, p, q, c) \/ Ignored(st, served, p, q, c)
  BY <1>1, <1>2, <1>7 DEF Idle, Asking, Ignored
<1> QED
  BY <1>3, <1>4, <1>5, <1>6, <1>7 DEF Placed

\* An opening machine that was asked to close answers "subscribed" with a
\* request to end it.
LEMMA PlacedAfterRefusal ==
  ASSUME NEW c, NEW served, NEW p \in Seq(SoundFrames), NEW fs \in Seq(SoundFrames), NEW q,
         Placed("open", served, p, q, c), OneRequest(fs, c, "unsubscribe")
  PROVE  Placed("closing", served, p \o fs, q, c)
<1>1. Serving("open", served, p, q, c)
  BY DEF Placed, Idle, Asking, Answered, Ignored, Leaving, Left
<1>2. OneRequest(p \o fs, c, "unsubscribe")
  BY <1>1, RequestsQueued DEF Serving
<1> QED
  BY <1>1, <1>2 DEF Serving, Placed, Leaving

\* The server has heard a request of the channel, and answers it,
LEMMA PlacedAfterAnswer ==
  ASSUME NEW st, NEW c, NEW served, NEW p \in Seq(SoundFrames), p # <<>>, NEW q \in Seq(Inbound),
         Placed(st, served, p, q, c), p[1].chan = c, NEW m \in Inbound, m.chan = c, NEW served2,
         \/ /\ p[1].op = "subscribe"
            /\ m.type = IF c \in served THEN "error" ELSE "subscribed"
            /\ served2 = served \cup {c}
         \/ /\ p[1].op = "unsubscribe"
            /\ m.type = IF c \in served THEN "unsubscribed" ELSE "error"
            /\ served2 = served \ {c}
  PROVE  Placed(st, served2, Tail(p), Append(q, m), c)
<1>1. /\ ~NoRequest(p, c)
      /\ \A op : OneRequest(p, c, op) => p[1].op = op /\ NoRequest(Tail(p), c)
  BY RequestTaken
<1>2. /\ m.type \in Unsolicited /\ NoAnswer(q, c) => NoAnswer(Append(q, m), c)
      /\ m.type = "subscribed" /\ NoFrame(q, c) => AnswerFirst(Append(q, m), c)
      /\ m.type = "unsubscribed" /\ NoAnswer(q, c) => AnswerLast(Append(q, m), c)
  BY FrameArrived
<1>3. CASE Asking(st, served, p, q, c)
  <2>1. p[1].op = "subscribe" /\ NoRequest(Tail(p), c) /\ m.type = "subscribed" /\ c \in served2
    BY <1>1, <1>3 DEF Asking
  <2> QED
    BY <1>2, <1>3, <2>1 DEF Asking, Placed, Answered
<1>4. CASE Leaving(st, served, p, q, c)
  <2>1. p[1].op = "unsubscribe" /\ NoRequest(Tail(p), c) /\ c \notin served2
    BY <1>1, <1>4 DEF Leaving
  <2>2. CASE c \in served
    BY <1>2, <1>4, <2>1, <2>2 DEF Leaving, Placed, Left
  <2>3. CASE c \notin served
    <3>1. m.type \in Unsolicited
      BY <2>1, <2>3 DEF Unsolicited
    <3> QED
      BY <1>2, <1>4, <2>1, <3>1 DEF Leaving, Placed, Serving
  <2> QED
    BY <2>2, <2>3
<1> QED
  BY <1>1, <1>3, <1>4 DEF Placed, Idle, Answered, Ignored, Serving, Left

\* ... or does not.
LEMMA PlacedAfterSilence ==
  ASSUME NEW st, NEW c, NEW served, NEW p \in Seq(SoundFrames), p # <<>>, NEW q,
         Placed(st, served, p, q, c), p[1].chan = c
  PROVE  Placed(st, served, Tail(p), q, c)
<1>1. /\ ~NoRequest(p, c)
      /\ \A op : OneRequest(p, c, op) => NoRequest(Tail(p), c)
  BY RequestTaken
<1> QED
  BY <1>1 DEF Placed, Idle, Asking, Answered, Ignored, Serving, Leaving, Left

\* The server sends data of a channel it serves, or announces a restart.
LEMMA PlacedAfterData ==
  ASSUME NEW st, NEW c, NEW served, NEW p, NEW q \in Seq(Inbound), NEW m \in Inbound,
         Placed(st, served, p, q, c), c \in served, m.type \in Unsolicited
  PROVE  Placed(st, served, p, Append(q, m), c)
<1>1. /\ NoAnswer(q, c) => NoAnswer(Append(q, m), c)
      /\ AnswerFirst(q, c) => AnswerFirst(Append(q, m), c)
  BY FrameArrived
<1> QED
  BY <1>1 DEF Placed, Idle, Asking, Answered, Ignored, Serving, Leaving, Left

----------------------------------------------------------------------------
(* The channels of a connector.                                            *)

HolderState(c) == IF chan[c].acquired THEN sm[chan[c].on_event].state ELSE "down"

\* What the writer has in its hands is ahead of what is queued.
Pipe == inHand \o writeQueue

ChannelPlaced(c) == Placed(HolderState(c), srv.channels, Pipe, inbound, c)

HandoverInv == Healthy => \A c \in Channels : ChannelPlaced(c)

HandoverPremise == ConnectorInv /\ SoleHolder /\ NoOvertaking /\ HandoverInv

\* One frame ahead of the others.
LEMMA OneBefore ==
  ASSUME NEW one \in Seq(SoundFrames), Len(one) = 1, NEW rest \in Seq(SoundFrames)
  PROVE  /\ one \o rest \in Seq(SoundFrames) /\ Len(one \o rest) = 1 + Len(rest)
         /\ (one \o rest)[1] = one[1]
         /\ \A i \in 1 .. Len(rest) : (one \o rest)[i + 1] = rest[i]
<1>1. /\ one \o rest \in Seq(SoundFrames)
      /\ Len(one \o rest) = Len(one) + Len(rest)
      /\ \A i \in 1 .. Len(one) + Len(rest) :
           (one \o rest)[i] = IF i <= Len(one) THEN one[i] ELSE rest[i - Len(one)]
  BY ConcatProperties, Zenon
<1>2. Len(rest) \in Nat
  OBVIOUS
<1>3. \A i \in 1 .. Len(rest) : i + 1 \in 1 .. 1 + Len(rest) /\ ~(i + 1 <= 1) /\ (i + 1) - 1 = i
  BY <1>2
<1>4. \A i \in 1 .. Len(rest) : (one \o rest)[i + 1] = rest[i]
  BY <1>1, <1>3
<1>5. 1 \in 1 .. 1 + Len(rest) /\ 1 <= 1
  BY <1>2
<1> QED
  BY <1>1, <1>4, <1>5

\* A queue lengthens at its end, and the writer takes nothing away by popping.
LEMMA PipeFacts ==
  ASSUME NEW hand \in Seq(SoundFrames), NEW wq \in Seq(SoundFrames)
  PROVE  /\ hand \o wq \in Seq(SoundFrames)
         /\ \A f \in SoundFrames : hand \o Append(wq, f) = Append(hand \o wq, f)
         /\ \A fs \in Seq(SoundFrames) : hand \o (wq \o fs) = (hand \o wq) \o fs
         /\ hand = <<>> /\ wq # <<>> => <<Head(wq)>> \o Tail(wq) = hand \o wq
         /\ Len(hand) = 1 => /\ hand \o wq # <<>> /\ (hand \o wq)[1] = hand[1]
                             /\ Tail(hand \o wq) = <<>> \o wq
<1>1. hand \o wq \in Seq(SoundFrames)
  OBVIOUS
<1>2. \A fs \in Seq(SoundFrames) : hand \o (wq \o fs) = (hand \o wq) \o fs
  BY ConcatAssociative
<1>3. ASSUME NEW f \in SoundFrames
      PROVE  hand \o Append(wq, f) = Append(hand \o wq, f)
  <2>1. /\ Append(wq, f) = wq \o <<f>> /\ <<f>> \in Seq(SoundFrames)
        /\ Append(hand \o wq, f) = (hand \o wq) \o <<f>>
    BY <1>1, AppendIsConcat
  <2> QED
    BY <1>2, <2>1
<1>4. ASSUME hand = <<>>, wq # <<>> PROVE <<Head(wq)>> \o Tail(wq) = hand \o wq
  <2>1. hand \o wq = wq
    BY <1>4, ConcatEmptySeq
  <2>2. <<Head(wq)>> \o Tail(wq) = wq
    <3>1. Head(wq) \in SoundFrames /\ Tail(wq) \in Seq(SoundFrames) /\ Len(wq) \in Nat \ {0}
          /\ Len(Tail(wq)) = Len(wq) - 1 /\ Head(wq) = wq[1]
          /\ \A i \in 1 .. Len(wq) - 1 : Tail(wq)[i] = wq[i + 1]
      BY <1>4
    <3> DEFINE one == <<Head(wq)>>
    <3>2. one \in Seq(SoundFrames) /\ Len(one) = 1 /\ one[1] = wq[1]
      BY <3>1
    <3> DEFINE rest == Tail(wq)
    <3>3. /\ rest \in Seq(SoundFrames) /\ Len(rest) = Len(wq) - 1
          /\ \A i \in 1 .. Len(wq) - 1 : rest[i] = wq[i + 1]
      BY <3>1
    <3> HIDE DEF one, rest
    <3>4. /\ one \o rest \in Seq(SoundFrames) /\ Len(one \o rest) = 1 + Len(rest)
          /\ (one \o rest)[1] = one[1]
          /\ \A i \in 1 .. Len(rest) : (one \o rest)[i + 1] = rest[i]
      BY <3>2, <3>3, OneBefore
    <3>5. one \o rest = wq
      <4>1. \A i \in 1 .. Len(wq) : i = 1 \/ (i - 1 \in 1 .. Len(rest) /\ (i - 1) + 1 = i)
        BY <3>1, <3>3
      <4>2. \A i \in 1 .. Len(wq) : (one \o rest)[i] = wq[i]
        BY <3>2, <3>3, <3>4, <4>1
      <4>3. Len(one \o rest) = Len(wq)
        BY <3>1, <3>3, <3>4
      <4> QED
        BY <3>4, <4>2, <4>3, SeqEqual
    <3> QED
      BY <3>5 DEF one, rest
  <2> QED
    BY <2>1, <2>2
<1>5. ASSUME Len(hand) = 1
      PROVE  /\ hand \o wq # <<>> /\ (hand \o wq)[1] = hand[1]
             /\ Tail(hand \o wq) = <<>> \o wq
  <2>1. <<>> \o wq = wq
    BY ConcatEmptySeq
  <2> DEFINE r == hand \o wq
  <2>2. /\ r \in Seq(SoundFrames) /\ Len(r) = 1 + Len(wq) /\ Len(wq) \in Nat
        /\ r[1] = hand[1]
        /\ \A i \in 1 .. Len(wq) : r[i + 1] = wq[i]
    BY <1>5, OneBefore
  <2> HIDE DEF r
  <2>4. r # <<>>
    BY <2>2
  <2>5. /\ Tail(r) \in Seq(SoundFrames) /\ Len(Tail(r)) = Len(wq)
        /\ \A i \in 1 .. Len(wq) : Tail(r)[i] = r[i + 1]
    BY <2>2, <2>4
  <2>6. \A i \in 1 .. Len(wq) : Tail(r)[i] = wq[i]
    BY <2>2, <2>5
  <2>7. Tail(r) = wq
    BY <2>5, <2>6, SeqEqual
  <2> QED
    BY <2>1, <2>2, <2>4, <2>7 DEF r
<1> QED
  BY <1>1, <1>2, <1>3, <1>4, <1>5

\* Of the frames that an event makes the listeners send, a channel's is its
\* listener's.
LEMMA ChannelFrames ==
  ASSUME IInv, NEW cs, cs \subseteq Channels, NEW e \in Events, NEW c \in Channels,
         NEW frames \in Orders(FramesOn(cs, e))
  PROVE  LET ops == ProcessEvent(sm[chan[c].on_event], e).sends
         IN  /\ frames \in Seq(SoundFrames)
             /\ c \in cs /\ chan[c].acquired /\ ops # <<>> => OneRequest(frames, c, ops[1])
             /\ ~(c \in cs /\ chan[c].acquired /\ ops # <<>>) => NoRequest(frames, c)
<1> DEFINE fs  == FramesOn(cs, e)
           h   == chan[c].on_event
           ops == ProcessEvent(sm[h], e).sends
<1>1. IsFiniteSet(fs) /\ fs \subseteq SoundFrames
  BY FramesOnFacts DEF Requests
<1>2. \A f \in fs : f.chan = c =>
        c \in cs /\ chan[c].acquired /\ ops # <<>> /\ f = Frame(ops[1], c)
  <2> SUFFICES ASSUME NEW f \in fs, f.chan = c
               PROVE  c \in cs /\ chan[c].acquired /\ ops # <<>> /\ f = Frame(ops[1], c)
    OBVIOUS
  <2>1. PICK t \in Listeners(cs) : /\ ProcessEvent(sm[t], e).sends # <<>>
                                   /\ f = Frame(ProcessEvent(sm[t], e).sends[1], Topic[t])
    BY DEF FramesOn
  <2>2. PICK d \in cs : chan[d].acquired /\ t = chan[d].on_event
    BY DEF Listeners
  <2>3. Topic[t] = d
    BY <2>2 DEF IInv, HandlerLive
  <2>4. f.chan = Topic[t]
    BY <2>1 DEF Frame
  <2> QED
    BY <2>1, <2>2, <2>3, <2>4
<1>3. ASSUME c \in cs, chan[c].acquired, ops # <<>>
      PROVE  Frame(ops[1], c) \in fs
  <2>1. h \in Listeners(cs)
    BY <1>3 DEF Listeners
  <2>2. Topic[h] = c
    BY <1>3 DEF IInv, HandlerLive
  <2> QED
    BY <1>3, <2>1, <2>2 DEF FramesOn
<1> HIDE DEF fs
<1>4. /\ frames \in Seq(SoundFrames)
      /\ \A i \in DOMAIN frames : frames[i] \in fs
      /\ \A f \in fs : \E i \in DOMAIN frames : frames[i] = f
      /\ \A i, j \in DOMAIN frames : frames[i] = frames[j] => i = j
  <2>1. frames \in Orders(fs)
    BY DEF fs
  <2> QED
    BY <1>1, <2>1, OrdersFacts
<1> HIDE DEF ops
<1>5. ASSUME c \in cs, chan[c].acquired, ops # <<>>
      PROVE  OneRequest(frames, c, ops[1])
  <2>1. PICK i \in DOMAIN frames : frames[i] = Frame(ops[1], c)
    BY <1>3, <1>4, <1>5
  <2>2. frames[i].chan = c /\ frames[i].op = ops[1]
    BY <2>1 DEF Frame
  <2>3. \A j \in DOMAIN frames : j # i => frames[j].chan # c
    BY <1>2, <1>4, <2>1
  <2> QED
    BY <2>2, <2>3 DEF OneRequest
<1>6. ASSUME ~(c \in cs /\ chan[c].acquired /\ ops # <<>>)
      PROVE  NoRequest(frames, c)
  BY <1>2, <1>4, <1>6 DEF NoRequest
<1> QED
  BY <1>4, <1>5, <1>6 DEF ops

\* What a frame of the server makes of a machine that it may find.
LEMMA ResponseFacts ==
  ASSUME NEW m \in Machines, NEW e \in Responses
  PROVE  LET after == ProcessEvent(m, e)
         IN  /\ m.state \in {"opening", "open", "closing"} /\ e \in Unsolicited =>
                  after.sm.state = m.state /\ after.sends = <<>>
             /\ m.state = "opening" /\ e = "subscribed" =>
                  \/ after.sm.state = "open" /\ after.sends = <<>>
                  \/ after.sm.state = "closing" /\ after.sends = <<"unsubscribe">>
             /\ m.state = "closing" /\ e = "unsubscribed" =>
                  after.sm.state = "closed" /\ after.sends = <<>>
BY DEF Unsolicited, Responses, Machines, ProcessEvent, ProcessOpeningEvent, ProcessOpenEvent,
       ProcessClosingEvent, HandleResponse, Enter, EnterClosed, EnterClosing, Stay, Drop

----------------------------------------------------------------------------
(* Every step keeps every channel in a place.                              *)

LEMMA PremiseFacts ==
  ASSUME HandoverPremise
  PROVE  /\ IInv /\ ConnectorTypes /\ FrameTypes /\ NothingBetweenSessions
         /\ Pipe \in Seq(SoundFrames) /\ inbound \in Seq(Inbound)
         /\ chan \in [Channels -> ChannelStates] /\ sm \in [Subs -> Machines]
         /\ \A c \in Channels : chan[c].acquired => /\ chan[c].on_event \in Subs
                                                   /\ Topic[chan[c].on_event] = c
<1>1. /\ IInv /\ ConnectorTypes /\ FrameTypes /\ NothingBetweenSessions
  BY DEF HandoverPremise, ConnectorInv, ConnInv, ConnectorTypes
<1>2. Pipe \in Seq(SoundFrames) /\ inbound \in Seq(Inbound)
  BY <1>1, PipeFacts DEF FrameTypes, Pipe
<1>3. chan \in [Channels -> ChannelStates] /\ sm \in [Subs -> Machines]
  BY <1>1 DEF IInv, TypeOK
<1>4. \A c \in Channels : chan[c].acquired => /\ chan[c].on_event \in Subs
                                              /\ Topic[chan[c].on_event] = c
  BY <1>1 DEF IInv, HandlerLive
<1> QED
  BY <1>1, <1>2, <1>3, <1>4

\* A step that moves no machine, no request and no frame.
LEMMA UntouchedHandover ==
  ASSUME HandoverInv, Healthy' => Healthy,
         \A c \in Channels : HolderState(c)' = HolderState(c),
         UNCHANGED <<srv, inbound>>, Pipe' = Pipe
  PROVE  HandoverInv'
BY DEF HandoverInv, ChannelPlaced

LEMMA RunKeepsHandover ==
  ASSUME HandoverPremise, NEW s \in Subs, NEW seg, Shape(s, seg), QueueShape(s, seg),
         TurnShape(s, seg), RunTo(s, seg), SubscriptionRuns(s, seg)
  PROVE  HandoverInv'
<1> DEFINE c == Topic[s]
           f == [Frame(seg.sends[1], c) EXCEPT !.stale = phase # "session"]
<1>0. /\ IInv /\ ConnectorTypes /\ FrameTypes /\ NothingBetweenSessions
      /\ Pipe \in Seq(SoundFrames) /\ inbound \in Seq(Inbound)
      /\ chan \in [Channels -> ChannelStates] /\ sm \in [Subs -> Machines]
      /\ \A d \in Channels : chan[d].acquired => /\ chan[d].on_event \in Subs
                                                 /\ Topic[chan[d].on_event] = d
      /\ c \in Channels /\ pc \in [Subs -> PCs]
  BY PremiseFacts, TopicAssumption DEF IInv, TypeOK
<1>1. /\ UNCHANGED <<phase, stopping, sock, inbound, srv, reader, writer, inHand>>
      /\ writeQueue' = IF seg.sends = <<>> THEN writeQueue
                       ELSE Append(writeQueue, f)
  BY DEF SubscriptionRuns, Send, session, network
<1> SUFFICES ASSUME Healthy' PROVE \A d \in Channels : ChannelPlaced(d)'
  BY DEF HandoverInv
<1>2. Healthy /\ phase = "session"
  BY <1>0, <1>1 DEF Healthy, Cancelled, NothingBetweenSessions
<1>3. \A d \in Channels : ChannelPlaced(d)
  BY <1>2 DEF HandoverPremise, HandoverInv
<1>4. /\ sm'[s] = seg.sm /\ chan'[c] = seg.chan
      /\ \A t \in Subs : t # s => sm'[t] = sm[t]
      /\ \A d \in Channels : d # c => chan'[d] = chan[d]
  BY <1>0 DEF RunTo
<1>5. /\ seg.sends # <<>> => f \in SoundFrames
      /\ f.chan = c /\ f.op = seg.sends[1]
  <2>1. seg.sends # <<>> => seg.sends[1] \in Ops
    BY DEF Shape
  <2>2. f = [op |-> seg.sends[1], chan |-> c, stale |-> phase # "session"]
    BY DEF Frame
  <2>3. (phase # "session") \in BOOLEAN
    OBVIOUS
  <2> HIDE DEF f
  <2> QED
    BY <1>0, <2>1, <2>2, <2>3 DEF SoundFrames
<1> HIDE DEF f
<1>6. Pipe' = IF seg.sends = <<>> THEN Pipe ELSE Append(Pipe, f)
  <2>1. CASE seg.sends = <<>>
    BY <1>1, <2>1 DEF Pipe
  <2>2. CASE seg.sends # <<>>
    <3>1. inHand \in Seq(SoundFrames) /\ writeQueue \in Seq(SoundFrames) /\ f \in SoundFrames
      BY <1>0, <1>5, <2>2 DEF FrameTypes
    <3>2. writeQueue' = Append(writeQueue, f) /\ inHand' = inHand
      BY <1>1, <1>5, <2>2
    <3> QED
      BY <2>2, <3>1, <3>2, PipeFacts DEF Pipe
  <2> QED
    BY <2>1, <2>2
<1>7. ASSUME NEW d \in Channels, d # c PROVE ChannelPlaced(d)'
  <2>1. HolderState(d)' = HolderState(d)
    BY <1>0, <1>4, <1>7 DEF HolderState
  <2>2. /\ NoRequest(Pipe, d) => NoRequest(Pipe', d)
        /\ \A op : OneRequest(Pipe, d, op) => OneRequest(Pipe', d, op)
    BY <1>0, <1>5, <1>6, <1>7, RequestAppended
  <2>3. Placed(HolderState(d), srv.channels, Pipe', inbound, d)
    BY <1>3, <2>2, PlacedElsewhere DEF ChannelPlaced
  <2> QED
    BY <1>1, <2>1, <2>3 DEF ChannelPlaced
<1>8. ChannelPlaced(c)'
  <2>1. RunMoves(HolderState(c), HolderState(c)', seg.sends)
    <3> DEFINE before == IF chan[c].acquired THEN sm[s].state ELSE "down"
    <3>1. CASE seg.pc = "waiting"
      <4>1. /\ seg.sends = <<>> /\ chan[c].acquired /\ seg.chan.acquired
            /\ seg.chan.on_event = chan[c].on_event /\ pc[s] = "spawned"
        BY <3>1 DEF TurnShape, QueueShape, Live
      <4>2. chan[c].on_event # s
        BY <4>1, <1>0 DEF IInv, HandlerLive
      <4>3. HolderState(c)' = HolderState(c)
        BY <1>0, <1>4, <4>1, <4>2 DEF HolderState
      <4> QED
        BY <4>1, <4>3 DEF RunMoves
    <3>2. CASE seg.pc # "waiting"
      <4>1. HolderState(c) = before
        BY <1>0, <3>2 DEF HolderState, TurnShape
      <4>2. CASE seg.pc \in Live
        <5>1. RunMoves(before, seg.sm.state, seg.sends) /\ seg.chan.acquired /\ seg.chan.on_event = s
          BY <4>2 DEF TurnShape, Live
        <5>2. HolderState(c)' = seg.sm.state
          BY <1>4, <5>1 DEF HolderState
        <5> QED
          BY <4>1, <5>1, <5>2
      <4>3. CASE seg.pc = "done"
        <5>1. RunMoves(before, "down", seg.sends) /\ ~seg.chan.acquired
          BY <4>3 DEF TurnShape, Live
        <5>2. HolderState(c)' = "down"
          BY <1>4, <5>1 DEF HolderState
        <5> QED
          BY <4>1, <5>1, <5>2
      <4> QED
        BY <3>2, <4>2, <4>3 DEF TurnShape
    <3> QED
      BY <3>1, <3>2
  <2> DEFINE after == HolderState(c)'
  <2> HIDE DEF after
  <2>2. RunMoves(HolderState(c), after, seg.sends)
    BY <2>1 DEF after
  <2>3. Placed(after, srv.channels, Pipe', inbound, c)
    <3>1. CASE seg.sends = <<>>
      <4>1. after = HolderState(c) \/ (HolderState(c) \in {"down", "closed"} /\ after \in {"down", "closed"})
        BY <2>2, <3>1 DEF RunMoves
      <4>2. Placed(HolderState(c), srv.channels, Pipe, inbound, c)
        BY <1>0, <1>3 DEF ChannelPlaced
      <4> QED
        BY <1>6, <3>1, <4>1, <4>2 DEF Placed, Idle, Asking, Answered, Ignored, Serving, Leaving, Left
    <3>2. CASE seg.sends # <<>>
      <4>1. f \in SoundFrames
        BY <1>5, <3>2
      <4>2. Placed(HolderState(c), srv.channels, Pipe, inbound, c)
        BY <1>0, <1>3 DEF ChannelPlaced
      <4> QED
        BY <1>0, <1>5, <1>6, <2>2, <3>2, <4>1, <4>2, PlacedAfterRun
    <3> QED
      BY <3>1, <3>2
  <2> QED
    BY <1>1, <2>3 DEF ChannelPlaced, after
<1> QED
  BY <1>7, <1>8

\* The coroutines that start and stop elsewhere.
LEMMA OthersKeepHandover ==
  ASSUME HandoverPremise, NEW s \in Subs,
         CreateSubscription(s) \/ StopSubscription(s) \/ RunStopWhileWaiting(s)
  PROVE  HandoverInv'
<1>0. chan \in [Channels -> ChannelStates] /\ Topic[s] \in Channels
  BY PremiseFacts, TopicAssumption
<1>1. UNCHANGED cvars /\ UNCHANGED sm
  BY DEF CreateSubscription, StopSubscription, RunStopWhileWaiting, Create, Stop, StopWhileWaiting
<1>2. \A c \in Channels : /\ chan'[c].acquired <=> chan[c].acquired
                          /\ chan'[c].on_event = chan[c].on_event
  <2>1. CASE UNCHANGED chan
    BY <2>1
  <2>2. CASE RunStopWhileWaiting(s)
    <3>1. \A ch \in ChannelStates : /\ WithoutWaiter(s, ch).acquired = ch.acquired
                                    /\ WithoutWaiter(s, ch).on_event = ch.on_event
      BY DEF WithoutWaiter, ChannelStates
    <3>2. \A c \in Channels : chan'[c] = IF c = Topic[s] THEN WithoutWaiter(s, chan[c]) ELSE chan[c]
      BY <1>0, <2>2 DEF RunStopWhileWaiting, StopWhileWaiting
    <3> QED
      BY <1>0, <3>1, <3>2
  <2> QED
    BY <2>1, <2>2 DEF CreateSubscription, StopSubscription, Create, Stop
<1>3. \A c \in Channels : HolderState(c)' = HolderState(c)
  BY <1>1, <1>2 DEF HolderState
<1> QED
  BY <1>1, <1>3, UntouchedHandover DEF cvars, Healthy, Cancelled, Pipe, HandoverPremise

\* A session begins: every machine that is down asks for its channel.
LEMMA AnnounceKeepsHandover ==
  ASSUME HandoverPremise, Connected \/ ConnectFail
  PROVE  HandoverInv'
<1>0. /\ IInv /\ ConnectorTypes /\ FrameTypes /\ NothingBetweenSessions
      /\ chan \in [Channels -> ChannelStates] /\ sm \in [Subs -> Machines]
      /\ \A d \in Channels : chan[d].acquired => /\ chan[d].on_event \in Subs
                                                 /\ Topic[chan[d].on_event] = d
      /\ "up" \in Events
  BY PremiseFacts DEF Events
<1>1. PICK frames \in Orders(FramesOn(Channels, "up")) : writeQueue' = Login \o frames
  BY DEF Connected, ConnectFail, Announce
<1>2. /\ phase = "connecting" /\ inHand' = <<>> /\ inbound' = <<>> /\ srv' = SilentServer
      /\ ConnectionUp
  <2>1. inHand = <<>> /\ inbound = <<>> /\ srv = SilentServer
    BY <1>0 DEF Connected, ConnectFail, Announce, FrameTypes, NothingBetweenSessions
  <2> QED
    BY <2>1 DEF Connected, ConnectFail, Announce, Fork, session
<1> SUFFICES ASSUME NEW c \in Channels PROVE ChannelPlaced(c)'
  BY DEF HandoverInv
<1> DEFINE h == chan[c].on_event
           ops == ProcessEvent(sm[h], "up").sends
<1>3. /\ frames \in Seq(SoundFrames)
      /\ chan[c].acquired /\ ops # <<>> => OneRequest(frames, c, ops[1])
      /\ ~(chan[c].acquired /\ ops # <<>>) => NoRequest(frames, c)
  BY <1>0, ChannelFrames
<1>4. NoRequest(Login, c) /\ Login \in Seq(SoundFrames)
  <2>1. \A i \in DOMAIN Login : Login[i] = Frame("auth", None)
    BY DEF Login
  <2> QED
    BY <2>1, NoneAssumption, FrameFacts DEF NoRequest, Frame
<1> DEFINE p == Login \o frames
<1>5. /\ p \in Seq(SoundFrames)
      /\ chan[c].acquired /\ ops # <<>> => OneRequest(p, c, ops[1])
      /\ ~(chan[c].acquired /\ ops # <<>>) => NoRequest(p, c)
  BY <1>3, <1>4, RequestsQueued
<1> HIDE DEF p
<1>6. Pipe' = p
  BY <1>1, <1>2, <1>5, ConcatEmptySeq DEF Pipe, p
<1>7. UNCHANGED chan /\ \A t \in Listeners(Channels) : t \in Subs => sm'[t] = ProcessEvent(sm[t], "up").sm
  BY <1>2 DEF ConnectionUp, Notify
<1>8. c \notin srv'.channels /\ NoFrame(inbound', c) /\ NoAnswer(inbound', c)
  BY <1>2 DEF SilentServer, NoFrame, NoAnswer
<1>9. CASE ~chan[c].acquired
  <2>1. HolderState(c)' = "down"
    BY <1>7, <1>9 DEF HolderState
  <2> QED
    BY <1>5, <1>6, <1>8, <1>9, <2>1 DEF ChannelPlaced, Placed, Idle
<1>10. CASE chan[c].acquired
  <2>1. h \in Listeners(Channels) /\ h \in Subs
    BY <1>0, <1>10 DEF Listeners
  <2>2. HolderState(c)' = ProcessEvent(sm[h], "up").sm.state
    BY <1>7, <1>10, <2>1 DEF HolderState
  <2>3. sm[h] \in Machines
    BY <1>0, <2>1
  <2>4. CASE sm[h].state = "down"
    <3>1. ProcessEvent(sm[h], "up").sm.state = "opening" /\ ops = <<"subscribe">>
      BY <2>3, <2>4 DEF ProcessEvent, ProcessDownEvent, Enter, Stay, Machines
    <3>2. OneRequest(p, c, "subscribe")
      <4> HIDE DEF ops
      <4>1. ops # <<>> /\ ops[1] = "subscribe"
        BY <3>1
      <4> QED
        BY <1>5, <1>10, <4>1
    <3> QED
      BY <1>6, <1>8, <2>2, <3>1, <3>2 DEF ChannelPlaced, Placed, Asking
  <2>5. CASE sm[h].state # "down"
    <3>1. ProcessEvent(sm[h], "up").sm.state = sm[h].state /\ ops = <<>>
      BY <2>3, <2>5 DEF ProcessEvent, ProcessOpeningEvent, ProcessOpenEvent, ProcessClosingEvent,
                        ProcessClosedEvent, HandleResponse, Stay, Drop, Machines, States
    <3>2. NoRequest(p, c)
      BY <1>5, <3>1
    <3>3. sm[h].state \in {"opening", "open", "closing", "closed"}
      BY <2>3, <2>5 DEF Machines, States
    <3> QED
      BY <1>6, <1>8, <2>2, <3>1, <3>2, <3>3 DEF ChannelPlaced, Placed, Ignored, Serving, Idle
  <2> QED
    BY <2>4, <2>5
<1> QED
  BY <1>9, <1>10

\* The writer hands a request to the server, which answers it or does not.
LEMMA WriterKeepsHandover ==
  ASSUME HandoverPremise, WriterTask
  PROVE  HandoverInv'
<1>0. /\ ConnectorTypes /\ FrameTypes /\ NothingBetweenSessions
      /\ Pipe \in Seq(SoundFrames) /\ inbound \in Seq(Inbound)
      /\ inHand \in Seq(SoundFrames) /\ writeQueue \in Seq(SoundFrames)
  BY PremiseFacts DEF FrameTypes
<1>1. UNCHANGED <<vars, phase, stopping, sock, reader>>
  BY DEF WriterTask, WriterTake, WriterSent, WriterIgnored, WriterError, WriterCancelled,
         Written, network
<1>2. \A c \in Channels : HolderState(c)' = HolderState(c)
  BY <1>1 DEF HolderState, vars
<1>3. CASE WriterTake
  <2>1. inHand = <<>> /\ Healthy' => Healthy
    BY <1>0, <1>1, <1>3 DEF WriterTake, Healthy, Cancelled, FrameTypes
  <2>2. inHand = <<>>
    BY <1>0, <1>3 DEF WriterTake, FrameTypes
  <2>3. Pipe' = Pipe
    BY <1>0, <1>3, <2>2, PipeFacts DEF WriterTake, Pipe
  <2>4. UNCHANGED <<srv, inbound>>
    BY <1>3 DEF WriterTake, network
  <2> QED
    BY <1>2, <2>1, <2>2, <2>3, <2>4, UntouchedHandover DEF HandoverPremise
<1>4. CASE WriterError \/ WriterCancelled
  <2>1. ~Healthy'
    BY <1>4 DEF WriterError, WriterCancelled, Healthy, Cancelled
  <2> QED
    BY <2>1 DEF HandoverInv
<1>5. CASE WriterSent \/ WriterIgnored
  <2> DEFINE f == inHand[1]
             p == Pipe
             q == inbound
             served == srv.channels
  <2>0. writer = "writing" /\ inHand' = <<>> /\ UNCHANGED writeQueue
        /\ writer' = (IF Cancelled THEN "threw" ELSE "popping")
    BY <1>5 DEF WriterSent, WriterIgnored, Written
  <2>1. Healthy' => Healthy
    BY <1>1, <2>0 DEF Healthy, Cancelled
  <2>2. /\ Len(inHand) = 1 /\ f \in SoundFrames /\ p # <<>> /\ p[1] = f /\ Pipe' = Tail(p)
    <3>1. Len(inHand) = 1
      BY <1>0, <2>0 DEF FrameTypes
    <3> QED
      BY <1>0, <2>0, <3>1, PipeFacts, InHandFacts DEF Pipe
  <2>3. served \subseteq Channels /\ srv \in ServerStates
    BY <1>0 DEF FrameTypes, ServerStates
  <2> SUFFICES ASSUME NEW c \in Channels, Placed(HolderState(c), served, p, q, c)
               PROVE  Placed(HolderState(c), srv'.channels, Tail(p), inbound', c)
    BY <1>2, <2>1, <2>2 DEF HandoverInv, ChannelPlaced, HandoverPremise
  <2>4. /\ NoRequest(p, c) => NoRequest(Tail(p), c) /\ f.chan # c
        /\ f.chan # c => \A op : OneRequest(p, c, op) => OneRequest(Tail(p), c, op)
    BY <1>0, <2>2, RequestTaken
  <2>5. f.op \in {"auth", "ping", "subscribe", "unsubscribe"} /\ (f.chan = c => f.op \in Ops)
        /\ (f.op \in Ops => f.chan \in Channels) /\ (f.op = "ping" => f.chan = None)
    BY <2>2, NoneAssumption DEF SoundFrames, Ops
  <2>6. CASE WriterIgnored \/ f.op = "auth"
    <3>1. srv'.channels = served /\ inbound' = q
      BY <1>5, <2>3, <2>6 DEF WriterIgnored, WriterSent, ServerStates
    <3>2. CASE f.chan = c
      BY <1>0, <2>2, <3>1, <3>2, PlacedAfterSilence
    <3>3. CASE f.chan # c
      BY <2>4, <3>1, <3>3, PlacedElsewhere
    <3> QED
      BY <3>2, <3>3
  <2>7. CASE WriterSent /\ f.op # "auth"
    <3>1. PICK type \in Responses \cup {"pong"}, chans \in SUBSET Channels :
            /\ inbound' = Append(q, [type |-> type, chan |-> f.chan])
            /\ srv'.channels = chans
            /\ \/ f.op = "ping" /\ type = "pong" /\ chans = served
               \/ /\ f.op = "subscribe"
                  /\ type = (IF f.chan \in served THEN "error" ELSE "subscribed")
                  /\ chans = served \cup {f.chan}
               \/ /\ f.op = "unsubscribe"
                  /\ type = (IF f.chan \in served THEN "unsubscribed" ELSE "error")
                  /\ chans = served \ {f.chan}
      <4>1. CASE f.op = "ping"
        <5>1. inbound' = Append(q, [type |-> "pong", chan |-> f.chan]) /\ srv'.channels = served
          BY <2>3, <2>7, <4>1 DEF WriterSent, ServerStates
        <5> QED
          BY <2>3, <4>1, <5>1
      <4>2. CASE f.op = "subscribe"
        <5> DEFINE type == IF f.chan \in served THEN "error" ELSE "subscribed"
        <5>1. /\ inbound' = Append(q, [type |-> type, chan |-> f.chan])
              /\ srv'.channels = served \cup {f.chan}
          BY <2>3, <2>7, <4>2 DEF WriterSent, ServerStates
        <5>2. type \in Responses /\ served \cup {f.chan} \in SUBSET Channels
          BY <2>3, <2>5, <4>2 DEF Responses, Ops
        <5> HIDE DEF type
        <5> QED
          BY <4>2, <5>1, <5>2 DEF type
      <4>3. CASE f.op = "unsubscribe"
        <5> DEFINE type == IF f.chan \in served THEN "unsubscribed" ELSE "error"
        <5>1. /\ inbound' = Append(q, [type |-> type, chan |-> f.chan])
              /\ srv'.channels = served \ {f.chan}
          BY <2>3, <2>7, <4>3 DEF WriterSent, ServerStates
        <5>2. type \in Responses /\ served \ {f.chan} \in SUBSET Channels
          BY <2>3 DEF Responses
        <5> HIDE DEF type
        <5> QED
          BY <4>3, <5>1, <5>2 DEF type
      <4> QED
        BY <2>5, <2>7, <4>1, <4>2, <4>3
    <3> DEFINE m == [type |-> type, chan |-> f.chan]
    <3>2. m \in Inbound /\ m.chan = f.chan /\ m.type = type
      BY <2>5, <3>1 DEF Inbound, Responses, Ops
    <3>3. inbound' = Append(q, m)
      BY <3>1
    <3> HIDE DEF m
    <3>4. CASE f.chan = c
      <4>1. f.op \in Ops
        BY <2>5, <3>4
      <4>2. \/ /\ p[1].op = "subscribe"
               /\ m.type = IF c \in served THEN "error" ELSE "subscribed"
               /\ srv'.channels = served \cup {c}
            \/ /\ p[1].op = "unsubscribe"
               /\ m.type = IF c \in served THEN "unsubscribed" ELSE "error"
               /\ srv'.channels = served \ {c}
        BY <2>2, <3>1, <3>2, <3>4, <4>1 DEF Ops
      <4> QED
        BY <1>0, <2>2, <3>2, <3>3, <3>4, <4>2, PlacedAfterAnswer
    <3>5. CASE f.chan # c
      <4>1. /\ NoFrame(q, c) => NoFrame(inbound', c)
            /\ NoAnswer(q, c) => NoAnswer(inbound', c)
            /\ AnswerFirst(q, c) => AnswerFirst(inbound', c)
            /\ AnswerLast(q, c) => AnswerLast(inbound', c)
        BY <1>0, <3>2, <3>3, <3>5, FrameArrived
      <4>2. c \in served <=> c \in srv'.channels
        BY <3>1, <3>5
      <4> QED
        BY <2>4, <3>5, <4>1, <4>2, PlacedElsewhere
    <3> QED
      BY <3>4, <3>5
  <2> QED
    BY <1>5, <2>6, <2>7
<1> QED
  BY <1>3, <1>4, <1>5 DEF WriterTask

\* The reader dispatches what the server has sent.
LEMMA ReaderKeepsHandover ==
  ASSUME HandoverPremise, ReaderTask
  PROVE  HandoverInv'
<1>0. /\ IInv /\ ConnectorTypes /\ FrameTypes /\ NothingBetweenSessions
      /\ Pipe \in Seq(SoundFrames) /\ inbound \in Seq(Inbound)
      /\ inHand \in Seq(SoundFrames) /\ writeQueue \in Seq(SoundFrames)
      /\ sm \in [Subs -> Machines]
      /\ \A d \in Channels : chan[d].acquired => /\ chan[d].on_event \in Subs
                                                 /\ Topic[chan[d].on_event] = d
  BY PremiseFacts DEF FrameTypes
<1> SUFFICES ASSUME Healthy' PROVE \A d \in Channels : ChannelPlaced(d)'
  BY DEF HandoverInv
<1>1. ReadFrame
  BY DEF ReaderTask, ReadError, network, Healthy
<1> DEFINE m == Head(inbound)
<1>2. /\ UNCHANGED <<phase, stopping, writer, inHand, srv>>
      /\ reader = "reading" /\ inbound # <<>> /\ inbound' = Tail(inbound)
      /\ m.type # "garbled" /\ (sock' = sock \/ sock' = "closed")
  <2>1. sock' = "open"
    BY DEF Healthy
  <2>2. /\ UNCHANGED <<phase, stopping, writer, inHand, srv>>
        /\ reader = "reading" /\ inbound # <<>> /\ inbound' = Tail(inbound)
    BY <1>1 DEF ReadFrame, AsyncRead
  <2>3. m.type # "garbled"
    BY <1>1, <2>1 DEF ReadFrame, Responses
  <2>4. sock' = sock \/ sock' = "closed"
    BY <1>1 DEF ReadFrame, DropIf
  <2> QED
    BY <2>2, <2>3, <2>4
<1>3. Healthy
  BY <1>2 DEF Healthy, Cancelled
<1>4. \A d \in Channels : Placed(HolderState(d), srv.channels, Pipe, inbound, d)
  BY <1>3 DEF HandoverPremise, HandoverInv, ChannelPlaced
<1>5. m \in Inbound
  BY <1>0, <1>2, InboundFacts
<1>6. ASSUME NEW d \in Channels, d # m.chan
      PROVE  /\ NoFrame(inbound, d) => NoFrame(inbound', d)
             /\ NoAnswer(inbound, d) => NoAnswer(inbound', d)
             /\ AnswerFirst(inbound, d) => AnswerFirst(inbound', d)
             /\ AnswerLast(inbound, d) => AnswerLast(inbound', d)
  BY <1>0, <1>2, <1>6, FrameTaken
<1>7. CASE m.type = "pong"
  <2>1. UNCHANGED <<vars, writeQueue>>
    BY <1>1, <1>7 DEF ReadFrame, Responses
  <2>2. m.chan \notin Channels
    BY <1>5, <1>7, NoneAssumption DEF Inbound, Responses
  <2> SUFFICES ASSUME NEW d \in Channels PROVE ChannelPlaced(d)'
    OBVIOUS
  <2>3. HolderState(d)' = HolderState(d) /\ Pipe' = Pipe /\ UNCHANGED srv
    BY <1>2, <2>1 DEF HolderState, Pipe, vars
  <2>4. Placed(HolderState(d), srv.channels, Pipe, inbound', d)
    BY <1>4, <1>6, <2>2, PlacedElsewhere
  <2> QED
    BY <2>3, <2>4 DEF ChannelPlaced
<1>8. CASE m.type # "pong"
  <2>1. PICK c \in Channels, e \in Responses :
          c = m.chan /\ e = m.type /\ e \in Events /\ Response(c, e)
    BY <1>0, <1>1, <1>2, <1>8, InboundFacts DEF ReadFrame
  <2>2. PICK frames \in Orders(FramesOn({c}, e)) : writeQueue' = writeQueue \o frames
    BY <1>1, <1>2, <1>8, <2>1 DEF ReadFrame
  <2> DEFINE h   == chan[c].on_event
             ops == ProcessEvent(sm[h], e).sends
  <2>3. \/ /\ e \in Unsolicited /\ HolderState(c) \in {"opening", "open", "closing"}
           /\ Placed(HolderState(c), srv.channels, Pipe, inbound', c)
        \/ /\ e = "subscribed" /\ HolderState(c) = "opening"
           /\ Placed("open", srv.channels, Pipe, inbound', c)
        \/ /\ e = "unsubscribed" /\ HolderState(c) = "closing"
           /\ Placed("closed", srv.channels, Pipe, inbound', c)
    <3>1. Placed(HolderState(c), srv.channels, Pipe, inbound, c) /\ Head(inbound).chan = c
      BY <1>4, <2>1
    <3> QED
      BY <1>0, <1>2, <2>1, <3>1, PlacedAfterRead
  <2>4. chan[c].acquired /\ HolderState(c) = sm[h].state /\ h \in Subs /\ Topic[h] = c
    BY <1>0, <2>1, <2>3 DEF HolderState
  <2>5. /\ UNCHANGED chan /\ sm'[h] = ProcessEvent(sm[h], e).sm
        /\ \A t \in Subs : t # h => sm'[t] = sm[t]
    <3>1. Listeners({c}) = {h}
      BY <2>4 DEF Listeners
    <3> QED
      BY <2>1, <2>4, <3>1 DEF Response, Notify
  <2>6. \A d \in Channels :
          /\ frames \in Seq(SoundFrames)
          /\ d = c /\ ops # <<>> => OneRequest(frames, c, ops[1])
          /\ ~(d = c /\ ops # <<>>) => NoRequest(frames, d)
    <3>1. {c} \subseteq Channels
      BY <2>1
    <3>2. ASSUME NEW d \in Channels
          PROVE  /\ frames \in Seq(SoundFrames)
                 /\ d \in {c} /\ chan[d].acquired
                      /\ ProcessEvent(sm[chan[d].on_event], e).sends # <<>> =>
                    OneRequest(frames, d, ProcessEvent(sm[chan[d].on_event], e).sends[1])
                 /\ ~(d \in {c} /\ chan[d].acquired
                        /\ ProcessEvent(sm[chan[d].on_event], e).sends # <<>>) =>
                    NoRequest(frames, d)
      BY <1>0, <2>1, <2>2, <3>1, ChannelFrames
    <3> QED
      BY <2>1, <2>4, <3>2
  <2>7. Pipe' = Pipe \o frames
    <3>1. frames \in Seq(SoundFrames)
      BY <2>1, <2>6
    <3>2. inHand \o (writeQueue \o frames) = (inHand \o writeQueue) \o frames
      BY <1>0, <3>1, ConcatAssociative
    <3>3. Pipe' = inHand \o (writeQueue \o frames)
      BY <1>2, <2>2 DEF Pipe
    <3> QED
      BY <3>2, <3>3 DEF Pipe
  <2>8. ASSUME NEW d \in Channels, d # c PROVE ChannelPlaced(d)'
    <3>1. HolderState(d)' = HolderState(d)
      BY <1>0, <2>4, <2>5, <2>8 DEF HolderState
    <3>2. /\ NoRequest(Pipe, d) => NoRequest(Pipe', d)
          /\ \A op : OneRequest(Pipe, d, op) => OneRequest(Pipe', d, op)
      BY <1>0, <2>6, <2>7, <2>8, RequestsQueued
    <3>3. Placed(HolderState(d), srv.channels, Pipe', inbound', d)
      <4>1. d # m.chan
        BY <2>1, <2>8
      <4> QED
        BY <1>4, <1>6, <3>2, <4>1, PlacedElsewhere
    <3> QED
      BY <1>2, <3>1, <3>3 DEF ChannelPlaced
  <2>9. ChannelPlaced(c)'
    <3>1. sm[h] \in Machines
      BY <1>0, <2>4
    <3>2. HolderState(c)' = ProcessEvent(sm[h], e).sm.state
      BY <2>4, <2>5 DEF HolderState
    <3>3. CASE ops = <<>>
      <4>1. Pipe' = Pipe
        <5>1. NoRequest(frames, c) /\ frames = <<>>
          <6>1. FramesOn({c}, e) = {}
            <7>1. Listeners({c}) = {h}
              BY <2>4 DEF Listeners
            <7> QED
              BY <3>3, <7>1 DEF FramesOn
          <6>2. IsFiniteSet(FramesOn({c}, e)) /\ frames \in Seq(SoundFrames)
            BY <2>1, <2>6, <6>1, FS_EmptySet
          <6>3. DOMAIN frames = {}
            BY <6>1 DEF Orders
          <6> QED
            BY <2>1, <2>6, <3>3, <6>2, <6>3
        <5> QED
          BY <1>0, <2>7, <5>1, ConcatEmptySeq
      <4>2. Placed(ProcessEvent(sm[h], e).sm.state, srv.channels, Pipe, inbound', c)
        <5> DEFINE st2 == ProcessEvent(sm[h], e).sm.state
        <5>1. /\ sm[h].state \in {"opening", "open", "closing"} /\ e \in Unsolicited =>
                   st2 = sm[h].state
              /\ sm[h].state = "opening" /\ e = "subscribed" => st2 = "open"
              /\ sm[h].state = "closing" /\ e = "unsubscribed" => st2 = "closed"
          BY <2>1, <3>1, <3>3, ResponseFacts
        <5> HIDE DEF st2
        <5>2. Placed(st2, srv.channels, Pipe, inbound', c)
          BY <2>3, <2>4, <5>1
        <5> QED
          BY <5>2 DEF st2
      <4>3. Placed(HolderState(c)', srv'.channels, Pipe', inbound', c)
        BY <1>2, <3>2, <4>1, <4>2
      <4> QED
        BY <4>3 DEF ChannelPlaced
    <3>4. CASE ops # <<>>
      <4>1. /\ e = "subscribed" /\ ops = <<"unsubscribe">>
            /\ ProcessEvent(sm[h], e).sm.state = "closing"
            /\ Placed("open", srv.channels, Pipe, inbound', c)
        <5>1. PICK k : k = sm[h]
          OBVIOUS
        <5>2. PICK after : after = ProcessEvent(k, e)
          OBVIOUS
        <5>3. k \in Machines /\ HolderState(c) = k.state /\ ops = after.sends
          BY <2>4, <3>1, <5>1, <5>2
        <5> HIDE DEF h, ops
        <5>4. /\ k.state \in {"opening", "open", "closing"} /\ e \in Unsolicited => after.sends = <<>>
              /\ k.state = "opening" /\ e = "subscribed" =>
                   \/ after.sends = <<>>
                   \/ after.sm.state = "closing" /\ after.sends = <<"unsubscribe">>
              /\ k.state = "closing" /\ e = "unsubscribed" => after.sends = <<>>
          BY <2>1, <5>2, <5>3, ResponseFacts
        <5>5. e = "subscribed" /\ k.state = "opening"
          BY <2>3, <3>4, <5>3, <5>4
        <5>6. after.sm.state = "closing" /\ ops = <<"unsubscribe">>
          BY <3>4, <5>3, <5>4, <5>5
        <5>7. Placed("open", srv.channels, Pipe, inbound', c)
          BY <2>3, <5>5 DEF Unsolicited
        <5> QED
          BY <5>1, <5>2, <5>5, <5>6, <5>7
      <4>2. OneRequest(frames, c, "unsubscribe") /\ frames \in Seq(SoundFrames)
        <5> HIDE DEF ops
        <5>1. ops[1] = "unsubscribe"
          BY <4>1
        <5> QED
          BY <2>1, <2>6, <3>4, <5>1
      <4>3. Placed("closing", srv.channels, Pipe', inbound', c)
        BY <1>0, <2>7, <4>1, <4>2, PlacedAfterRefusal
      <4> QED
        BY <1>2, <3>2, <4>1, <4>3 DEF ChannelPlaced
    <3> QED
      BY <3>3, <3>4
  <2> QED
    BY <2>8, <2>9
<1> QED
  BY <1>7, <1>8

\* A ping is about no channel.
LEMMA PingerKeepsHandover ==
  ASSUME HandoverPremise, PingerTask
  PROVE  HandoverInv'
<1>0. /\ FrameTypes /\ Pipe \in Seq(SoundFrames)
      /\ inHand \in Seq(SoundFrames) /\ writeQueue \in Seq(SoundFrames)
  BY PremiseFacts DEF FrameTypes
<1>1. UNCHANGED <<vars, phase, stopping, sock, reader, writer, inHand, inbound, srv>>
  BY DEF PingerTask, PushPing, PongArrives, PongTimeout, network
<1>2. /\ Healthy' => Healthy
      /\ \A c \in Channels : HolderState(c)' = HolderState(c)
  BY <1>1 DEF HolderState, vars, Healthy, Cancelled
<1>3. CASE UNCHANGED writeQueue
  BY <1>1, <1>2, <1>3, UntouchedHandover DEF Pipe, HandoverPremise
<1>4. CASE PushPing
  <2> DEFINE ping == Frame("ping", None)
  <2>1. ping \in SoundFrames /\ ping.chan \notin Channels
    BY FrameFacts, NoneAssumption DEF Frame
  <2>2. writeQueue' = Append(writeQueue, ping)
    BY <1>4 DEF PushPing
  <2> HIDE DEF ping
  <2>3. Pipe' = Append(Pipe, ping)
    BY <1>0, <1>1, <2>1, <2>2, PipeFacts DEF Pipe
  <2> SUFFICES ASSUME NEW c \in Channels, Placed(HolderState(c), srv.channels, Pipe, inbound, c)
               PROVE  Placed(HolderState(c), srv.channels, Pipe', inbound, c)
    BY <1>1, <1>2 DEF HandoverInv, ChannelPlaced, HandoverPremise
  <2>4. /\ NoRequest(Pipe, c) => NoRequest(Pipe', c)
        /\ \A op : OneRequest(Pipe, c, op) => OneRequest(Pipe', c, op)
    BY <1>0, <2>1, <2>3, RequestAppended
  <2> QED
    BY <2>4, PlacedElsewhere
<1> QED
  BY <1>3, <1>4 DEF PingerTask, PongArrives, PongTimeout

\* The stop signal, the application, the network and the server.
LEMMA OutsideKeepsHandover ==
  ASSUME HandoverPremise,
         StopConnector \/ UserDrop \/ ServerData \/ ServerFault \/ NetworkFail \/ PeerCloses
  PROVE  HandoverInv'
<1>0. /\ FrameTypes /\ inbound \in Seq(Inbound) /\ srv.channels \subseteq Channels
  BY PremiseFacts DEF FrameTypes, ServerStates
<1>1. CASE StopConnector \/ UserDrop \/ NetworkFail \/ PeerCloses
  <2>1. ~Healthy'
    BY <1>1 DEF StopConnector, UserDrop, NetworkFail, PeerCloses, Healthy, Cancelled
  <2> QED
    BY <2>1 DEF HandoverInv
<1>2. CASE ServerData \/ ServerFault
  <2>1. UNCHANGED <<vars, phase, stopping, sock, reader, writer, inHand, writeQueue, srv>>
    BY <1>2 DEF ServerData, ServerFault, Environment, session
  <2>2. /\ Healthy' => Healthy
        /\ \A c \in Channels : HolderState(c)' = HolderState(c)
        /\ Pipe' = Pipe
    BY <2>1 DEF HolderState, vars, Healthy, Cancelled, Pipe
  <2>3. PICK m \in Inbound : /\ inbound' = Append(inbound, m)
                             /\ \/ m.chan \in srv.channels /\ m.type \in Unsolicited
                                \/ m.chan = None
    <3>1. CASE \E c \in srv.channels, t \in Unsolicited :
                 inbound' = Append(inbound, [type |-> t, chan |-> c])
      <4>1. PICK c \in srv.channels, t \in Unsolicited :
              inbound' = Append(inbound, [type |-> t, chan |-> c])
        BY <3>1
      <4>2. [type |-> t, chan |-> c] \in Inbound
        BY <1>0, <4>1 DEF Inbound, Unsolicited, Responses
      <4> QED
        BY <4>1, <4>2
    <3>2. CASE inbound' = Append(inbound, [type |-> "garbled", chan |-> None])
      <4>1. [type |-> "garbled", chan |-> None] \in Inbound
        BY DEF Inbound
      <4> QED
        BY <3>2, <4>1
    <3> QED
      BY <1>2, <3>1, <3>2 DEF ServerData, ServerFault, Environment, Unsolicited
  <2> SUFFICES ASSUME NEW c \in Channels, Placed(HolderState(c), srv.channels, Pipe, inbound, c)
               PROVE  Placed(HolderState(c), srv.channels, Pipe, inbound', c)
    BY <2>1, <2>2 DEF HandoverInv, ChannelPlaced, HandoverPremise
  <2>4. CASE m.chan = c
    <3>1. c \in srv.channels /\ m.type \in Unsolicited
      BY <2>3, <2>4, NoneAssumption
    <3> QED
      BY <1>0, <2>3, <3>1, PlacedAfterData
  <2>5. CASE m.chan # c
    <3>1. /\ NoFrame(inbound, c) => NoFrame(inbound', c)
          /\ NoAnswer(inbound, c) => NoAnswer(inbound', c)
          /\ AnswerFirst(inbound, c) => AnswerFirst(inbound', c)
          /\ AnswerLast(inbound, c) => AnswerLast(inbound', c)
      BY <1>0, <2>3, <2>5, FrameArrived
    <3> QED
      BY <3>1, PlacedElsewhere
  <2> QED
    BY <2>4, <2>5
<1> QED
  BY <1>1, <1>2

LEMMA HandoverStep ==
  ASSUME HandoverPremise, [ConnectorNext]_allVars
  PROVE  HandoverInv'
<1>0. IInv /\ SoleHolder /\ NoOvertaking
  BY DEF HandoverPremise, ConnectorInv
<1>1. ASSUME NEW s \in Subs,
             CreateSubscription(s) \/ StopSubscription(s) \/ SubscriptionTask(s)
      PROVE  HandoverInv'
  <2>1. CASE RunStart(s)
    BY <1>0, <2>1, SegmentShapes, SegmentQueues, SegmentTurns, RunKeepsHandover
       DEF RunStart, Start
  <2>2. CASE RunWake(s)
    <3>1. pc[s] = "waiting"
      BY <2>2 DEF RunWake, Wake, Woken
    <3> QED
      BY <1>0, <2>2, <3>1, SegmentShapes, SegmentQueues, SegmentTurns, RunKeepsHandover
         DEF RunWake, Wake
  <2>3. CASE RunStopSeen(s)
    BY <1>0, <2>3, SegmentShapes, SegmentQueues, SegmentTurns, RunKeepsHandover
       DEF RunStopSeen, StopSeen
  <2>4. CASE RunDrained(s)
    BY <1>0, <2>4, SegmentShapes, SegmentQueues, SegmentTurns, RunKeepsHandover
       DEF RunDrained, Drained
  <2> QED
    BY <1>1, <2>1, <2>2, <2>3, <2>4, OthersKeepHandover DEF SubscriptionTask
<1>2. CASE Reconnect \/ GroupDone \/ StoppedInDelay
  <2>1. reader' = "off"
    BY <1>2, PremiseFacts DEF Reconnect, GroupDone, TearDown, StoppedInDelay, session,
                              NothingBetweenSessions
  <2> QED
    BY <2>1 DEF HandoverInv, Healthy
<1>3. CASE UNCHANGED allVars
  <2>1. \A c \in Channels : HolderState(c)' = HolderState(c)
    BY <1>3 DEF HolderState, allVars, vars
  <2> QED
    BY <1>3, <2>1, UntouchedHandover DEF allVars, cvars, Healthy, Cancelled, Pipe, HandoverPremise
<1> QED
  BY <1>1, <1>2, <1>3, AnnounceKeepsHandover, WriterKeepsHandover, ReaderKeepsHandover,
     PingerKeepsHandover, OutsideKeepsHandover DEF ConnectorNext, MainTask

----------------------------------------------------------------------------
(* The theorems.                                                           *)

LEMMA InitHandover == ConnectorInit => SoleHolder /\ HandoverInv
BY DEF ConnectorInit, Init, SoleHolder, Live, HandoverInv, Healthy

\* As long as nobody overtakes a woken waiter, the channels stay in their places.
LEMMA HandoverInvariance ==
  ConnectorSpec /\ []NoOvertaking => [](ConnectorInv /\ SoleHolder /\ HandoverInv)
<1>1. ConnectorInv /\ SoleHolder /\ NoOvertaking /\ HandoverInv /\ [ConnectorNext]_allVars
        => SoleHolder' /\ HandoverInv'
  BY HandoverStep, StepSoleHolder, SubscriptionsStep DEF HandoverPremise, ConnectorInv, ConnInv
<1> QED
  BY <1>1, InitHandover, ConnectorInvariance, PTL DEF ConnectorSpec

\* What the places of the channels say of them.
LEMMA PlacesAreProper ==
  ASSUME ConnectorInv, HandoverInv
  PROVE  NoOrphanSubscription /\ HandoverClean
<1>1. NoOrphanSubscription
  <2> SUFFICES ASSUME Healthy, NEW c \in srv.channels
               PROVE  /\ chan[c].acquired
                      /\ sm[chan[c].on_event].state \in {"opening", "open", "closing"}
    BY DEF NoOrphanSubscription
  <2>1. c \in Channels
    BY DEF ConnectorInv, ConnInv, ConnectorTypes, FrameTypes, ServerStates
  <2>2. HolderState(c) \in {"opening", "open", "closing"}
    BY <2>1 DEF HandoverInv, ChannelPlaced, Placed, Idle, Asking, Answered, Ignored, Serving,
                Leaving, Left
  <2> QED
    BY <2>2 DEF HolderState
<1>2. HandoverClean
  <2> SUFFICES ASSUME Healthy, NEW c \in Channels, chan[c].acquired,
                      sm[chan[c].on_event].state = "opening",
                      NEW i \in DOMAIN inbound, inbound[i].chan = c,
                      \A j \in 1 .. i - 1 : inbound[j].chan # c
               PROVE  inbound[i].type = "subscribed"
    BY DEF HandoverClean
  <2>1. HolderState(c) = "opening" /\ ~NoFrame(inbound, c)
    BY DEF HolderState, NoFrame
  <2>2. AnswerFirst(inbound, c)
    BY <2>1 DEF HandoverInv, ChannelPlaced, Placed, Idle, Asking, Answered, Ignored, Serving,
                Leaving, Left
  <2>3. PICK k \in DOMAIN inbound :
          /\ inbound[k].chan = c /\ inbound[k].type = "subscribed"
          /\ \A j \in DOMAIN inbound : j # k /\ inbound[j].chan = c => j > k
    BY <2>2 DEF AnswerFirst
  <2>4. DOMAIN inbound = 1 .. Len(inbound) /\ Len(inbound) \in Nat
    BY DEF ConnectorInv, ConnInv, ConnectorTypes, FrameTypes
  <2>5. ~(k \in 1 .. i - 1)
    BY <2>3
  <2> QED
    BY <2>3, <2>4, <2>5
<1> QED
  BY <1>1, <1>2

\* A channel the server sends data for has a subscription that listens to it and
\* will unsubscribe, through every handover in which no newcomer overtakes a
\* woken waiter (run(), lines 64 to 76).
THEOREM NoChannelIsOrphaned ==
  ConnectorSpec /\ []NoOvertaking => []NoOrphanSubscription
<1>1. ConnectorInv /\ SoleHolder /\ HandoverInv => NoOrphanSubscription
  BY PlacesAreProper
<1> QED
  BY <1>1, HandoverInvariance, PTL

\* ... and the next subscription of a channel never reads what the server sent
\* to the one before it.
THEOREM HandoversAreClean ==
  ConnectorSpec /\ []NoOvertaking => []HandoverClean
<1>1. ConnectorInv /\ SoleHolder /\ HandoverInv => HandoverClean
  BY PlacesAreProper
<1> QED
  BY <1>1, HandoverInvariance, PTL

\* Two contenders for a channel never overtake each other.
THEOREM TwoContendersHandOver ==
  ASSUME TwoContenders
  PROVE  ConnectorSpec => [](NoOrphanSubscription /\ HandoverClean)
<1>1. IInv /\ PairInv => NoOvertaking
  BY NobodyOvertakes DEF PairInv
<1>2. ConnectorSpec => []NoOvertaking
  BY <1>1, SubscriptionsOfConnector, PairInvariance, PTL
<1> QED
  BY <1>2, NoChannelIsOrphaned, HandoversAreClean, PTL
=============================================================================
