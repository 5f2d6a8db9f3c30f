-------------------------------- MODULE Url --------------------------------
(***************************************************************************)
(* decode_url(): the parts that the connector needs of a url.  A url is a  *)
(* scheme and the sequence of the tokens that follow its "://"; a token is *)
(* a delimiter or a word.  Schemes are compared without regard to case,    *)
(* so that one stands for all its spellings.                               *)
(***************************************************************************)
EXTENDS Naturals, Sequences, FiniteSetsExt

Invalid == [transport |-> "invalid"]  \* an exception
Blank   == " "

----------------------------------------------------------------------------
(* The regular expression.  Each of its parts is greedy and starts where   *)
(* the one before it ends.  The last one takes whatever is not blank, so   *)
(* that only a blank or an empty host makes the match fail, and no part    *)
(* ever gives back what it took.                                           *)

\* How many tokens of s, from the i-th on, are not in stops: `[^stops]*`.
Run(s, i, stops) ==
  Min({n \in 0 .. (Len(s) - i + 1) : i + n > Len(s) \/ s[i + n] \in stops})

\* The same as tokens, and how many `t?` takes.
Taken(s, i, stops) == SubSeq(s, i, i + Run(s, i, stops) - 1)

Optional(s, i, t) == IF i <= Len(s) /\ s[i] = t THEN 1 ELSE 0

\* A port that runs over the path, a plausible slip in the expression.
CrackOverPath(s) ==
  LET h == 1 + Run(s, 1, {"/", Blank, ":"})
      p == h + Optional(s, h, ":")
  IN  [host |-> Taken(s, 1, {"/", Blank, ":"}), port |-> Taken(s, p, {Blank}),
       path |-> <<>>, query |-> <<>>, fragment |-> <<>>]

\* (scheme)://([^/ :]+):?([^/ ]*)(/?[^ #?]*)\x3f?([^ #]*)#?([^ ]*)
Crack(s) ==
  LET h == 1 + Run(s, 1, {"/", Blank, ":"})
      p == h + Optional(s, h, ":")
      a == p + Run(s, p, {"/", Blank})
      q == a + Run(s, a, {Blank, "#", "?"})
      y == q + Optional(s, q, "?")
      f == y + Run(s, y, {Blank, "#"})
  IN  [host     |-> Taken(s, 1, {"/", Blank, ":"}),
       port     |-> Taken(s, p, {"/", Blank}),
       path     |-> Taken(s, a, {Blank, "#", "?"}),
       query    |-> Taken(s, y, {Blank, "#"}),
       fragment |-> Taken(s, f + Optional(s, f, "#"), {Blank})]

Matches(url) == /\ url.scheme \in {"ws", "wss", "http", "https"}
                /\ Crack(url.rest).host # <<>>
                /\ Blank \notin {url.rest[i] : i \in DOMAIN url.rest}

----------------------------------------------------------------------------

\* A port that is not given is the scheme's service.
DeducePort(scheme, port) ==
  IF port # <<>> THEN port
  ELSE IF scheme \in {"ws", "http"} THEN <<"http">> ELSE <<"https">>

\* The expression requires a scheme: the branches that ask the port are not used.
DeduceTransport(scheme) == IF scheme \in {"ws", "http"} THEN "tcp" ELSE "tls"

BuildTarget(path, query, fragment) ==
  (IF path = <<>> THEN <<"/">> ELSE path)
    \o (IF query = <<>> THEN <<>> ELSE <<"?">> \o query)
    \o (IF fragment = <<>> THEN <<>> ELSE <<"#">> \o fragment)

DecodeUrl(url) ==
  IF ~Matches(url) THEN Invalid
  ELSE LET part == Crack(url.rest)
       IN  [hostname  |-> part.host,
            service   |-> DeducePort(url.scheme, part.port),
            path_etc  |-> BuildTarget(part.path, part.query, part.fragment),
            transport |-> DeduceTransport(url.scheme)]

----------------------------------------------------------------------------
(* The reference: a url is an authority, which ends before the first of /  *)
(* ? and #, and a target.  The authority is a host and, after a colon, a   *)
(* port; in the target an empty query or fragment is as good as none.      *)

First(s, tokens) == Min({i \in 1 .. (Len(s) + 1) : i > Len(s) \/ s[i] \in tokens})

Authority(s) == SubSeq(s, 1, First(s, {"/", "?", "#"}) - 1)

\* The target without a bare "?" or "#" before its fragment or its end.
Target(s) ==
  LET t == SubSeq(s, First(s, {"/", "?", "#"}), Len(s))
      h == First(t, {"#"})
      Bare(u, d) == IF u # <<>> /\ u[Len(u)] = d /\ First(u, {d}) = Len(u)
                      THEN SubSeq(u, 1, Len(u) - 1) ELSE u
      front == Bare(SubSeq(t, 1, h - 1), "?")
      back  == IF h < Len(t) THEN SubSeq(t, h, Len(t)) ELSE <<>>
  IN  IF front = <<>> THEN <<"/">> \o back ELSE front \o back

\* The code looks for the end of the authority at the first / only: a ? or a #
\* before it is taken for a part of the host or of the port.
PlainAuthority(url) == LET e == First(url.rest, {"/", "?", "#"})
                       IN  e > Len(url.rest) \/ url.rest[e] = "/"

\* What a url means.
Reference(url) ==
  LET a == Authority(url.rest)
      c == First(a, {":"})
  IN  IF \/ url.scheme \notin {"ws", "wss", "http", "https"}
         \/ c = 1
         \/ \E i \in DOMAIN url.rest : url.rest[i] = Blank
        THEN Invalid
        ELSE [hostname  |-> SubSeq(a, 1, c - 1),
              service   |-> IF c >= Len(a)
                              THEN <<IF url.scheme \in {"ws", "http"} THEN "http" ELSE "https">>
                              ELSE SubSeq(a, c + 1, Len(a)),
              path_etc  |-> Target(url.rest),
              transport |-> IF url.scheme \in {"wss", "https"} THEN "tls" ELSE "tcp"]
============================================================================
