--------------------------- MODULE MCFtxConnector ---------------------------
(* Two subscriptions share the one channel of an authenticated connector. *)
EXTENDS FtxConnector, TLC

CONSTANTS s1, s2, c1

MCSubs     == {s1, s2}
MCChannels == {c1}
MCTopic    == [s \in MCSubs |-> c1]

\* The subscriptions differ in nothing but their name.
Symmetry == Permutations(MCSubs)
=============================================================================
