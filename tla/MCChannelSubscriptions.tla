----------------------- MODULE MCChannelSubscriptions -----------------------
(* Three subscriptions contend for one channel; a fourth has its own. *)
EXTENDS ChannelSubscriptions, TLC

CONSTANTS s1, s2, s3, s4, c1, c2

MCSubs     == {s1, s2, s3, s4}
MCChannels == {c1, c2}
MCTopic    == [s \in MCSubs |-> IF s = s4 THEN c2 ELSE c1]

\* The contenders differ in nothing but their name.
Symmetry == Permutations({s1, s2, s3})
=============================================================================
