---------------------------- MODULE MCValueMaps ----------------------------
(* Three maps of one family over three implementations, two names, a value   *)
(* on the heap and one in its buffer.                                       *)
EXTENDS ValueMaps, TLC

CONSTANTS m1, m2, m3, l1, l2, l3, v1, v2

MCMaps    == {m1, m2, m3}
MCLayers  == {l1, l2, l3}
MCValues  == {v1, v2}
MCSymmetry == Permutations(MCMaps) \cup Permutations(MCLayers)
=============================================================================
