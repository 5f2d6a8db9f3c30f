--------------------------- MODULE PropertyValue ---------------------------
(***************************************************************************)
(* property_value: a buffer and a jump table that knows what is in it.  A  *)
(* content that fits is in the buffer itself; of any other the buffer has  *)
(* the unique_ptr, and the content is a block on the heap.  Every content  *)
(* is an object of its own and stands for the address of its block, too.   *)
(***************************************************************************)
CONSTANTS Values,  \* the objects that property values are made from
          Long,    \* those larger than the buffer
          Empty,   \* what a value without content contains
          Dangling \* what a pointer to a block that was freed leads to

ASSUME LongAssumption == Long \subseteq Values

VoidValue     == [jt |-> "void",  sbo |-> Empty]
ShortValue(v) == [jt |-> "short", sbo |-> v]
LongValue(v)  == [jt |-> "long",  sbo |-> v]

\* construct(): the value ...
Constructed(v) == IF v \in Long THEN LongValue(v) ELSE ShortValue(v)

\* ... and the heap after it.
Allocated(heap, v) == heap \cup ({v} \cap Long)

PropertyValues == {VoidValue} \cup {Constructed(v) : v \in Values}

\* The jump tables' destroy for all of pvs: ~T(), or that of the unique_ptr.
Destroyed(heap, pvs) == heap \ {pv.sbo : pv \in {p \in pvs : p.jt = "long"}}

\* query(): the object at the address that the jump table's info gives.
Query(heap, pv) == IF pv.jt = "long" /\ pv.sbo \notin heap THEN Dangling ELSE pv.sbo

\* A move that leaves its source as it is.
MovedFromKept(pv) == pv

\* The source of a move keeps nothing: its jump table is the void one.
MovedFrom(pv) == VoidValue

\* operator=: the heap after the content of the destination was destroyed.
Assigned(heap, dest) == Destroyed(heap, {dest})
=============================================================================
