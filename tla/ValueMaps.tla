----------------------------- MODULE ValueMaps -----------------------------
(***************************************************************************)
(* property_value, property_map and dependency_map.  The maps are handles  *)
(* on shared implementations.  A property map derived from a fixed one is  *)
(* a new layer over the layers of the first, which both share; a dependency *)
(* map is derived by copying.  fix() hands the implementation of a mutable *)
(* map on to a fixed one.                                                  *)
(***************************************************************************)
EXTENDS Integers, FiniteSets, PropertyValue

CONSTANTS Maps,    \* the map objects of the application
          Layers,  \* the implementations they can have; bound
          Slots,   \* the application's own values, not yet in a map
          Names, NoLayer, Absent

\* What a map may contain: a std::any in a dependency map holds any value.
AnyValues == PropertyValues \cup {ShortValue(v) : v \in Values}

ASSUME ConstantsDistinct ==
  /\ NoLayer \notin Layers
  /\ {Absent, Empty, Dangling} \cap Values = {}
  /\ Absent \notin AnyValues
  /\ Absent # Empty /\ Dangling \notin {Absent, Empty}

VARIABLES
  family,   \* "property" or "dependency": which of the two these maps are
  layer,    \* the implementations: the values set in them and their parent_
  state,    \* of each map: "none" (no such object), "mutable" or "fixed"
  impl,     \* impl_ of each map
  slot,     \* the application's values
  heap,     \* the blocks that values have allocated and not freed
  aliased   \* whether a mutable map was ever copied

vars == <<family, layer, state, impl, slot, heap, aliased>>

Blank    == [n \in Names |-> Absent]
NewLayer(parent, map) == [parent |-> parent, map |-> map]
FreeLayer == NewLayer(NoLayer, Blank)

Closed(layers, ls) == \A l \in ls : layers[l].parent \in ls \cup {NoLayer}

\* The implementations that l keeps alive: itself and its ancestors.
Chain(layers, l) ==
  {a \in Layers : \A ls \in SUBSET Layers :
                    l \in ls \cup {NoLayer} /\ Closed(layers, ls) => a \in ls}

Alive(layers, impls) == UNION {Chain(layers, impls[m]) : m \in Maps}

\* An implementation that is never destroyed.
CountedNever(layers, impls) == layers

\* The last shared_ptr destroys what it refers to.
Counted(layers, impls) ==
  [l \in Layers |-> IF l \in Alive(layers, impls) THEN layers[l] ELSE FreeLayer]

\* query(): what the nearest layer that has the name contains under it.
Find(l, n) ==
  LET find[x \in Layers \cup {NoLayer}] ==
        IF x = NoLayer THEN Absent
        ELSE IF layer[x].map[n] # Absent THEN Query(heap, layer[x].map[n])
        ELSE find[layer[x].parent]
  IN find[l]

Content(m) == [n \in Names |-> Find(impl[m], n)]

----------------------------------------------------------------------------
(* Values.  Those of a dependency map are copied into a std::any, which is *)
(* not a property_value: there a value is simply itself.                   *)

Stored(layers, l) == {layers[l].map[n] : n \in Names} \ {Absent}

Held == {slot[s].sbo : s \in Slots} \cup UNION {{pv.sbo : pv \in Stored(layer, l)} : l \in Layers}

AfterSet(pv) == IF family = "property" THEN MovedFrom(pv) ELSE pv

\* slot[s] = property_value(v)
MakeValue(s, v) ==
  /\ v \notin Held
  /\ IF family = "property"
       THEN /\ slot' = [slot EXCEPT ![s] = Constructed(v)]
            /\ heap' = Assigned(Allocated(heap, v), slot[s])
       ELSE slot' = [slot EXCEPT ![s] = ShortValue(v)] /\ UNCHANGED heap
  /\ UNCHANGED <<family, layer, state, impl, aliased>>

DropValue(s) ==
  /\ slot[s] # VoidValue
  /\ slot' = [slot EXCEPT ![s] = VoidValue]
  /\ heap' = Destroyed(heap, {slot[s]})
  /\ UNCHANGED <<family, layer, state, impl, aliased>>

----------------------------------------------------------------------------
(* Maps. *)

\* A map object m comes to life with the implementation l, as `record`.
Construct(m, s, l, record) ==
  /\ state[m] = "none"
  /\ l \in Layers \ Alive(layer, impl)
  /\ state' = [state EXCEPT ![m] = s]
  /\ impl'  = [impl EXCEPT ![m] = l]
  /\ layer' = [layer EXCEPT ![l] = record]
  /\ UNCHANGED <<family, slot, heap, aliased>>

\* A map object that shares the implementation l, or has none.
Share(m, s, l) ==
  /\ state[m] = "none"
  /\ state' = [state EXCEPT ![m] = s]
  /\ impl'  = [impl EXCEPT ![m] = l]
  /\ UNCHANGED <<family, layer, slot, heap>>

CreateMutable(m) == \E l \in Layers : Construct(m, "mutable", l, FreeLayer)

\* A property_map has no implementation until one is given to it.
CreateFixed(m) ==
  IF family = "property"
    THEN Share(m, "fixed", NoLayer) /\ UNCHANGED aliased
    ELSE \E l \in Layers : Construct(m, "fixed", l, FreeLayer)

\* mutate(): a layer over the source's.
Mutate(m, from) ==
  /\ family = "property" /\ state[from] = "fixed"
  /\ \E l \in Layers : Construct(m, "mutable", l, NewLayer(impl[from], Blank))

\* clone(): a copy of the source's implementation.
Clone(m, from) ==
  /\ family = "dependency" /\ state[from] = "fixed" /\ impl[from] # NoLayer
  /\ \E l \in Layers : Construct(m, "mutable", l, layer[impl[from]])

CopyFixed(m, from) ==
  state[from] = "fixed" /\ Share(m, "fixed", impl[from]) /\ UNCHANGED aliased

\* Nothing forbids to copy a mutable_property_map; a mutable_dependency_map
\* cannot be copied.
CopyMutable(m, from) ==
  /\ family = "property" /\ state[from] = "mutable"
  /\ Share(m, "mutable", impl[from])
  /\ aliased' = TRUE

\* A value is emplaced, or moved over the one there is.
Set(m, n, s) ==
  /\ state[m] = "mutable" /\ impl[m] # NoLayer
  /\ layer' = [layer EXCEPT ![impl[m]].map[n] = slot[s]]
  /\ slot'  = [slot EXCEPT ![s] = AfterSet(@)]
  /\ heap'  = IF layer[impl[m]].map[n] = Absent THEN heap
              ELSE Assigned(heap, layer[impl[m]].map[n])
  /\ UNCHANGED <<family, state, impl, aliased>>

\* A fix() that leaves the implementation with the mutable map, too.
FixSharing(m, to) ==
  /\ state[m] = "mutable" /\ state[to] = "none"
  /\ state' = [state EXCEPT ![to] = "fixed"]
  /\ impl'  = [impl EXCEPT ![to] = impl[m]]
  /\ UNCHANGED <<family, layer, slot, heap, aliased>>

\* fix(): the mutable map is left without an implementation.
Fix(m, to) ==
  /\ state[m] = "mutable" /\ state[to] = "none"
  /\ state' = [state EXCEPT ![to] = "fixed"]
  /\ impl'  = [impl EXCEPT ![to] = impl[m], ![m] = NoLayer]
  /\ UNCHANGED <<family, layer, slot, heap, aliased>>

Destroy(m) ==
  /\ state[m] # "none"
  /\ state' = [state EXCEPT ![m] = "none"]
  /\ impl'  = [impl EXCEPT ![m] = NoLayer]
  /\ layer' = Counted(layer, impl')
  /\ heap'  = Destroyed(heap, UNION {Stored(layer, l) : l \in Layers \ Alive(layer, impl')})
  /\ UNCHANGED <<family, slot, aliased>>

----------------------------------------------------------------------------

Init ==
  /\ family \in {"property", "dependency"}
  /\ layer   = [l \in Layers |-> FreeLayer]
  /\ state   = [m \in Maps |-> "none"]
  /\ impl    = [m \in Maps |-> NoLayer]
  /\ slot    = [s \in Slots |-> VoidValue]
  /\ heap    = {}
  /\ aliased = FALSE

Next ==
  \/ \E s \in Slots : DropValue(s) \/ \E v \in Values : MakeValue(s, v)
  \/ \E m \in Maps : CreateMutable(m) \/ CreateFixed(m) \/ Destroy(m)
  \/ \E m, other \in Maps :
       \/ Mutate(m, other) \/ Clone(m, other)
       \/ CopyFixed(m, other) \/ CopyMutable(m, other)
       \/ Fix(m, other)
  \/ \E m \in Maps, n \in Names, s \in Slots : Set(m, n, s)

Spec == Init /\ [][Next]_vars

----------------------------------------------------------------------------

LayerRecords == [parent : Layers \cup {NoLayer}, map : [Names -> AnyValues \cup {Absent}]]

\* The types of the variables; a map has an implementation only while it
\* exists, and an implementation that nobody refers to is gone.
TypeOK ==
  /\ family \in {"property", "dependency"} /\ aliased \in BOOLEAN
  /\ layer \in [Layers -> LayerRecords]
  /\ state \in [Maps -> {"none", "mutable", "fixed"}]
  /\ impl \in [Maps -> Layers \cup {NoLayer}]
  /\ slot \in [Slots -> AnyValues] /\ heap \subseteq Long
  /\ \A m \in Maps : state[m] = "none" => impl[m] = NoLayer
  /\ \A l \in Layers \ Alive(layer, impl) : layer[l] = FreeLayer

\* What a property_value contains has one owner.  It is moved, never copied, from
\* the hands that made it into at most one layer, and every block on the heap
\* belongs to a value and every value to a block: nothing that was set, replaced,
\* moved or shared leaks, dangles or is freed twice (property_value.cpp, the jump
\* tables and operator=; the layers' reference counts).
ContentOwnedOnce ==
  family = "property" =>
    /\ heap = Held \cap Long
    /\ \A v \in Values :
         Cardinality({s \in Slots : slot[s].sbo = v})
           + Cardinality({ln \in Layers \X Names : /\ layer[ln[1]].map[ln[2]] # Absent
                                                   /\ layer[ln[1]].map[ln[2]].sbo = v}) <= 1

\* Shared layers and handed-on implementations are not seen from outside: as
\* long as no mutable map is copied every map is a value of its own; what is
\* set is found, in that map and no other, and a fixed map finds the same
\* values under the same names for all its life.
Promised == INSTANCE FixedMaps WITH
  state   <- [m \in Maps |-> IF state[m] = "mutable" /\ impl[m] = NoLayer
                               THEN "spent" ELSE state[m]],
  content <- [m \in Maps |-> Content(m)]

ImplementsFixedMaps ==
  /\ Promised!Init
  /\ [][~aliased' =>
          /\ Promised!Next \/ UNCHANGED Promised!vars
          /\ \A m \in Maps, n \in Names, s \in Slots :
               Set(m, n, s) => Promised!Put(m, n, Query(heap, slot[s]))]_vars
=============================================================================
