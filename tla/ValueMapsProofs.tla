-------------------------- MODULE ValueMapsProofs --------------------------
(***************************************************************************)
(* Proofs that what a map contains has one owner, for any values, maps,    *)
(* implementations and names, and that shared and handed-on                *)
(* implementations are not seen from outside.                              *)
(***************************************************************************)
EXTENDS ValueMaps, FiniteSetTheorems, WellFoundedInduction, TLAPS

----------------------------------------------------------------------------
(* Values. *)

\* What a value contains and where it is; where nothing is, there is no value.
LEMMA ValueFacts ==
  /\ \A v \in Values : /\ Constructed(v) \in PropertyValues /\ Constructed(v).sbo = v
                       /\ ShortValue(v) \in AnyValues /\ ShortValue(v).sbo = v
                       /\ ShortValue(v).jt = "short"
  /\ VoidValue \in PropertyValues /\ VoidValue.sbo = Empty /\ VoidValue.jt = "void"
  /\ PropertyValues \subseteq AnyValues /\ Absent \notin AnyValues /\ Empty \notin Values
  /\ \A pv \in PropertyValues : pv.jt = "long" <=> pv.sbo \in Long
  /\ \A pv \in AnyValues : pv.sbo \in Values \cup {Empty}
<1>1. Absent \notin AnyValues /\ Empty \notin Values /\ Empty \notin Long
  BY LongAssumption, ConstantsDistinct
<1>2. /\ VoidValue \in PropertyValues /\ VoidValue.sbo = Empty /\ VoidValue.jt = "void"
      /\ PropertyValues \subseteq AnyValues
  BY DEF VoidValue, PropertyValues, AnyValues
<1>3. ASSUME NEW v \in Values
      PROVE  /\ Constructed(v) \in PropertyValues /\ Constructed(v).sbo = v
             /\ Constructed(v).jt = "long" <=> v \in Long
             /\ ShortValue(v) \in AnyValues /\ ShortValue(v).sbo = v
             /\ ShortValue(v).jt = "short"
  <2>1. /\ Constructed(v) \in PropertyValues
        /\ ShortValue(v) \in AnyValues
    BY DEF PropertyValues, AnyValues
  <2> QED
    BY <2>1 DEF Constructed, ShortValue, LongValue
<1>4. \A pv \in PropertyValues : pv.jt = "long" <=> pv.sbo \in Long
  BY <1>1, <1>2, <1>3 DEF PropertyValues
<1>5. \A pv \in AnyValues : pv.sbo \in Values \cup {Empty}
  BY <1>2, <1>3 DEF PropertyValues, AnyValues
<1> QED
  BY <1>1, <1>2, <1>3, <1>4, <1>5

\* A jump table frees the block that its value has, and no other.
LEMMA DestroyedFacts ==
  ASSUME NEW blocks, NEW pvs \in SUBSET PropertyValues, NEW v
  PROVE  v \in Destroyed(blocks, pvs) <=>
           v \in blocks /\ ~(v \in Long /\ \E pv \in pvs : pv.sbo = v)
BY ValueFacts DEF Destroyed

----------------------------------------------------------------------------
(* Who owns what a value contains. *)

InSlot(s, v) == slot[s].sbo = v

InLayer(l, n, v) == layer[l].map[n] # Absent /\ layer[l].map[n].sbo = v

\* A dependency map holds values as they are, a property map property_values.
Kinds ==
  IF family = "property"
    THEN /\ slot \in [Slots -> PropertyValues]
         /\ \A l \in Layers, n \in Names : layer[l].map[n] \in PropertyValues \cup {Absent}
    ELSE /\ \A s \in Slots : slot[s].jt # "long"
         /\ \A l \in Layers, n \in Names : layer[l].map[n] # Absent => layer[l].map[n].jt # "long"

OneOwner ==
  \A v \in Values :
    /\ \A s, t \in Slots : InSlot(s, v) /\ InSlot(t, v) => s = t
    /\ \A k, l \in Layers, n, o \in Names : InLayer(k, n, v) /\ InLayer(l, o, v) => k = l /\ n = o
    /\ \A s \in Slots, l \in Layers, n \in Names : ~(InSlot(s, v) /\ InLayer(l, n, v))

OnHeap ==
  \A v \in Long : v \in heap <=> \/ \E s \in Slots : InSlot(s, v)
                                \/ \E l \in Layers, n \in Names : InLayer(l, n, v)

Ownership == family = "property" => OneOwner /\ OnHeap

\* The blocks on the heap are those of the values that somebody holds.
LEMMA HeldFacts ==
  ASSUME Kinds, family = "property", NEW v \in Values
  PROVE  v \in Held <=> \/ \E s \in Slots : InSlot(s, v)
                        \/ \E l \in Layers, n \in Names : InLayer(l, n, v)
<1>1. v \in Held <=> \/ \E s \in Slots : slot[s].sbo = v
                     \/ \E l \in Layers : \E pv \in Stored(layer, l) : pv.sbo = v
  BY DEF Held
<1>2. \A l \in Layers : (\E pv \in Stored(layer, l) : pv.sbo = v) <=>
                        \E n \in Names : InLayer(l, n, v)
  BY DEF Stored, InLayer
<1> QED
  BY <1>1, <1>2 DEF InSlot

\* One owner at most: a value has one place, or none.
LEMMA OwnershipCounts ==
  ASSUME TypeOK, Kinds, Ownership
  PROVE  ContentOwnedOnce
<1> SUFFICES ASSUME family = "property"
             PROVE  /\ heap = Held \cap Long
                    /\ \A v \in Values :
                         Cardinality({s \in Slots : slot[s].sbo = v})
                           + Cardinality({ln \in Layers \X Names :
                                            /\ layer[ln[1]].map[ln[2]] # Absent
                                            /\ layer[ln[1]].map[ln[2]].sbo = v}) <= 1
  BY DEF ContentOwnedOnce
<1>1. heap = Held \cap Long
  BY HeldFacts, LongAssumption DEF TypeOK, Ownership, OnHeap
<1>2. ASSUME NEW v \in Values
      PROVE  Cardinality({s \in Slots : slot[s].sbo = v})
               + Cardinality({ln \in Layers \X Names :
                                /\ layer[ln[1]].map[ln[2]] # Absent
                                /\ layer[ln[1]].map[ln[2]].sbo = v}) <= 1
  <2> DEFINE A == {s \in Slots : slot[s].sbo = v}
             B == {ln \in Layers \X Names : /\ layer[ln[1]].map[ln[2]] # Absent
                                            /\ layer[ln[1]].map[ln[2]].sbo = v}
  <2>1. \A x, y \in A : x = y
    BY DEF Ownership, OneOwner, InSlot
  <2>2. \A x, y \in B : x = y
    <3> SUFFICES ASSUME NEW x \in B, NEW y \in B PROVE x = y
      OBVIOUS
    <3>1. x[1] \in Layers /\ x[2] \in Names /\ y[1] \in Layers /\ y[2] \in Names
      OBVIOUS
    <3>2. InLayer(x[1], x[2], v) /\ InLayer(y[1], y[2], v)
      BY DEF InLayer
    <3>3. x[1] = y[1] /\ x[2] = y[2]
      BY <3>1, <3>2 DEF Ownership, OneOwner
    <3> QED
      BY <3>3
  <2>3. A = {} \/ B = {}
    <3> SUFFICES ASSUME NEW s \in A, NEW ln \in B PROVE FALSE
      OBVIOUS
    <3>1. InSlot(s, v) /\ InLayer(ln[1], ln[2], v) /\ ln[1] \in Layers /\ ln[2] \in Names
      BY DEF InSlot, InLayer
    <3> QED
      BY <3>1 DEF Ownership, OneOwner
  <2> HIDE DEF A, B
  <2>4. \A S : (\A x, y \in S : x = y) => Cardinality(S) \in {0, 1}
    <3> SUFFICES ASSUME NEW S, \A x, y \in S : x = y PROVE Cardinality(S) \in {0, 1}
      OBVIOUS
    <3>1. CASE S = {}
      BY <3>1, FS_EmptySet
    <3>2. CASE S # {}
      <4>1. PICK x \in S : S = {x}
        BY <3>2
      <4> QED
        BY <4>1, FS_Singleton
    <3> QED
      BY <3>1, <3>2
  <2>5. Cardinality(A) \in {0, 1} /\ Cardinality(B) \in {0, 1} /\ Cardinality({}) = 0
    BY <2>1, <2>2, <2>4, FS_EmptySet
  <2>6. Cardinality(A) + Cardinality(B) <= 1
    BY <2>3, <2>5
  <2> QED
    BY <2>6 DEF A, B
<1> QED
  BY <1>1, <1>2

----------------------------------------------------------------------------
(* What an implementation keeps alive. *)

\* Itself and what its parent keeps alive: the least set that is closed.
LEMMA ChainFacts ==
  ASSUME NEW ly \in [Layers -> LayerRecords], NEW l \in Layers \cup {NoLayer}
  PROVE  /\ Chain(ly, l) \subseteq Layers
         /\ l = NoLayer => Chain(ly, l) = {}
         /\ l # NoLayer => l \in Chain(ly, l)
         /\ Closed(ly, Chain(ly, l))
         /\ \A ls \in SUBSET Layers : Closed(ly, ls) /\ l \in ls \cup {NoLayer} => Chain(ly, l) \subseteq ls
<1>1. /\ Chain(ly, l) \subseteq Layers
      /\ \A ls \in SUBSET Layers : Closed(ly, ls) /\ l \in ls \cup {NoLayer} => Chain(ly, l) \subseteq ls
  BY DEF Chain
<1>2. ASSUME l = NoLayer PROVE Chain(ly, l) = {}
  <2>1. Closed(ly, {})
    BY DEF Closed
  <2> QED
    BY <1>1, <1>2, <2>1
<1>3. ASSUME l # NoLayer PROVE l \in Chain(ly, l)
  BY <1>3 DEF Chain
<1>4. ASSUME NEW x \in Chain(ly, l), ly[x].parent # NoLayer PROVE ly[x].parent \in Chain(ly, l)
  <2>1. x \in Layers /\ ly[x].parent \in Layers
    BY <1>1, <1>4 DEF LayerRecords
  <2> SUFFICES ASSUME NEW ls \in SUBSET Layers, Closed(ly, ls), l \in ls \cup {NoLayer}
               PROVE  ly[x].parent \in ls
    BY <2>1 DEF Chain
  <2>2. x \in ls
    BY <1>1
  <2> QED
    BY <1>4, <2>2 DEF Closed
<1>5. Closed(ly, Chain(ly, l))
  BY <1>4 DEF Closed
<1> QED
  BY <1>1, <1>2, <1>3, <1>5

\* ... and what its parent keeps alive.
LEMMA ChainUnfolds ==
  ASSUME NEW ly \in [Layers -> LayerRecords], NEW l \in Layers
  PROVE  Chain(ly, l) = {l} \cup Chain(ly, ly[l].parent)
<1> DEFINE p == ly[l].parent
<1>1. p \in Layers \cup {NoLayer}
  BY DEF LayerRecords
<1>2. /\ Closed(ly, Chain(ly, p)) /\ Chain(ly, p) \subseteq Layers
      /\ p # NoLayer => p \in Chain(ly, p)
  BY <1>1, ChainFacts
<1>3. /\ Closed(ly, Chain(ly, l)) /\ l \in Layers \cup {NoLayer} /\ Chain(ly, l) \subseteq Layers
      /\ l # NoLayer => l \in Chain(ly, l)
  BY ChainFacts
<1>4. l # NoLayer
  BY ConstantsDistinct
<1>5. Chain(ly, l) \subseteq {l} \cup Chain(ly, p)
  <2>1. Closed(ly, {l} \cup Chain(ly, p))
    BY <1>2 DEF Closed
  <2>2. {l} \cup Chain(ly, p) \in SUBSET Layers
    BY <1>2
  <2> QED
    BY <1>3, <2>1, <2>2, ChainFacts
<1>6. Chain(ly, p) \subseteq Chain(ly, l)
  <2>1. p \in Chain(ly, l) \cup {NoLayer}
    BY <1>3, <1>4 DEF Closed
  <2> QED
    BY <1>1, <1>3, <2>1, ChainFacts
<1> QED
  BY <1>3, <1>4, <1>5, <1>6

\* It stays the same as long as the parents in it do.
LEMMA ChainKept ==
  ASSUME NEW ly \in [Layers -> LayerRecords], NEW ly2 \in [Layers -> LayerRecords],
         NEW l \in Layers \cup {NoLayer},
         \A x \in Chain(ly, l) : ly2[x].parent = ly[x].parent
  PROVE  Chain(ly2, l) = Chain(ly, l)
<1> DEFINE both == Chain(ly, l) \cap Chain(ly2, l)
<1>1. /\ Closed(ly, Chain(ly, l)) /\ Chain(ly, l) \subseteq Layers
      /\ l = NoLayer => Chain(ly, l) = {}
      /\ l # NoLayer => l \in Chain(ly, l)
  BY ChainFacts
<1>2. /\ Closed(ly2, Chain(ly2, l)) /\ Chain(ly2, l) \subseteq Layers
      /\ l = NoLayer => Chain(ly2, l) = {}
      /\ l # NoLayer => l \in Chain(ly2, l)
  BY ChainFacts
<1>3. Closed(ly2, Chain(ly, l)) /\ Closed(ly, both)
  BY <1>1, <1>2 DEF Closed
<1>4. both \in SUBSET Layers /\ l \in both \cup {NoLayer} /\ l \in Chain(ly, l) \cup {NoLayer}
  BY <1>1, <1>2
<1> HIDE DEF both
<1>5. Chain(ly2, l) \subseteq Chain(ly, l)
  BY <1>1, <1>3, <1>4, ChainFacts
<1>6. Chain(ly, l) \subseteq both
  BY <1>3, <1>4, ChainFacts
<1> QED
  BY <1>5, <1>6 DEF both

\* What is not alive is a free layer: so nothing that is alive has been cleared.
Recycled(ly, impls) == \A l \in Layers \ Alive(ly, impls) : ly[l] = FreeLayer

\* An implementation that is not alive can be given to a map that had none.
LEMMA RecycledByConstruct ==
  ASSUME NEW ly \in [Layers -> LayerRecords], NEW impls \in [Maps -> Layers \cup {NoLayer}],
         Recycled(ly, impls), NEW m \in Maps, impls[m] = NoLayer,
         NEW l \in Layers \ Alive(ly, impls), NEW record \in LayerRecords
  PROVE  LET ly2 == [ly EXCEPT ![l] = record]
             impls2 == [impls EXCEPT ![m] = l]
         IN  /\ Recycled(ly2, impls2)
             /\ \A o \in Maps \ {m} : Chain(ly2, impls[o]) = Chain(ly, impls[o]) /\ l \notin Chain(ly, impls[o])
<1> DEFINE ly2 == [ly EXCEPT ![l] = record]
           impls2 == [impls EXCEPT ![m] = l]
<1>1. /\ ly2 \in [Layers -> LayerRecords] /\ ly2[l] = record
      /\ \A x \in Layers \ {l} : ly2[x] = ly[x]
      /\ impls2[m] = l /\ \A o \in Maps \ {m} : impls2[o] = impls[o]
  OBVIOUS
<1> HIDE DEF ly2, impls2
<1>2. \A o \in Maps : l \notin Chain(ly, impls[o])
  BY DEF Alive
<1>3. ASSUME NEW o \in Maps PROVE Chain(ly2, impls[o]) = Chain(ly, impls[o])
  <2>1. impls[o] \in Layers \cup {NoLayer}
    OBVIOUS
  <2>2. \A x \in Chain(ly, impls[o]) : ly2[x].parent = ly[x].parent
    BY <1>1, <1>2, <2>1, ChainFacts
  <2> QED
    BY <1>1, <2>1, <2>2, ChainKept
<1>4. Recycled(ly2, impls2)
  <2> SUFFICES ASSUME NEW x \in Layers, x \notin Alive(ly2, impls2) PROVE ly2[x] = FreeLayer
    BY DEF Recycled
  <2>1. x # l
    <3>1. l \in Chain(ly2, l)
      BY <1>1, ConstantsDistinct, ChainFacts
    <3>2. l \in Alive(ly2, impls2)
      BY <1>1, <3>1 DEF Alive
    <3> QED
      BY <3>2
  <2>2. x \notin Alive(ly, impls)
    <3> SUFFICES ASSUME NEW o \in Maps, x \in Chain(ly, impls[o]) PROVE FALSE
      BY DEF Alive
    <3>1. o # m
      BY ConstantsDistinct, ChainFacts
    <3>2. x \in Chain(ly2, impls2[o])
      BY <1>1, <1>3, <3>1
    <3> QED
      BY <3>2 DEF Alive
  <2> QED
    BY <1>1, <2>1, <2>2 DEF Recycled
<1> QED
  BY <1>2, <1>3, <1>4 DEF ly2, impls2

\* When a map goes, what only it kept alive is cleared.
LEMMA RecycledByDestroy ==
  ASSUME NEW ly \in [Layers -> LayerRecords], NEW impls \in [Maps -> Layers \cup {NoLayer}]
  PROVE  LET ly2 == Counted(ly, impls)
         IN  /\ ly2 \in [Layers -> LayerRecords]
             /\ Recycled(ly2, impls)
             /\ \A l \in Layers : ly2[l] = IF l \in Alive(ly, impls) THEN ly[l] ELSE FreeLayer
             /\ \A o \in Maps : /\ Chain(ly2, impls[o]) = Chain(ly, impls[o])
                                /\ \A x \in Chain(ly, impls[o]) : ly2[x] = ly[x]
<1> DEFINE ly2 == Counted(ly, impls)
<1>1. FreeLayer \in LayerRecords
  BY DEF FreeLayer, NewLayer, Blank, LayerRecords
<1>2. \A l \in Layers : ly2[l] = IF l \in Alive(ly, impls) THEN ly[l] ELSE FreeLayer
  BY DEF Counted
<1>3. ly2 \in [Layers -> LayerRecords]
  BY <1>1 DEF Counted
<1> HIDE DEF ly2
<1>4. ASSUME NEW o \in Maps
      PROVE  /\ Chain(ly2, impls[o]) = Chain(ly, impls[o])
             /\ \A x \in Chain(ly, impls[o]) : ly2[x] = ly[x]
  <2>1. impls[o] \in Layers \cup {NoLayer}
    OBVIOUS
  <2>2. \A x \in Chain(ly, impls[o]) : x \in Layers /\ ly2[x] = ly[x]
    BY <1>2, <2>1, ChainFacts DEF Alive
  <2> QED
    BY <1>3, <2>1, <2>2, ChainKept
<1>5. Alive(ly2, impls) = Alive(ly, impls)
  BY <1>4 DEF Alive
<1>6. Recycled(ly2, impls)
  BY <1>2, <1>5 DEF Recycled
<1> QED
  BY <1>2, <1>3, <1>4, <1>6 DEF ly2

----------------------------------------------------------------------------
(* Every step keeps them. *)

MapsInv == TypeOK /\ Kinds /\ Ownership

\* TypeOK, with its last part named.
LEMMA TypesOfMaps ==
  TypeOK <=> /\ family \in {"property", "dependency"} /\ aliased \in BOOLEAN
             /\ layer \in [Layers -> LayerRecords]
             /\ state \in [Maps -> {"none", "mutable", "fixed"}]
             /\ impl \in [Maps -> Layers \cup {NoLayer}]
             /\ slot \in [Slots -> AnyValues] /\ heap \subseteq Long
             /\ \A m \in Maps : state[m] = "none" => impl[m] = NoLayer
             /\ Recycled(layer, impl)
BY DEF TypeOK, Recycled

LEMMA LayerFacts ==
  /\ FreeLayer \in LayerRecords /\ FreeLayer.map = Blank /\ FreeLayer.parent = NoLayer
  /\ \A n \in Names : Blank[n] = Absent
  /\ \A p \in Layers \cup {NoLayer} : /\ NewLayer(p, Blank) \in LayerRecords
                                      /\ NewLayer(p, Blank).map = Blank
                                      /\ NewLayer(p, Blank).parent = p
  /\ \A r \in LayerRecords : r.parent \in Layers \cup {NoLayer}
                             /\ r.map \in [Names -> AnyValues \cup {Absent}]
BY DEF FreeLayer, NewLayer, Blank, LayerRecords

\* A step that moves no value.
LEMMA ContentsKept ==
  ASSUME Kinds, Ownership, UNCHANGED <<family, slot, heap>>,
         \A l \in Layers, n \in Names : layer'[l].map[n] = layer[l].map[n]
  PROVE  Kinds' /\ Ownership'
<1>1. Kinds'
  BY DEF Kinds
<1>2. /\ \A s \in Slots : \A v : InSlot(s, v)' <=> InSlot(s, v)
      /\ \A l \in Layers, n \in Names : \A v : InLayer(l, n, v)' <=> InLayer(l, n, v)
  BY DEF InSlot, InLayer
<1>3. Ownership'
  BY <1>2 DEF Ownership, OneOwner, OnHeap
<1> QED
  BY <1>1, <1>3

\* The application makes a value, or gives one up.
LEMMA ValuesKeepMaps ==
  ASSUME MapsInv, NEW s \in Slots, NEW v \in Values, MakeValue(s, v) \/ DropValue(s)
  PROVE  MapsInv'
<1>1. /\ UNCHANGED <<family, layer, state, impl, aliased>>
      /\ layer \in [Layers -> LayerRecords] /\ slot \in [Slots -> AnyValues] /\ heap \subseteq Long
  BY TypesOfMaps DEF MapsInv, MakeValue, DropValue
<1>2. CASE family = "property"
  <2>0. slot \in [Slots -> PropertyValues] /\ Kinds
    BY <1>2 DEF MapsInv, Kinds
  <2>1. PICK w \in PropertyValues :
          /\ slot' = [slot EXCEPT ![s] = w]
          /\ \/ w = VoidValue /\ heap' = Destroyed(heap, {slot[s]})
             \/ /\ w = Constructed(v) /\ v \notin Held
                /\ heap' = Destroyed(heap \cup ({v} \cap Long), {slot[s]})
    BY <1>2, ValueFacts DEF MakeValue, DropValue, Assigned, Allocated
  <2>2. /\ slot' \in [Slots -> PropertyValues] /\ slot'[s] = w
        /\ \A t \in Slots \ {s} : slot'[t] = slot[t]
    BY <2>0, <2>1
  <2>3. \A x \in Long : x \in Values /\ x # Empty
    BY LongAssumption, ValueFacts
  <2>4. w.sbo = Empty \/ (w.sbo = v /\ v \notin Held)
    BY <2>1, ValueFacts
  <2>5. \A x \in Long : x \in heap' <=> (x \in heap \/ x = w.sbo) /\ slot[s].sbo # x
    <3> SUFFICES ASSUME NEW x \in Long
                 PROVE  x \in heap' <=> (x \in heap \/ x = w.sbo) /\ slot[s].sbo # x
      OBVIOUS
    <3>1. {slot[s]} \in SUBSET PropertyValues
      BY <2>0
    <3>2. CASE w = VoidValue /\ heap' = Destroyed(heap, {slot[s]})
      <4>1. x # w.sbo
        BY <2>3, <3>2, ValueFacts
      <4> QED
        BY <3>1, <3>2, <4>1, DestroyedFacts
    <3>3. CASE w = Constructed(v) /\ heap' = Destroyed(heap \cup ({v} \cap Long), {slot[s]})
      <4>1. w.sbo = v
        BY <3>3, ValueFacts
      <4>2. x \in heap \cup ({v} \cap Long) <=> x \in heap \/ x = v
        OBVIOUS
      <4> QED
        BY <3>1, <3>3, <4>1, <4>2, DestroyedFacts
    <3> QED
      BY <2>1, <3>2, <3>3
  <2>6. heap' \subseteq Long
    BY <1>1, <2>1 DEF Destroyed
  <2>7. TypeOK'
    BY <1>1, <2>2, <2>6, TypesOfMaps, ValueFacts DEF MapsInv, TypeOK, Recycled
  <2>8. Kinds'
    BY <1>1, <1>2, <2>0, <2>2 DEF Kinds
  <2>9. /\ \A x, l, n : InLayer(l, n, x)' <=> InLayer(l, n, x)
        /\ \A x \in Values, t \in Slots : InSlot(t, x)' <=> IF t = s THEN x = w.sbo ELSE InSlot(t, x)
    BY <1>1, <2>2 DEF InLayer, InSlot
  <2>10. \A x \in Values : x = w.sbo => /\ \A t \in Slots : ~InSlot(t, x)
                                       /\ \A l \in Layers, n \in Names : ~InLayer(l, n, x)
    BY <1>2, <2>0, <2>4, HeldFacts, ValueFacts
  <2>11. OneOwner'
    BY <1>2, <2>9, <2>10 DEF OneOwner, MapsInv, Ownership
  <2>12. OnHeap'
    <3> SUFFICES ASSUME NEW x \in Long
                 PROVE  x \in heap' <=> \/ \E t \in Slots : InSlot(t, x)'
                                        \/ \E l \in Layers, n \in Names : InLayer(l, n, x)'
      BY DEF OnHeap
    <3>1. x \in heap <=> \/ \E t \in Slots : InSlot(t, x)
                         \/ \E l \in Layers, n \in Names : InLayer(l, n, x)
      BY <1>2 DEF OnHeap, MapsInv, Ownership
    <3>2. CASE x = w.sbo
      <4>1. slot[s].sbo # x
        BY <2>3, <2>10, <3>2 DEF InSlot
      <4> QED
        BY <2>3, <2>5, <2>9, <3>2, <4>1
    <3>3. CASE x # w.sbo /\ slot[s].sbo = x
      <4>1. InSlot(s, x) /\ x \in Values
        BY <2>3, <3>3 DEF InSlot
      <4>2. /\ \A t \in Slots \ {s} : ~InSlot(t, x)
            /\ \A l \in Layers, n \in Names : ~InLayer(l, n, x)
        BY <1>2, <4>1 DEF OneOwner, MapsInv, Ownership
      <4> QED
        BY <2>5, <2>9, <3>3, <4>1, <4>2
    <3>4. CASE x # w.sbo /\ slot[s].sbo # x
      <4>1. ~InSlot(s, x) /\ x \in Values
        BY <2>3, <3>4 DEF InSlot
      <4> QED
        BY <2>5, <2>9, <3>1, <3>4, <4>1
    <3> QED
      BY <3>2, <3>3, <3>4
  <2> QED
    BY <2>7, <2>8, <2>11, <2>12 DEF MapsInv, Ownership
<1>3. CASE family = "dependency"
  <2>0. /\ \A t \in Slots : slot[t].jt # "long"
        /\ \A l \in Layers, n \in Names : layer[l].map[n] # Absent => layer[l].map[n].jt # "long"
    BY <1>3 DEF MapsInv, Kinds
  <2>1. PICK w \in AnyValues : slot' = [slot EXCEPT ![s] = w] /\ w.jt # "long"
    BY <1>3, ValueFacts DEF MakeValue, DropValue
  <2>2. slot' \in [Slots -> AnyValues] /\ \A t \in Slots : slot'[t].jt # "long"
    BY <1>1, <2>0, <2>1
  <2>3. heap' \subseteq Long
    BY <1>1, <1>3 DEF MakeValue, DropValue, Destroyed
  <2>4. TypeOK'
    BY <1>1, <2>2, <2>3 DEF MapsInv, TypeOK
  <2>5. Kinds' /\ Ownership'
    BY <1>1, <1>3, <2>0, <2>2 DEF Kinds, Ownership
  <2> QED
    BY <2>4, <2>5 DEF MapsInv
<1> QED
  BY <1>2, <1>3 DEF MapsInv, TypeOK

\* A map comes to life with an implementation of its own.
LEMMA ConstructKeepsMaps ==
  ASSUME MapsInv, NEW m \in Maps, NEW st \in {"mutable", "fixed"}, NEW l \in Layers,
         NEW record \in LayerRecords, Construct(m, st, l, record),
         \/ record.map = Blank
         \/ family = "dependency" /\ \E k \in Layers : record = layer[k]
  PROVE  MapsInv'
<1>1. /\ state[m] = "none" /\ l \in Layers \ Alive(layer, impl)
      /\ state' = [state EXCEPT ![m] = st] /\ impl' = [impl EXCEPT ![m] = l]
      /\ layer' = [layer EXCEPT ![l] = record]
      /\ UNCHANGED <<family, slot, heap, aliased>>
  BY DEF Construct
<1>2. /\ layer \in [Layers -> LayerRecords] /\ impl \in [Maps -> Layers \cup {NoLayer}]
      /\ state \in [Maps -> {"none", "mutable", "fixed"}] /\ impl[m] = NoLayer
      /\ Recycled(layer, impl)
  BY <1>1, TypesOfMaps DEF MapsInv
<1>3. Recycled(layer', impl')
  BY <1>1, <1>2, RecycledByConstruct
<1>4. TypeOK'
  BY <1>1, <1>2, <1>3 DEF MapsInv, TypeOK, Recycled
<1>5. CASE record.map = Blank
  <2>1. layer[l] = FreeLayer
    BY <1>1, <1>2 DEF Recycled
  <2>2. \A k \in Layers, n \in Names : layer'[k].map[n] = layer[k].map[n]
    BY <1>1, <1>2, <1>5, <2>1, LayerFacts
  <2> QED
    BY <1>1, <1>4, <2>2, ContentsKept DEF MapsInv
<1>6. CASE family = "dependency" /\ \E k \in Layers : record = layer[k]
  <2>1. \A k \in Layers : \E o \in Layers : layer'[k] = layer[o]
    BY <1>1, <1>2, <1>6
  <2>2. Kinds' /\ Ownership'
    BY <1>1, <1>6, <2>1 DEF MapsInv, Kinds, Ownership
  <2> QED
    BY <1>4, <2>2 DEF MapsInv
<1> QED
  BY <1>5, <1>6

\* A map comes to life with another's implementation, or without one, or takes
\* over that of a map which is left without.
LEMMA SharingKeepsMaps ==
  ASSUME MapsInv, UNCHANGED <<family, layer, slot, heap>>, aliased' \in BOOLEAN,
         state' \in [Maps -> {"none", "mutable", "fixed"}], impl' \in [Maps -> Layers \cup {NoLayer}],
         \A m \in Maps : state'[m] = "none" => impl'[m] = NoLayer,
         \A m \in Maps : impl[m] = NoLayer \/ \E o \in Maps : impl'[o] = impl[m]
  PROVE  MapsInv'
<1>1. layer \in [Layers -> LayerRecords] /\ Recycled(layer, impl)
  BY TypesOfMaps DEF MapsInv
<1>2. Alive(layer, impl) \subseteq Alive(layer, impl')
  <2>1. ASSUME NEW m \in Maps PROVE Chain(layer, impl[m]) \subseteq Alive(layer, impl')
    <3>1. CASE impl[m] = NoLayer
      BY <1>1, <3>1, ChainFacts
    <3>2. CASE \E o \in Maps : impl'[o] = impl[m]
      BY <3>2 DEF Alive
    <3> QED
      BY <3>1, <3>2
  <2> QED
    BY <2>1 DEF Alive
<1>3. Recycled(layer, impl')
  BY <1>1, <1>2 DEF Recycled
<1>4. TypeOK'
  BY <1>3 DEF MapsInv, TypeOK, Recycled
<1>5. Kinds' /\ Ownership'
  BY ContentsKept DEF MapsInv
<1> QED
  BY <1>4, <1>5 DEF MapsInv

\* A value is moved into a map, over the one that was there.
LEMMA SetKeepsMaps ==
  ASSUME MapsInv, NEW m \in Maps, NEW name \in Names, NEW s \in Slots, Set(m, name, s)
  PROVE  MapsInv'
<1> DEFINE top == impl[m]
           old == layer[top].map[name]
<1>1. /\ UNCHANGED <<family, state, impl, aliased>>
      /\ layer \in [Layers -> LayerRecords] /\ slot \in [Slots -> AnyValues]
      /\ heap \subseteq Long /\ top \in Layers /\ Recycled(layer, impl)
      /\ impl \in [Maps -> Layers \cup {NoLayer}]
  BY TypesOfMaps DEF MapsInv, Set
<1>2. /\ layer' = [layer EXCEPT ![top].map[name] = slot[s]]
      /\ slot' = [slot EXCEPT ![s] = AfterSet(slot[s])]
      /\ heap' = IF old = Absent THEN heap ELSE Destroyed(heap, {old})
  BY DEF Set, Assigned
<1>3. /\ layer' \in [Layers -> LayerRecords]
      /\ \A l \in Layers : layer'[l].parent = layer[l].parent
      /\ \A l \in Layers, n \in Names :
           layer'[l].map[n] = IF l = top /\ n = name THEN slot[s] ELSE layer[l].map[n]
      /\ \A l \in Layers \ {top} : layer'[l] = layer[l]
  <2> DEFINE r == [layer[top] EXCEPT !.map[name] = slot[s]]
  <2>1. layer[top] \in LayerRecords /\ slot[s] \in AnyValues
    BY <1>1
  <2>2. /\ r \in LayerRecords /\ r.parent = layer[top].parent
        /\ \A n \in Names : r.map[n] = IF n = name THEN slot[s] ELSE layer[top].map[n]
    BY <2>1 DEF LayerRecords
  <2>3. layer' = [layer EXCEPT ![top] = r]
    BY <1>1, <1>2
  <2> HIDE DEF r, top
  <2> QED
    BY <1>1, <2>2, <2>3
<1>4. \A o \in Maps : Chain(layer', impl[o]) = Chain(layer, impl[o])
  <2> SUFFICES ASSUME NEW o \in Maps PROVE Chain(layer', impl[o]) = Chain(layer, impl[o])
    OBVIOUS
  <2>1. impl[o] \in Layers \cup {NoLayer}
    BY <1>1
  <2>2. \A x \in Chain(layer, impl[o]) : layer'[x].parent = layer[x].parent
    BY <1>1, <1>3, <2>1, ChainFacts
  <2> QED
    BY <1>1, <1>3, <2>1, <2>2, ChainKept
<1>5. Recycled(layer', impl')
  <2>1. top \in Alive(layer, impl)
    BY <1>1, ConstantsDistinct, ChainFacts DEF Alive
  <2>2. Alive(layer', impl') = Alive(layer, impl)
    BY <1>1, <1>4 DEF Alive
  <2> QED
    BY <1>1, <1>3, <2>1, <2>2 DEF Recycled
<1> HIDE DEF top, old
<1>6. CASE family = "property"
  <2>0. /\ slot \in [Slots -> PropertyValues] /\ Kinds /\ OneOwner /\ OnHeap
        /\ \A l \in Layers, n \in Names : layer[l].map[n] \in PropertyValues \cup {Absent}
        /\ slot[s] \in PropertyValues
    BY <1>6 DEF MapsInv, Kinds, Ownership
  <2>1. slot' \in [Slots -> PropertyValues] /\ slot'[s] = VoidValue
        /\ \A t \in Slots \ {s} : slot'[t] = slot[t]
    BY <1>2, <1>6, <2>0, ValueFacts DEF AfterSet, MovedFrom
  <2>2. heap' \subseteq Long
    BY <1>1, <1>2 DEF Destroyed
  <2>3. TypeOK'
    BY <1>1, <1>3, <1>5, <2>1, <2>2, ValueFacts DEF MapsInv, TypeOK, Recycled
  <2>4. Kinds'
    BY <1>1, <1>3, <1>6, <2>0, <2>1 DEF Kinds
  <2>5. /\ \A x \in Values, t \in Slots : InSlot(t, x)' <=> t # s /\ InSlot(t, x)
        /\ \A x \in Values, l \in Layers, n \in Names :
             InLayer(l, n, x)' <=> IF l = top /\ n = name THEN InSlot(s, x) ELSE InLayer(l, n, x)
    BY <1>3, <2>0, <2>1, ValueFacts DEF InSlot, InLayer
  <2>6. OneOwner'
    <3> SUFFICES ASSUME NEW x \in Values
                 PROVE  /\ \A t, u \in Slots : InSlot(t, x)' /\ InSlot(u, x)' => t = u
                        /\ \A k, l \in Layers, n, o \in Names :
                             InLayer(k, n, x)' /\ InLayer(l, o, x)' => k = l /\ n = o
                        /\ \A t \in Slots, l \in Layers, n \in Names :
                             ~(InSlot(t, x)' /\ InLayer(l, n, x)')
      BY DEF OneOwner
    <3>1. /\ \A t, u \in Slots : InSlot(t, x) /\ InSlot(u, x) => t = u
          /\ \A k, l \in Layers, n, o \in Names : InLayer(k, n, x) /\ InLayer(l, o, x) => k = l /\ n = o
          /\ \A t \in Slots, l \in Layers, n \in Names : ~(InSlot(t, x) /\ InLayer(l, n, x))
      BY <2>0 DEF OneOwner
    <3> QED
      BY <2>5, <3>1
  <2>7. OnHeap'
    <3> SUFFICES ASSUME NEW x \in Long
                 PROVE  x \in heap' <=> \/ \E t \in Slots : InSlot(t, x)'
                                        \/ \E l \in Layers, n \in Names : InLayer(l, n, x)'
      BY DEF OnHeap
    <3>1. x \in heap <=> \/ \E t \in Slots : InSlot(t, x)
                         \/ \E l \in Layers, n \in Names : InLayer(l, n, x)
      BY <2>0 DEF OnHeap
    <3>2. x \in Values
      BY LongAssumption
    <3>3. x \in heap' <=> x \in heap /\ ~InLayer(top, name, x)
      <4>1. CASE old = Absent
        BY <1>2, <4>1 DEF InLayer, old
      <4>2. CASE old # Absent
        <5>1. {old} \in SUBSET PropertyValues
          BY <1>1, <2>0, <4>2 DEF old
        <5>2. heap' = Destroyed(heap, {old})
          BY <1>2, <4>2
        <5> QED
          BY <4>2, <5>1, <5>2, DestroyedFacts DEF InLayer, old
      <4> QED
        BY <4>1, <4>2
    <3>4. CASE InLayer(top, name, x)
      <4>1. /\ \A t \in Slots : ~InSlot(t, x)
            /\ \A l \in Layers, n \in Names : InLayer(l, n, x) => l = top /\ n = name
        BY <1>1, <2>0, <3>2, <3>4 DEF OneOwner
      <4> QED
        BY <2>5, <3>2, <3>3, <3>4, <4>1
    <3>5. CASE ~InLayer(top, name, x)
      BY <1>1, <2>5, <3>1, <3>2, <3>3, <3>5
    <3> QED
      BY <3>4, <3>5
  <2> QED
    BY <2>3, <2>4, <2>6, <2>7 DEF MapsInv, Ownership
<1>7. CASE family = "dependency"
  <2>0. /\ \A t \in Slots : slot[t].jt # "long"
        /\ \A l \in Layers, n \in Names : layer[l].map[n] # Absent => layer[l].map[n].jt # "long"
    BY <1>7 DEF MapsInv, Kinds
  <2>1. slot' = slot
    BY <1>1, <1>2, <1>7 DEF AfterSet
  <2>2. heap' \subseteq Long
    BY <1>1, <1>2 DEF Destroyed
  <2>3. TypeOK'
    BY <1>1, <1>3, <1>5, <2>1, <2>2 DEF MapsInv, TypeOK, Recycled
  <2>4. Kinds' /\ Ownership'
    BY <1>1, <1>3, <1>7, <2>0, <2>1 DEF Kinds, Ownership
  <2> QED
    BY <2>3, <2>4 DEF MapsInv
<1> QED
  BY <1>6, <1>7 DEF MapsInv, TypeOK

\* A map goes, and with it what only it kept alive.
LEMMA DestroyKeepsMaps ==
  ASSUME MapsInv, NEW m \in Maps, Destroy(m)
  PROVE  MapsInv'
<1>1. /\ UNCHANGED <<family, slot, aliased>>
      /\ state' = [state EXCEPT ![m] = "none"] /\ impl' = [impl EXCEPT ![m] = NoLayer]
      /\ layer' = Counted(layer, impl')
      /\ heap' = Destroyed(heap, UNION {Stored(layer, l) : l \in Layers \ Alive(layer, impl')})
  BY DEF Destroy
<1>2. /\ layer \in [Layers -> LayerRecords] /\ impl' \in [Maps -> Layers \cup {NoLayer}]
      /\ slot \in [Slots -> AnyValues] /\ heap \subseteq Long
  BY <1>1, TypesOfMaps DEF MapsInv
<1>3. /\ layer' \in [Layers -> LayerRecords] /\ Recycled(layer', impl')
      /\ \A l \in Layers : layer'[l] = IF l \in Alive(layer, impl') THEN layer[l] ELSE FreeLayer
  <2>1. PICK impls \in [Maps -> Layers \cup {NoLayer}] : impls = impl'
    BY <1>2
  <2> DEFINE ly2 == Counted(layer, impls)
  <2>2. /\ ly2 \in [Layers -> LayerRecords] /\ Recycled(ly2, impls)
        /\ \A l \in Layers : ly2[l] = IF l \in Alive(layer, impls) THEN layer[l] ELSE FreeLayer
    BY <1>2, RecycledByDestroy
  <2>3. layer' = ly2
    BY <1>1, <2>1
  <2> HIDE DEF ly2
  <2> QED
    BY <2>1, <2>2, <2>3
<1>4. heap' \subseteq Long
  BY <1>1, <1>2 DEF Destroyed
<1>5. TypeOK'
  BY <1>1, <1>2, <1>3, <1>4 DEF MapsInv, TypeOK, Recycled
<1> DEFINE Kept(l) == l \in Alive(layer, impl')
<1>6. \A l \in Layers, n \in Names : layer'[l].map[n] = IF Kept(l) THEN layer[l].map[n] ELSE Absent
  BY <1>3, LayerFacts
<1> DEFINE gone == UNION {Stored(layer, l) : l \in Layers \ Alive(layer, impl')}
<1>7. /\ \A pv : pv \in gone <=> \E l \in Layers, n \in Names :
                                    ~Kept(l) /\ layer[l].map[n] = pv /\ pv # Absent
      /\ heap' = Destroyed(heap, gone)
  <2>1. \A l, pv : pv \in Stored(layer, l) <=> pv # Absent /\ \E n \in Names : layer[l].map[n] = pv
    BY DEF Stored
  <2>2. \A pv : pv \in gone <=> \E l \in Layers : ~Kept(l) /\ pv \in Stored(layer, l)
    OBVIOUS
  <2> HIDE DEF Kept, gone
  <2>3. heap' = Destroyed(heap, gone)
    BY <1>1 DEF gone
  <2> QED
    BY <2>1, <2>2, <2>3
<1> HIDE DEF Kept, gone
<1>8. Kinds'
  BY <1>1, <1>6 DEF MapsInv, Kinds
<1>9. CASE family = "property"
  <2>0. /\ OneOwner /\ OnHeap
        /\ \A l \in Layers, n \in Names : layer[l].map[n] \in PropertyValues \cup {Absent}
    BY <1>9 DEF MapsInv, Kinds, Ownership
  <2>1. /\ \A x, t : InSlot(t, x)' <=> InSlot(t, x)
        /\ \A x : \A l \in Layers, n \in Names : InLayer(l, n, x)' <=> Kept(l) /\ InLayer(l, n, x)
    BY <1>1, <1>6 DEF InSlot, InLayer
  <2>2. OneOwner'
    BY <2>0, <2>1 DEF OneOwner
  <2>3. OnHeap'
    <3> SUFFICES ASSUME NEW x \in Long
                 PROVE  x \in heap' <=> \/ \E t \in Slots : InSlot(t, x)'
                                        \/ \E l \in Layers, n \in Names : InLayer(l, n, x)'
      BY DEF OnHeap
    <3>1. x \in Values
      BY LongAssumption
    <3>2. x \in heap <=> \/ \E t \in Slots : InSlot(t, x)
                         \/ \E l \in Layers, n \in Names : InLayer(l, n, x)
      BY <2>0 DEF OnHeap
    <3>3. gone \in SUBSET PropertyValues
      BY <1>7, <2>0
    <3>4. x \in heap' <=> x \in heap /\ ~\E l \in Layers, n \in Names : ~Kept(l) /\ InLayer(l, n, x)
      <4>1. (\E pv \in gone : pv.sbo = x) <=>
              \E l \in Layers, n \in Names : ~Kept(l) /\ InLayer(l, n, x)
        BY <1>7 DEF InLayer
      <4> QED
        BY <1>7, <3>3, <4>1, DestroyedFacts
    <3>5. CASE \E l \in Layers, n \in Names : ~Kept(l) /\ InLayer(l, n, x)
      <4>1. PICK l \in Layers, n \in Names : ~Kept(l) /\ InLayer(l, n, x)
        BY <3>5
      <4>2. /\ \A t \in Slots : ~InSlot(t, x)
            /\ \A k \in Layers, o \in Names : InLayer(k, o, x) => k = l
        BY <2>0, <3>1, <4>1 DEF OneOwner
      <4> QED
        BY <2>1, <3>4, <4>1, <4>2
    <3>6. CASE ~\E l \in Layers, n \in Names : ~Kept(l) /\ InLayer(l, n, x)
      BY <2>1, <3>2, <3>4, <3>6
    <3> QED
      BY <3>5, <3>6
  <2> QED
    BY <1>5, <1>8, <2>2, <2>3 DEF MapsInv, Ownership
<1>10. CASE family # "property"
  BY <1>1, <1>5, <1>8, <1>10 DEF MapsInv, Ownership
<1> QED
  BY <1>9, <1>10

\* At first there is no map, and every value is void.
LEMMA InitMaps == Init => MapsInv
<1> SUFFICES ASSUME Init PROVE MapsInv
  OBVIOUS
<1>1. TypeOK
  BY LayerFacts, ValueFacts DEF Init, TypeOK
<1>2. /\ \A l \in Layers, n \in Names : layer[l].map[n] = Absent
      /\ \A s \in Slots : slot[s] = VoidValue
  BY LayerFacts DEF Init
<1>3. Kinds
  BY <1>2, ValueFacts DEF Init, Kinds
<1>4. /\ \A s \in Slots, v \in Values : ~InSlot(s, v)
      /\ \A l \in Layers, n \in Names, v \in Values : ~InLayer(l, n, v)
  BY <1>2, ValueFacts DEF InSlot, InLayer
<1>5. Ownership
  BY <1>4, LongAssumption DEF Init, Ownership, OneOwner, OnHeap
<1> QED
  BY <1>1, <1>3, <1>5 DEF MapsInv

LEMMA StepMaps == MapsInv /\ [Next]_vars => MapsInv'
<1> SUFFICES ASSUME MapsInv, [Next]_vars PROVE MapsInv'
  OBVIOUS
<1>0. /\ impl \in [Maps -> Layers \cup {NoLayer}] /\ state \in [Maps -> {"none", "mutable", "fixed"}]
      /\ layer \in [Layers -> LayerRecords] /\ aliased \in BOOLEAN
      /\ \A m \in Maps : state[m] = "none" => impl[m] = NoLayer
  BY TypesOfMaps DEF MapsInv
<1>1. CASE \E s \in Slots : DropValue(s) \/ \E v \in Values : MakeValue(s, v)
  <2>1. ASSUME NEW s \in Slots, DropValue(s) PROVE MapsInv'
    <3>1. CASE Values = {}
      <4>1. slot[s] \in AnyValues /\ AnyValues = {VoidValue}
        BY <3>1, TypesOfMaps DEF MapsInv, AnyValues, PropertyValues
      <4> QED
        BY <2>1, <4>1 DEF DropValue
    <3>2. CASE \E v : v \in Values
      BY <2>1, <3>2, ValuesKeepMaps
    <3> QED
      BY <3>1, <3>2
  <2> QED
    BY <1>1, <2>1, ValuesKeepMaps
<1>2. ASSUME NEW m \in Maps, CreateMutable(m) PROVE MapsInv'
  BY <1>2, LayerFacts, ConstructKeepsMaps DEF CreateMutable
<1>3. ASSUME NEW m \in Maps, CreateFixed(m) PROVE MapsInv'
  <2>1. CASE family = "property"
    <3>1. /\ UNCHANGED <<family, layer, slot, heap, aliased>> /\ state[m] = "none"
          /\ state' = [state EXCEPT ![m] = "fixed"] /\ impl' = [impl EXCEPT ![m] = NoLayer]
      BY <1>3, <2>1 DEF CreateFixed, Share
    <3> QED
      BY <1>0, <3>1, SharingKeepsMaps
  <2>2. CASE family # "property"
    BY <1>3, <2>2, LayerFacts, ConstructKeepsMaps DEF CreateFixed
  <2> QED
    BY <2>1, <2>2
<1>4. ASSUME NEW m \in Maps, NEW from \in Maps, Mutate(m, from) PROVE MapsInv'
  BY <1>0, <1>4, LayerFacts, ConstructKeepsMaps DEF Mutate
<1>5. ASSUME NEW m \in Maps, NEW from \in Maps, Clone(m, from) PROVE MapsInv'
  <2>1. impl[from] \in Layers /\ layer[impl[from]] \in LayerRecords /\ family = "dependency"
    BY <1>0, <1>5 DEF Clone
  <2> QED
    BY <1>5, <2>1, ConstructKeepsMaps DEF Clone
<1>6. ASSUME NEW m \in Maps, NEW from \in Maps, CopyFixed(m, from) \/ CopyMutable(m, from)
      PROVE  MapsInv'
  <2>1. PICK st \in {"mutable", "fixed"} :
          /\ UNCHANGED <<family, layer, slot, heap>> /\ state[m] = "none"
          /\ state' = [state EXCEPT ![m] = st] /\ impl' = [impl EXCEPT ![m] = impl[from]]
    BY <1>6 DEF CopyFixed, CopyMutable, Share
  <2>2. aliased' \in BOOLEAN
    BY <1>0, <1>6 DEF CopyFixed, CopyMutable
  <2> QED
    BY <1>0, <2>1, <2>2, SharingKeepsMaps
<1>7. ASSUME NEW m \in Maps, NEW to \in Maps, Fix(m, to) PROVE MapsInv'
  <2>1. /\ UNCHANGED <<family, layer, slot, heap, aliased>> /\ state[to] = "none" /\ m # to
        /\ state' = [state EXCEPT ![to] = "fixed"]
        /\ impl' = [impl EXCEPT ![to] = impl[m], ![m] = NoLayer]
    BY <1>7 DEF Fix
  <2>2. /\ impl'[m] = NoLayer /\ impl'[to] = impl[m] /\ impl[to] = NoLayer
        /\ \A o \in Maps \ {m, to} : impl'[o] = impl[o]
    BY <1>0, <2>1
  <2>3. \A o \in Maps : impl[o] = NoLayer \/ \E p \in Maps : impl'[p] = impl[o]
    BY <2>2
  <2>4. /\ state' \in [Maps -> {"none", "mutable", "fixed"}]
        /\ impl' \in [Maps -> Layers \cup {NoLayer}]
        /\ \A o \in Maps : state'[o] = "none" => impl'[o] = NoLayer
    BY <1>0, <2>1, <2>2
  <2> QED
    BY <1>0, <2>1, <2>3, <2>4, SharingKeepsMaps
<1>8. ASSUME NEW m \in Maps, Destroy(m) PROVE MapsInv'
  BY <1>8, DestroyKeepsMaps
<1>9. ASSUME NEW m \in Maps, NEW n \in Names, NEW s \in Slots, Set(m, n, s) PROVE MapsInv'
  BY <1>9, SetKeepsMaps
<1>10. CASE UNCHANGED vars
  <2>1. UNCHANGED <<family, layer, state, impl, slot, heap, aliased>>
    BY <1>10 DEF vars
  <2> QED
    BY <1>0, <2>1, SharingKeepsMaps
<1> QED
  BY <1>1, <1>2, <1>3, <1>4, <1>5, <1>6, <1>7, <1>8, <1>9, <1>10 DEF Next

LEMMA MapsInvariance == Spec => []MapsInv
BY InitMaps, StepMaps, PTL DEF Spec

\* A map has an implementation only while it exists, an implementation is cleared
\* when the last map that kept it alive is gone, and never before, however layers
\* are shared (the shared_ptrs of property_map, dependency_map and the layers).
THEOREM MapsTypeCorrect == Spec => []TypeOK
<1>1. MapsInv => TypeOK
  BY DEF MapsInv
<1> QED
  BY <1>1, MapsInvariance, PTL

\* Of any values each is owned once, by whoever made it or by one name of one
\* layer, and the heap has the blocks of the owned ones and no others: nothing
\* leaks or is freed twice (property_value.cpp, property_map_layer::set).
THEOREM ContentsHaveOneOwner == Spec => []ContentOwnedOnce
<1>1. MapsInv => ContentOwnedOnce
  BY OwnershipCounts DEF MapsInv
<1> QED
  BY <1>1, MapsInvariance, PTL

----------------------------------------------------------------------------
(* What a query finds. *)

\* An order in which an implementation comes after its parent: none is its own
\* ancestor.
RankedBy(ly, rank) ==
  /\ rank \in [Layers -> Nat]
  /\ \A l \in Layers : ly[l].parent # NoLayer => rank[ly[l].parent] < rank[l]

Ranked(ly) == \E rank : RankedBy(ly, rank)

\* query(), of any layers and heap.
FindIn(ly, blocks, l, n) ==
  LET find[x \in Layers \cup {NoLayer}] ==
        IF x = NoLayer THEN Absent
        ELSE IF ly[x].map[n] # Absent THEN Query(blocks, ly[x].map[n])
        ELSE find[ly[x].parent]
  IN find[l]

LEMMA AncestorsRank ==
  ASSUME NEW ly \in [Layers -> LayerRecords], NEW rank, RankedBy(ly, rank), NEW l \in Layers
  PROVE  \A x \in Chain(ly, ly[l].parent) : x \in Layers /\ rank[x] < rank[l]
<1> DEFINE below == {x \in Layers : rank[x] < rank[l]}
           p == ly[l].parent
<1>1. \A x \in Layers : rank[x] \in Nat /\ ly[x].parent \in Layers \cup {NoLayer}
  BY LayerFacts DEF RankedBy
<1>2. Closed(ly, below)
  <2> SUFFICES ASSUME NEW x \in below, ly[x].parent # NoLayer PROVE ly[x].parent \in below
    BY DEF Closed
  <2>1. ly[x].parent \in Layers /\ rank[ly[x].parent] < rank[x] /\ rank[x] < rank[l]
    BY <1>1 DEF RankedBy
  <2> QED
    BY <1>1, <2>1
<1>3. p \in below \cup {NoLayer} /\ p \in Layers \cup {NoLayer} /\ below \in SUBSET Layers
  BY <1>1 DEF RankedBy
<1> HIDE DEF below, p
<1>4. Chain(ly, p) \subseteq below
  BY <1>2, <1>3, ChainFacts
<1> QED
  BY <1>4 DEF below, p

\* The recursion of query() ends: what it finds is in the nearest layer that has
\* the name.
LEMMA FindUnfolds ==
  ASSUME NEW ly \in [Layers -> LayerRecords], NEW rank, RankedBy(ly, rank),
         NEW blocks, NEW n \in Names
  PROVE  /\ FindIn(ly, blocks, NoLayer, n) = Absent
         /\ \A l \in Layers :
              FindIn(ly, blocks, l, n) =
                IF ly[l].map[n] # Absent THEN Query(blocks, ly[l].map[n])
                ELSE FindIn(ly, blocks, ly[l].parent, n)
<1> DEFINE D == Layers \cup {NoLayer}
           Body(f) == [x \in D |-> IF x = NoLayer THEN Absent
                                   ELSE IF ly[x].map[n] # Absent THEN Query(blocks, ly[x].map[n])
                                   ELSE f[ly[x].parent]]
           found == CHOOSE f : f = Body(f)
           Having(x) == {y \in Chain(ly, x) : ly[y].map[n] # Absent}
           Nearest(x) == CHOOSE y \in Having(x) : \A z \in Having(x) : rank[z] <= rank[y]
           g == [x \in D |-> IF Having(x) = {} THEN Absent
                             ELSE Query(blocks, ly[Nearest(x)].map[n])]
<1>1. \A l : FindIn(ly, blocks, l, n) = found[l]
  BY DEF FindIn
<1>2. NoLayer \notin Layers /\ \A x \in Layers : ly[x].parent \in D /\ rank[x] \in Nat
  BY ConstantsDistinct, LayerFacts DEF RankedBy
<1>3. Having(NoLayer) = {}
  BY ChainFacts
<1>4. ASSUME NEW x \in Layers, ly[x].map[n] # Absent
      PROVE  Having(x) # {} /\ Nearest(x) = x
  <2>1. x \in Having(x)
    BY <1>2, <1>4, ChainFacts
  <2>2. \A z \in Having(x) : z # x => rank[z] < rank[x] /\ rank[z] \in Nat
    <3>1. Chain(ly, x) = {x} \cup Chain(ly, ly[x].parent)
      BY ChainUnfolds
    <3> QED
      BY <1>2, <3>1, AncestorsRank
  <2> HIDE DEF Having
  <2>3. \A z \in Having(x) : rank[z] <= rank[x]
    BY <1>2, <2>2
  <2>4. \A y \in Having(x) : (\A z \in Having(x) : rank[z] <= rank[y]) => y = x
    <3> SUFFICES ASSUME NEW y \in Having(x), \A z \in Having(x) : rank[z] <= rank[y], y # x
                 PROVE  FALSE
      OBVIOUS
    <3>1. rank[x] <= rank[y] /\ rank[y] < rank[x] /\ rank[y] \in Nat /\ rank[x] \in Nat
      BY <1>2, <2>1, <2>2
    <3> QED
      BY <3>1
  <2> QED
    BY <2>1, <2>3, <2>4, Zenon
<1>5. ASSUME NEW x \in Layers, ly[x].map[n] = Absent
      PROVE  Having(x) = Having(ly[x].parent)
  BY <1>5, ChainUnfolds
<1>6. g = Body(g)
  <2>1. ASSUME NEW x \in D
        PROVE  g[x] = IF x = NoLayer THEN Absent
                      ELSE IF ly[x].map[n] # Absent THEN Query(blocks, ly[x].map[n])
                      ELSE g[ly[x].parent]
    <3>1. g[x] = IF Having(x) = {} THEN Absent ELSE Query(blocks, ly[Nearest(x)].map[n])
      OBVIOUS
    <3>2. CASE x = NoLayer
      BY <1>3, <3>1, <3>2, Zenon
    <3>3. CASE x # NoLayer /\ ly[x].map[n] # Absent
      <4>1. x \in Layers
        BY <3>3
      <4> HIDE DEF Having, Nearest, g
      <4> QED
        BY <1>4, <3>1, <3>3, <4>1
    <3>4. CASE x # NoLayer /\ ly[x].map[n] = Absent
      <4>1. x \in Layers /\ ly[x].parent \in D
        BY <1>2, <3>4
      <4>2. Having(x) = Having(ly[x].parent)
        BY <1>5, <3>4, <4>1
      <4>3. g[ly[x].parent] = IF Having(ly[x].parent) = {} THEN Absent
                              ELSE Query(blocks, ly[Nearest(ly[x].parent)].map[n])
        BY <4>1
      <4>4. Nearest(x) = Nearest(ly[x].parent)
        BY <4>2
      <4> HIDE DEF Having, Nearest, g
      <4> QED
        BY <3>1, <3>4, <4>2, <4>3, <4>4
    <3> QED
      BY <3>2, <3>3, <3>4
  <2>2. g = [x \in D |-> g[x]]
    OBVIOUS
  <2> HIDE DEF g
  <2> QED
    BY <2>1, <2>2
<1> HIDE DEF Body, g
<1>7. found = Body(found)
  BY <1>6, Zenon
<1> HIDE DEF found
<1>8. \A x \in D : found[x] = IF x = NoLayer THEN Absent
                              ELSE IF ly[x].map[n] # Absent THEN Query(blocks, ly[x].map[n])
                              ELSE found[ly[x].parent]
  BY <1>7 DEF Body
<1> QED
  BY <1>1, <1>2, <1>8

\* A set of numbers that is not empty has a least one.
LEMMA LeastOf ==
  ASSUME NEW T \in SUBSET Nat, T # {}
  PROVE  \E m \in T : \A k \in T : m <= k
<1> DEFINE R == {ss \in Nat \X Nat : ss[1] < ss[2]}
<1>1. IsWellFoundedOn(R, Nat)
  BY NatLessThanWellFounded DEF OpToRel
<1>2. PICK m \in T : \A k \in T : <<k, m>> \notin R
  <2> HIDE DEF R
  <2> QED
    BY <1>1, WFMin
<1>3. ASSUME NEW k \in T PROVE m <= k
  <2>1. <<k, m>> \in R <=> k < m
    BY Zenon
  <2> QED
    BY <1>2, <2>1
<1> QED
  BY <1>3

\* What is found depends on what is kept alive only.
LEMMA FindAgrees ==
  ASSUME NEW ly \in [Layers -> LayerRecords], NEW ly2 \in [Layers -> LayerRecords],
         Ranked(ly), Ranked(ly2), NEW blocks, NEW blocks2,
         NEW n \in Names, NEW l \in Layers \cup {NoLayer},
         \A x \in Chain(ly, l) :
           /\ ly2[x].parent = ly[x].parent /\ ly2[x].map[n] = ly[x].map[n]
           /\ ly[x].map[n] # Absent => Query(blocks2, ly[x].map[n]) = Query(blocks, ly[x].map[n])
  PROVE  FindIn(ly2, blocks2, l, n) = FindIn(ly, blocks, l, n)
<1> DEFINE F(x)  == FindIn(ly, blocks, x, n)
           F2(x) == FindIn(ly2, blocks2, x, n)
<1>1. PICK rank : RankedBy(ly, rank)
  BY DEF Ranked
<1>2. /\ F(NoLayer) = Absent
      /\ \A x \in Layers : F(x) = IF ly[x].map[n] # Absent THEN Query(blocks, ly[x].map[n])
                                  ELSE F(ly[x].parent)
  BY <1>1, FindUnfolds
<1>3. /\ F2(NoLayer) = Absent
      /\ \A x \in Layers : F2(x) = IF ly2[x].map[n] # Absent THEN Query(blocks2, ly2[x].map[n])
                                   ELSE F2(ly2[x].parent)
  <2>1. PICK rank2 : RankedBy(ly2, rank2)
    BY DEF Ranked
  <2> QED
    BY <2>1, FindUnfolds
<1> HIDE DEF F, F2
<1>4. /\ Chain(ly, l) \subseteq Layers /\ Closed(ly, Chain(ly, l))
      /\ l # NoLayer => l \in Chain(ly, l)
  BY ChainFacts
<1> DEFINE bad == {x \in Chain(ly, l) : F2(x) # F(x)}
<1>5. bad = {}
  <2> SUFFICES ASSUME bad # {} PROVE FALSE
    OBVIOUS
  <2>1. {rank[x] : x \in bad} \in SUBSET Nat /\ {rank[x] : x \in bad} # {}
    BY <1>1, <1>4 DEF RankedBy
  <2>2. PICK least \in {rank[x] : x \in bad} : \A k \in {rank[x] : x \in bad} : least <= k
    BY <2>1, LeastOf
  <2>3. PICK x \in bad : rank[x] = least
    OBVIOUS
  <2>4. x \in Chain(ly, l) /\ x \in Layers /\ F2(x) # F(x)
    BY <1>4
  <2>5. F(x) = F(ly[x].parent) /\ F2(x) = F2(ly[x].parent)
    BY <1>2, <1>3, <2>4
  <2>6. ly[x].parent # NoLayer
    BY <1>2, <1>3, <2>4, <2>5
  <2>7. ly[x].parent \in Chain(ly, l)
    BY <1>4, <2>4, <2>6 DEF Closed
  <2>8. ly[x].parent \in bad
    BY <2>4, <2>5, <2>7
  <2>9. rank[ly[x].parent] < rank[x] /\ rank[x] \in Nat /\ rank[ly[x].parent] \in Nat
    BY <1>1, <1>4, <2>4, <2>6, <2>7 DEF RankedBy
  <2>10. rank[x] <= rank[ly[x].parent]
    BY <2>2, <2>3, <2>8
  <2> QED
    BY <2>9, <2>10
<1>6. F2(l) = F(l)
  BY <1>2, <1>3, <1>4, <1>5
<1> QED
  BY <1>6 DEF F, F2

----------------------------------------------------------------------------
(* Who sees an implementation. *)

\* As long as no mutable map is copied, nobody else sees what a mutable map has.
Exclusive ==
  ~aliased => \A m, o \in Maps :
                state[m] = "mutable" /\ impl[m] # NoLayer /\ m # o =>
                  impl[m] \notin Chain(layer, impl[o])

SharingInv == MapsInv /\ Ranked(layer) /\ Exclusive

\* Parents go, but do not change.
LEMMA RankKept ==
  ASSUME NEW ly \in [Layers -> LayerRecords], NEW ly2 \in [Layers -> LayerRecords], Ranked(ly),
         \A l \in Layers : ly2[l].parent \in {ly[l].parent, NoLayer}
  PROVE  Ranked(ly2)
<1>1. PICK rank : RankedBy(ly, rank)
  BY DEF Ranked
<1>2. RankedBy(ly2, rank)
  BY <1>1 DEF RankedBy
<1> QED
  BY <1>2 DEF Ranked

\* A new implementation comes after its parent; it is nobody's parent yet.
LEMMA RankOfNew ==
  ASSUME NEW ly \in [Layers -> LayerRecords], NEW impls \in [Maps -> Layers \cup {NoLayer}],
         Recycled(ly, impls), Ranked(ly), NEW l \in Layers \ Alive(ly, impls),
         NEW record \in LayerRecords, record.parent \in Alive(ly, impls) \cup {NoLayer}
  PROVE  Ranked([ly EXCEPT ![l] = record])
<1> DEFINE p == record.parent
           ly2 == [ly EXCEPT ![l] = record]
<1>1. PICK rank : RankedBy(ly, rank)
  BY DEF Ranked
<1>2. rank \in [Layers -> Nat] /\ p \in Layers \cup {NoLayer} /\ p # l
  BY <1>1, LayerFacts, ConstantsDistinct DEF RankedBy
<1>3. PICK r \in Nat : p # NoLayer => rank[p] < r
  <2>1. CASE p = NoLayer
    BY <2>1
  <2>2. CASE p # NoLayer
    <3>1. rank[p] \in Nat
      BY <1>2, <2>2
    <3>2. rank[p] + 1 \in Nat /\ rank[p] < rank[p] + 1
      BY <3>1
    <3> QED
      BY <3>2
  <2> QED
    BY <2>1, <2>2
<1> DEFINE rank2 == [rank EXCEPT ![l] = r]
<1>4. rank2 \in [Layers -> Nat] /\ rank2[l] = r /\ \A x \in Layers \ {l} : rank2[x] = rank[x]
  BY <1>2
<1>5. ly2[l] = record /\ \A x \in Layers \ {l} : ly2[x] = ly[x]
  OBVIOUS
<1>6. \A x \in Layers : ly[x].parent # l
  <2> SUFFICES ASSUME NEW x \in Layers, ly[x].parent = l PROVE FALSE
    OBVIOUS
  <2>1. CASE x \in Alive(ly, impls)
    <3>1. PICK m \in Maps : x \in Chain(ly, impls[m])
      BY <2>1 DEF Alive
    <3>2. impls[m] \in Layers \cup {NoLayer}
      OBVIOUS
    <3>3. l \in Chain(ly, impls[m])
      BY <3>1, <3>2, ChainFacts, ConstantsDistinct DEF Closed
    <3> QED
      BY <3>3 DEF Alive
  <2>2. CASE x \notin Alive(ly, impls)
    BY <2>2, LayerFacts, ConstantsDistinct DEF Recycled
  <2> QED
    BY <2>1, <2>2
<1> HIDE DEF rank2, ly2, p
<1>7. ASSUME NEW x \in Layers, ly2[x].parent # NoLayer PROVE rank2[ly2[x].parent] < rank2[x]
  <2>1. CASE x = l
    <3>1. ly2[x].parent = p /\ p \in Layers \ {l}
      BY <1>2, <1>5, <1>7, <2>1 DEF p
    <3> QED
      BY <1>3, <1>4, <1>7, <2>1, <3>1
  <2>2. CASE x # l
    <3>1. ly2[x].parent = ly[x].parent /\ ly[x].parent \in Layers \ {l}
      BY <1>5, <1>6, <1>7, <2>2, LayerFacts
    <3> QED
      BY <1>1, <1>4, <1>7, <2>2, <3>1 DEF RankedBy
  <2> QED
    BY <2>1, <2>2
<1>8. RankedBy(ly2, rank2)
  BY <1>4, <1>7 DEF RankedBy
<1> QED
  BY <1>8 DEF Ranked, ly2

\* Where the implementation of a new map may come from: from nowhere, or from
\* what a fixed map keeps alive.
Derived(record) ==
  \/ record.parent = NoLayer
  \/ \E from \in Maps : state[from] = "fixed" /\ record.parent \in Chain(layer, impl[from])

LEMMA ConstructKeepsSharing ==
  ASSUME SharingInv, NEW m \in Maps, NEW st \in {"mutable", "fixed"}, NEW l \in Layers,
         NEW record \in LayerRecords, Construct(m, st, l, record), Derived(record)
  PROVE  /\ Ranked(layer') /\ Exclusive'
         /\ \A o \in Maps \ {m} : /\ Chain(layer', impl[o]) = Chain(layer, impl[o])
                                  /\ l \notin Chain(layer, impl[o])
<1>1. /\ state[m] = "none" /\ l \in Layers \ Alive(layer, impl)
      /\ state' = [state EXCEPT ![m] = st] /\ impl' = [impl EXCEPT ![m] = l]
      /\ layer' = [layer EXCEPT ![l] = record] /\ UNCHANGED aliased
  BY DEF Construct
<1>2. /\ layer \in [Layers -> LayerRecords] /\ impl \in [Maps -> Layers \cup {NoLayer}]
      /\ state \in [Maps -> {"none", "mutable", "fixed"}] /\ impl[m] = NoLayer
      /\ Recycled(layer, impl) /\ Ranked(layer) /\ NoLayer \notin Layers
  BY <1>1, TypesOfMaps, ConstantsDistinct DEF SharingInv, MapsInv
<1>3. layer' \in [Layers -> LayerRecords] /\ layer'[l] = record
  BY <1>1, <1>2
<1>4. record.parent \in Alive(layer, impl) \cup {NoLayer}
  BY DEF Derived, Alive
<1>5. Ranked(layer')
  BY <1>1, <1>2, <1>4, RankOfNew
<1>6. \A o \in Maps \ {m} : /\ Chain(layer', impl[o]) = Chain(layer, impl[o])
                            /\ l \notin Chain(layer, impl[o])
  <2> DEFINE ly2 == [layer EXCEPT ![l] = record]
  <2>1. \A o \in Maps \ {m} : Chain(ly2, impl[o]) = Chain(layer, impl[o]) /\ l \notin Chain(layer, impl[o])
    BY <1>1, <1>2, RecycledByConstruct
  <2>2. layer' = ly2
    BY <1>1
  <2> HIDE DEF ly2
  <2> QED
    BY <2>1, <2>2
<1>7. /\ impl'[m] = l /\ state'[m] = st
      /\ \A o \in Maps \ {m} : impl'[o] = impl[o] /\ state'[o] = state[o]
  BY <1>1, <1>2
<1>8. Exclusive'
  <2> SUFFICES ASSUME ~aliased, NEW a \in Maps, NEW b \in Maps,
                      state'[a] = "mutable", impl'[a] # NoLayer, a # b
               PROVE  impl'[a] \notin Chain(layer', impl'[b])
    BY <1>1 DEF Exclusive
  <2>1. CASE a = m
    BY <1>6, <1>7, <2>1
  <2>2. CASE a # m /\ b # m
    BY <1>6, <1>7, <2>2 DEF SharingInv, Exclusive
  <2>3. CASE a # m /\ b = m
    <3>1. impl'[a] = impl[a] /\ state[a] = "mutable" /\ impl[a] \in Layers
      BY <1>2, <1>7, <2>3
    <3>2. impl[a] # l
      BY <1>2, <1>6, <2>3, <3>1, ChainFacts
    <3>3. Chain(layer', l) = {l} \cup Chain(layer', record.parent)
      BY <1>3, ChainUnfolds
    <3>4. impl[a] \notin Chain(layer', record.parent)
      <4>1. CASE record.parent = NoLayer
        BY <1>3, <4>1, ChainFacts
      <4>2. ASSUME NEW from \in Maps, state[from] = "fixed", record.parent \in Chain(layer, impl[from])
            PROVE  impl[a] \notin Chain(layer', record.parent)
        <5>1. impl[from] \in Layers \cup {NoLayer} /\ from # m /\ from # a
          BY <1>1, <1>2, <3>1, <4>2
        <5>2. Closed(layer', Chain(layer', impl[from])) /\ Chain(layer', impl[from]) \subseteq Layers
          BY <1>3, <5>1, ChainFacts
        <5>3. Chain(layer', record.parent) \subseteq Chain(layer', impl[from])
          <6>1. record.parent \in Chain(layer', impl[from]) /\ record.parent \in Layers \cup {NoLayer}
            BY <1>6, <4>2, <5>1, <5>2
          <6> QED
            BY <1>3, <5>2, <6>1, ChainFacts
        <5>4. impl[a] \notin Chain(layer, impl[from])
          BY <1>2, <3>1, <5>1 DEF SharingInv, Exclusive
        <5> QED
          BY <1>6, <5>1, <5>3, <5>4
      <4> QED
        BY <4>1, <4>2 DEF Derived
    <3> QED
      BY <1>7, <2>3, <3>1, <3>2, <3>3, <3>4
  <2> QED
    BY <2>1, <2>2, <2>3
<1> QED
  BY <1>5, <1>6, <1>8

----------------------------------------------------------------------------
(* What the maps contain. *)

\* No pointer leads to a block that was freed.
NoDangling ==
  /\ \A l \in Layers, n \in Names :
       layer[l].map[n] # Absent => Query(heap, layer[l].map[n]) = layer[l].map[n].sbo
  /\ \A s \in Slots : Query(heap, slot[s]) = slot[s].sbo

LEMMA NothingDangles == MapsInv => NoDangling
<1> SUFFICES ASSUME MapsInv PROVE NoDangling
  OBVIOUS
<1>1. CASE family = "property"
  <2>0. /\ slot \in [Slots -> PropertyValues] /\ OnHeap
        /\ \A l \in Layers, n \in Names : layer[l].map[n] \in PropertyValues \cup {Absent}
    BY <1>1 DEF MapsInv, Kinds, Ownership
  <2>1. ASSUME NEW l \in Layers, NEW n \in Names, layer[l].map[n] # Absent
        PROVE  layer[l].map[n].jt = "long" => layer[l].map[n].sbo \in heap
    BY <2>0, <2>1, ValueFacts DEF OnHeap, InLayer
  <2>2. ASSUME NEW s \in Slots
        PROVE  slot[s].jt = "long" => slot[s].sbo \in heap
    BY <2>0, ValueFacts DEF OnHeap, InSlot
  <2> QED
    BY <2>1, <2>2 DEF NoDangling, Query
<1>2. CASE family # "property"
  BY <1>2 DEF MapsInv, Kinds, NoDangling, Query
<1> QED
  BY <1>1, <1>2

AState == [m \in Maps |-> IF state[m] = "mutable" /\ impl[m] = NoLayer THEN "spent" ELSE state[m]]

AContent == [m \in Maps |-> Content(m)]

LEMMA ContentFacts ==
  /\ \A m \in Maps : AContent[m] = [n \in Names |-> FindIn(layer, heap, impl[m], n)]
  /\ \A m \in Maps : AContent'[m] = [n \in Names |-> FindIn(layer', heap', impl'[m], n)]
BY DEF AContent, Content, Find, FindIn

\* What the recursion of query() finds, in what there is now.
LEMMA FoundNow ==
  ASSUME NEW ly \in [Layers -> LayerRecords], Ranked(ly), NEW blocks, NEW n \in Names
  PROVE  /\ FindIn(ly, blocks, NoLayer, n) = Absent
         /\ \A l \in Layers :
              FindIn(ly, blocks, l, n) =
                IF ly[l].map[n] # Absent THEN Query(blocks, ly[l].map[n])
                ELSE FindIn(ly, blocks, ly[l].parent, n)
<1>1. PICK rank : RankedBy(ly, rank)
  BY DEF Ranked
<1> QED
  BY <1>1, FindUnfolds

\* A step that leaves alone what an implementation keeps alive.
LEMMA FoundAsBefore ==
  ASSUME SharingInv, MapsInv', Ranked(layer'), NEW l \in Layers \cup {NoLayer}, NEW n \in Names,
         \A x \in Chain(layer, l) : layer'[x].parent = layer[x].parent
                                    /\ layer'[x].map[n] = layer[x].map[n]
  PROVE  FindIn(layer', heap', l, n) = FindIn(layer, heap, l, n)
<1>1. layer \in [Layers -> LayerRecords] /\ layer' \in [Layers -> LayerRecords] /\ Ranked(layer)
  BY DEF SharingInv, MapsInv, TypeOK
<1>2. NoDangling
  BY NothingDangles DEF SharingInv
<1>3. MapsInv' => NoDangling'
  BY NothingDangles, PTL
<1>4. \A x \in Chain(layer, l) :
        layer[x].map[n] # Absent =>
          Query(heap', layer[x].map[n]) = Query(heap, layer[x].map[n])
  <2> SUFFICES ASSUME NEW x \in Chain(layer, l), layer[x].map[n] # Absent
               PROVE  Query(heap', layer[x].map[n]) = Query(heap, layer[x].map[n])
    OBVIOUS
  <2>1. x \in Layers
    BY <1>1, ChainFacts
  <2>2. Query(heap, layer[x].map[n]) = layer[x].map[n].sbo
    BY <1>2, <2>1 DEF NoDangling
  <2>3. Query(heap', layer'[x].map[n]) = layer'[x].map[n].sbo
    BY <1>3, <2>1 DEF NoDangling
  <2> QED
    BY <2>2, <2>3
<1> QED
  BY <1>1, <1>4, FindAgrees

\* A step by which one map becomes something else, and the others do not.
LEMMA OneBecomes ==
  ASSUME NEW m \in Maps, NEW st, NEW c, AState'[m] = st, AContent'[m] = c,
         \A o \in Maps \ {m} : AState'[o] = AState[o] /\ AContent'[o] = AContent[o]
  PROVE  Promised!Become(m, st, c)
<1>1. AState' = [AState EXCEPT ![m] = st]
  <2> DEFINE f == AState
             g == AState'
  <2>1. f = [o \in Maps |-> f[o]] /\ g = [o \in Maps |-> g[o]]
    BY DEF AState
  <2> HIDE DEF f, g
  <2>2. g[m] = st /\ \A o \in Maps \ {m} : g[o] = f[o]
    BY DEF f, g
  <2>3. g = [f EXCEPT ![m] = st]
    BY <2>1, <2>2
  <2> QED
    BY <2>3 DEF f, g
<1>2. AContent' = [AContent EXCEPT ![m] = c]
  <2> DEFINE f == AContent
             g == AContent'
  <2>1. f = [o \in Maps |-> f[o]] /\ g = [o \in Maps |-> g[o]]
    BY DEF AContent
  <2> HIDE DEF f, g
  <2>2. g[m] = c /\ \A o \in Maps \ {m} : g[o] = f[o]
    BY DEF f, g
  <2>3. g = [f EXCEPT ![m] = c]
    BY <2>1, <2>2
  <2> QED
    BY <2>3 DEF f, g
<1> QED
  BY <1>1, <1>2 DEF Promised!Become, AState, AContent

\* A step that leaves alone what the map o keeps alive.
LEMMA ContentAsBefore ==
  ASSUME SharingInv, MapsInv', Ranked(layer'), NEW o \in Maps, impl'[o] = impl[o],
         \A x \in Chain(layer, impl[o]), n \in Names :
           layer'[x].parent = layer[x].parent /\ layer'[x].map[n] = layer[x].map[n]
  PROVE  AContent'[o] = AContent[o]
<1>1. PICK l \in Layers \cup {NoLayer} : l = impl[o]
  BY DEF SharingInv, MapsInv, TypeOK
<1>2. \A n \in Names : FindIn(layer', heap', l, n) = FindIn(layer, heap, l, n)
  BY <1>1, FoundAsBefore
<1>3. AContent[o] = [n \in Names |-> FindIn(layer, heap, l, n)]
  BY <1>1, ContentFacts
<1>4. AContent'[o] = [n \in Names |-> FindIn(layer', heap', l, n)]
  <2>1. impl'[o] = l
    BY <1>1
  <2> QED
    BY <2>1, ContentFacts
<1> HIDE DEF AContent, FindIn
<1> QED
  BY <1>2, <1>3, <1>4

----------------------------------------------------------------------------
(* Every step is one of the maps' that are values of their own. *)

LEMMA AStates ==
  /\ \A m \in Maps : AState[m] = IF state[m] = "mutable" /\ impl[m] = NoLayer THEN "spent" ELSE state[m]
  /\ \A m \in Maps : AState'[m] = IF state'[m] = "mutable" /\ impl'[m] = NoLayer THEN "spent" ELSE state'[m]
BY DEF AState

\* A map comes to life: it finds what is in its implementation, and what is
\* found in the parent of that.
LEMMA ConstructImplements ==
  ASSUME SharingInv, MapsInv', NEW m \in Maps, NEW st \in {"mutable", "fixed"}, NEW l \in Layers,
         NEW record \in LayerRecords, Construct(m, st, l, record), Derived(record),
         NEW c, c = [n \in Names |-> IF record.map[n] # Absent THEN Query(heap, record.map[n])
                                     ELSE FindIn(layer, heap, record.parent, n)]
  PROVE  SharingInv' /\ AState[m] = "none" /\ Promised!Become(m, st, c)
<1>1. /\ state[m] = "none" /\ l \in Layers \ Alive(layer, impl)
      /\ state' = [state EXCEPT ![m] = st] /\ impl' = [impl EXCEPT ![m] = l]
      /\ layer' = [layer EXCEPT ![l] = record] /\ UNCHANGED <<heap, aliased>>
  BY DEF Construct
<1>2. /\ layer \in [Layers -> LayerRecords] /\ impl \in [Maps -> Layers \cup {NoLayer}]
      /\ state \in [Maps -> {"none", "mutable", "fixed"}] /\ NoLayer \notin Layers
      /\ layer' \in [Layers -> LayerRecords]
  BY <1>1, TypesOfMaps, ConstantsDistinct DEF SharingInv, MapsInv
<1>3. /\ Ranked(layer') /\ Exclusive'
      /\ \A o \in Maps \ {m} : l \notin Chain(layer, impl[o])
  BY ConstructKeepsSharing
<1>4. /\ layer'[l] = record /\ \A x \in Layers \ {l} : layer'[x] = layer[x]
      /\ impl'[m] = l /\ state'[m] = st
      /\ \A o \in Maps \ {m} : impl'[o] = impl[o] /\ state'[o] = state[o]
  BY <1>1, <1>2
<1>5. SharingInv'
  BY <1>3 DEF SharingInv
<1>6. /\ AState[m] = "none" /\ AState'[m] = st
      /\ \A o \in Maps \ {m} : AState'[o] = AState[o]
  BY <1>1, <1>2, <1>4, AStates
<1>7. ASSUME NEW o \in Maps \ {m} PROVE AContent'[o] = AContent[o]
  <2>1. impl[o] \in Layers \cup {NoLayer} /\ impl'[o] = impl[o]
    BY <1>2, <1>4
  <2>2. \A x \in Chain(layer, impl[o]) : layer'[x] = layer[x]
    BY <1>2, <1>3, <1>4, <2>1, ChainFacts
  <2> QED
    BY <1>3, <2>1, <2>2, ContentAsBefore
<1>8. ASSUME NEW n \in Names PROVE FindIn(layer', heap', l, n) = c[n]
  <2>1. FindIn(layer', heap', l, n) = IF record.map[n] # Absent THEN Query(heap', record.map[n])
                                      ELSE FindIn(layer', heap', record.parent, n)
    <3>1. PICK ly2, blocks2 : ly2 \in [Layers -> LayerRecords] /\ ly2 = layer' /\ blocks2 = heap'
      BY <1>2
    <3>2. Ranked(ly2) /\ ly2[l] = record
      BY <1>3, <1>4, <3>1
    <3>3. FindIn(ly2, blocks2, l, n) = IF ly2[l].map[n] # Absent THEN Query(blocks2, ly2[l].map[n])
                                       ELSE FindIn(ly2, blocks2, ly2[l].parent, n)
      BY <3>1, <3>2, FoundNow
    <3> HIDE DEF FindIn, Query
    <3> QED
      BY <3>1, <3>2, <3>3
  <2>2. record.parent \in Layers \cup {NoLayer}
    BY LayerFacts
  <2>3. \A x \in Chain(layer, record.parent) : x \in Layers \ {l}
    <3>1. CASE record.parent = NoLayer
      BY <1>2, <3>1, ChainFacts
    <3>2. ASSUME NEW from \in Maps, state[from] = "fixed", record.parent \in Chain(layer, impl[from])
          PROVE  \A x \in Chain(layer, record.parent) : x \in Layers \ {l}
      <4>1. impl[from] \in Layers \cup {NoLayer} /\ from # m
        BY <1>1, <1>2, <3>2
      <4>2. Closed(layer, Chain(layer, impl[from])) /\ Chain(layer, impl[from]) \subseteq Layers
        BY <1>2, <4>1, ChainFacts
      <4>3. Chain(layer, record.parent) \subseteq Chain(layer, impl[from])
        BY <1>2, <2>2, <3>2, <4>2, ChainFacts
      <4> QED
        BY <1>3, <4>1, <4>2, <4>3
    <3> QED
      BY <3>1, <3>2 DEF Derived
  <2>4. FindIn(layer', heap', record.parent, n) = FindIn(layer, heap, record.parent, n)
    BY <1>3, <1>4, <2>2, <2>3, FoundAsBefore
  <2>5. heap' = heap
    BY <1>1
  <2> HIDE DEF FindIn, Query
  <2> QED
    BY <2>1, <2>4, <2>5
<1>9. AContent'[m] = c
  <2>1. AContent'[m] = [n \in Names |-> FindIn(layer', heap', impl'[m], n)]
    BY ContentFacts
  <2>2. impl'[m] = l
    BY <1>4
  <2> HIDE DEF FindIn
  <2>3. [n \in Names |-> FindIn(layer', heap', impl'[m], n)] = [n \in Names |-> c[n]]
    BY <1>8, <2>2
  <2> QED
    BY <2>1, <2>3
<1> QED
  BY <1>5, <1>6, <1>7, <1>9, OneBecomes

\* A value is put into a map: nobody else sees it there.
LEMMA SetImplements ==
  ASSUME SharingInv, MapsInv', NEW m \in Maps, NEW name \in Names, NEW s \in Slots, Set(m, name, s)
  PROVE  SharingInv' /\ (~aliased' => Promised!Put(m, name, Query(heap, slot[s])))
<1>0. PICK top \in Layers : top = impl[m]
  BY TypesOfMaps DEF SharingInv, MapsInv, Set
<1>1. /\ state[m] = "mutable" /\ UNCHANGED <<state, impl, aliased>>
      /\ layer' = [layer EXCEPT ![top].map[name] = slot[s]]
  BY <1>0 DEF Set
<1>2. /\ layer \in [Layers -> LayerRecords] /\ impl \in [Maps -> Layers \cup {NoLayer}]
      /\ slot \in [Slots -> AnyValues] /\ NoLayer \notin Layers /\ Ranked(layer)
      /\ layer' \in [Layers -> LayerRecords]
  BY ConstantsDistinct DEF SharingInv, MapsInv, TypeOK
<1>3. /\ \A x \in Layers \ {top} : layer'[x] = layer[x]
      /\ layer'[top].map[name] = slot[s]
      /\ \A x \in Layers : /\ layer'[x].parent = layer[x].parent
                           /\ \A n \in Names \ {name} : layer'[x].map[n] = layer[x].map[n]
  BY <1>1, <1>2 DEF LayerRecords
<1>4. PICK ly2 \in [Layers -> LayerRecords] : ly2 = layer'
  BY <1>2
<1>5. Ranked(layer')
  <2>1. Ranked(ly2)
    BY <1>2, <1>3, <1>4, RankKept
  <2> QED
    BY <1>4, <2>1
<1>6. \A o \in Maps : Chain(layer', impl[o]) = Chain(layer, impl[o])
  <2>1. ASSUME NEW o \in Maps PROVE Chain(ly2, impl[o]) = Chain(layer, impl[o])
    <3>1. impl[o] \in Layers \cup {NoLayer}
      BY <1>2
    <3>2. \A x \in Chain(layer, impl[o]) : ly2[x].parent = layer[x].parent
      BY <1>2, <1>3, <1>4, <3>1, ChainFacts
    <3> QED
      BY <1>2, <3>1, <3>2, ChainKept
  <2> QED
    BY <1>4, <2>1
<1>7. SharingInv'
  BY <1>1, <1>5, <1>6 DEF SharingInv, Exclusive
<1>8. ASSUME ~aliased' PROVE Promised!Put(m, name, Query(heap, slot[s]))
  <2>1. /\ AState[m] = "mutable" /\ \A o \in Maps : AState'[o] = AState[o]
    BY <1>0, <1>1, <1>2, AStates
  <2>2. ASSUME NEW o \in Maps \ {m} PROVE AContent'[o] = AContent[o]
    <3>1. impl[o] \in Layers \cup {NoLayer} /\ impl'[o] = impl[o]
      BY <1>1, <1>2
    <3>2. top \notin Chain(layer, impl[o])
      BY <1>0, <1>1, <1>2, <1>8 DEF SharingInv, Exclusive
    <3>3. \A x \in Chain(layer, impl[o]) : layer'[x] = layer[x]
      BY <1>2, <1>3, <3>1, <3>2, ChainFacts
    <3> QED
      BY <1>5, <3>1, <3>3, ContentAsBefore
  <2>3. \A n \in Names \ {name} : FindIn(layer', heap', top, n) = FindIn(layer, heap, top, n)
    <3>1. \A x \in Chain(layer, top) : x \in Layers
      BY <1>2, ChainFacts
    <3> QED
      BY <1>3, <1>5, <3>1, FoundAsBefore
  <2>4. FindIn(layer', heap', top, name) = Query(heap, slot[s])
    <3>1. slot[s] # Absent
      BY <1>2, ValueFacts
    <3>2. FindIn(layer', heap', top, name) = Query(heap', slot[s])
      <4>1. PICK blocks2 : blocks2 = heap'
        OBVIOUS
      <4>2. Ranked(ly2) /\ ly2[top].map[name] = slot[s]
        BY <1>3, <1>4, <1>5
      <4>3. FindIn(ly2, blocks2, top, name) = Query(blocks2, slot[s])
        BY <3>1, <4>2, FoundNow
      <4> HIDE DEF FindIn, Query
      <4> QED
        BY <1>4, <4>1, <4>3
    <3>3. Query(heap, slot[s]) = slot[s].sbo
      BY NothingDangles DEF SharingInv, NoDangling
    <3>4. Query(heap', slot[s]) = slot[s].sbo
      <4>1. MapsInv' => NoDangling'
        BY NothingDangles, PTL
      <4>2. Query(heap', layer'[top].map[name]) = layer'[top].map[name].sbo
        BY <1>3, <3>1, <4>1 DEF NoDangling
      <4> QED
        BY <1>3, <4>2
    <3> QED
      BY <3>2, <3>3, <3>4
  <2> DEFINE c == [AContent[m] EXCEPT ![name] = Query(heap, slot[s])]
  <2>5. AContent'[m] = c
    <3>1. AContent[m] = [n \in Names |-> FindIn(layer, heap, top, n)]
      BY <1>0, ContentFacts
    <3>2. AContent'[m] = [n \in Names |-> FindIn(layer', heap', top, n)]
      <4>1. impl'[m] = top
        BY <1>0, <1>1
      <4> QED
        BY <4>1, ContentFacts
    <3> HIDE DEF FindIn, Query, AContent
    <3> QED
      BY <2>3, <2>4, <3>1, <3>2
  <2> HIDE DEF c
  <2>6. Promised!Become(m, "mutable", c)
    <3>1. PICK d : d = c
      OBVIOUS
    <3>2. Promised!Become(m, "mutable", d)
      BY <2>1, <2>2, <2>5, <3>1, OneBecomes
    <3> QED
      BY <3>1, <3>2 DEF Promised!Become
  <2> QED
    BY <2>1, <2>6 DEF c, Promised!Put, AState, AContent
<1> QED
  BY <1>7, <1>8

\* A map goes: the others keep alive what they need.
LEMMA DestroyImplements ==
  ASSUME SharingInv, MapsInv', NEW m \in Maps, Destroy(m)
  PROVE  SharingInv' /\ Promised!Destroy(m)
<1>1. /\ state[m] # "none" /\ UNCHANGED aliased /\ layer' = Counted(layer, impl')
      /\ state' = [state EXCEPT ![m] = "none"] /\ impl' = [impl EXCEPT ![m] = NoLayer]
  BY DEF Destroy
<1>2. /\ layer \in [Layers -> LayerRecords] /\ impl \in [Maps -> Layers \cup {NoLayer}]
      /\ state \in [Maps -> {"none", "mutable", "fixed"}] /\ NoLayer \notin Layers /\ Ranked(layer)
  BY TypesOfMaps, ConstantsDistinct DEF SharingInv, MapsInv
<1>3. PICK impls \in [Maps -> Layers \cup {NoLayer}] : impls = impl'
  BY <1>1, <1>2
<1>4. /\ impls[m] = NoLayer /\ state'[m] = "none"
      /\ \A o \in Maps \ {m} : impls[o] = impl[o] /\ state'[o] = state[o]
  BY <1>1, <1>2, <1>3
<1> DEFINE ly2 == Counted(layer, impls)
<1>5. layer' = ly2
  BY <1>1, <1>3
<1>6. /\ ly2 \in [Layers -> LayerRecords]
      /\ \A l \in Layers : ly2[l] = layer[l] \/ ly2[l] = FreeLayer
      /\ \A o \in Maps : /\ Chain(ly2, impls[o]) = Chain(layer, impls[o])
                         /\ \A x \in Chain(layer, impls[o]) : ly2[x] = layer[x]
  BY <1>2, RecycledByDestroy
<1> HIDE DEF ly2
<1>7. Ranked(ly2)
  BY <1>2, <1>6, LayerFacts, RankKept
<1>8. Exclusive'
  <2> SUFFICES ASSUME ~aliased, NEW a \in Maps, NEW b \in Maps,
                      state'[a] = "mutable", impls[a] # NoLayer, a # b
               PROVE  impls[a] \notin Chain(ly2, impls[b])
    BY <1>1, <1>3, <1>5 DEF Exclusive
  <2>1. a # m /\ state[a] = "mutable" /\ impls[a] = impl[a]
    BY <1>4
  <2>2. CASE b = m
    BY <1>4, <1>6, <2>2, ChainFacts
  <2>3. CASE b # m
    BY <1>4, <1>6, <2>1, <2>3 DEF SharingInv, Exclusive
  <2> QED
    BY <2>2, <2>3
<1>9. Ranked(layer')
  BY <1>5, <1>7
<1>10. SharingInv'
  BY <1>8, <1>9 DEF SharingInv
<1>11. /\ AState[m] # "none" /\ AState'[m] = "none"
       /\ \A o \in Maps \ {m} : AState'[o] = AState[o]
  BY <1>1, <1>2, <1>3, <1>4, AStates
<1>12. ASSUME NEW o \in Maps \ {m} PROVE AContent'[o] = AContent[o]
  <2>1. impl'[o] = impl[o] /\ impls[o] = impl[o]
    BY <1>3, <1>4
  <2>2. \A x \in Chain(layer, impl[o]) : layer'[x] = layer[x]
    BY <1>5, <1>6, <2>1
  <2> QED
    BY <1>9, <2>1, <2>2, ContentAsBefore
<1>13. AContent'[m] = Promised!Blank
  <2>1. PICK blocks2 : blocks2 = heap'
    OBVIOUS
  <2>2. \A n \in Names : FindIn(ly2, blocks2, NoLayer, n) = Absent
    BY <1>6, <1>7, FoundNow
  <2>3. AContent'[m] = [n \in Names |-> FindIn(layer', heap', impl'[m], n)]
    BY ContentFacts
  <2> HIDE DEF FindIn
  <2>4. \A n \in Names : FindIn(layer', heap', impl'[m], n) = Absent
    BY <1>3, <1>4, <1>5, <2>1, <2>2
  <2> QED
    BY <2>3, <2>4 DEF Promised!Blank
<1>14. Promised!Become(m, "none", Promised!Blank)
  BY <1>11, <1>12, <1>13, OneBecomes
<1> QED
  BY <1>10, <1>11, <1>14 DEF Promised!Destroy, AState

\* A map object that has no implementation, or a fixed map's.
LEMMA ShareImplements ==
  ASSUME SharingInv, MapsInv', NEW m \in Maps, UNCHANGED <<layer, heap, aliased>>,
         NEW l \in Layers \cup {NoLayer}, state[m] = "none",
         state' = [state EXCEPT ![m] = "fixed"], impl' = [impl EXCEPT ![m] = l],
         l = NoLayer \/ \E from \in Maps : state[from] = "fixed" /\ l = impl[from],
         NEW c, c = [n \in Names |-> FindIn(layer, heap, l, n)]
  PROVE  SharingInv' /\ AState[m] = "none" /\ Promised!Become(m, "fixed", c)
<1>1. /\ layer \in [Layers -> LayerRecords] /\ impl \in [Maps -> Layers \cup {NoLayer}]
      /\ state \in [Maps -> {"none", "mutable", "fixed"}] /\ NoLayer \notin Layers
      /\ impl[m] = NoLayer
  BY TypesOfMaps, ConstantsDistinct DEF SharingInv, MapsInv
<1>2. /\ impl'[m] = l /\ state'[m] = "fixed"
      /\ \A o \in Maps \ {m} : impl'[o] = impl[o] /\ state'[o] = state[o]
  BY <1>1
<1>3. Exclusive'
  <2> SUFFICES ASSUME ~aliased, NEW a \in Maps, NEW b \in Maps,
                      state'[a] = "mutable", impl'[a] # NoLayer, a # b
               PROVE  impl'[a] \notin Chain(layer, impl'[b])
    BY DEF Exclusive
  <2>1. a # m /\ state[a] = "mutable" /\ impl'[a] = impl[a]
    BY <1>2
  <2>2. CASE b = m
    BY <1>1, <1>2, <2>1, <2>2, ChainFacts DEF SharingInv, Exclusive
  <2>3. CASE b # m
    BY <1>2, <2>1, <2>3 DEF SharingInv, Exclusive
  <2> QED
    BY <2>2, <2>3
<1>4. SharingInv'
  BY <1>3 DEF SharingInv
<1>5. /\ AState[m] = "none" /\ AState'[m] = "fixed"
      /\ \A o \in Maps \ {m} : AState'[o] = AState[o]
  BY <1>1, <1>2, AStates
<1>6. ASSUME NEW o \in Maps \ {m} PROVE AContent'[o] = AContent[o]
  BY <1>2, <1>4, ContentAsBefore DEF SharingInv
<1>7. AContent'[m] = c
  <2>1. AContent'[m] = [n \in Names |-> FindIn(layer', heap', impl'[m], n)]
    BY ContentFacts
  <2> HIDE DEF FindIn
  <2> QED
    BY <1>2, <2>1
<1> QED
  BY <1>4, <1>5, <1>6, <1>7, OneBecomes

\* fix(): the fixed map finds what the mutable map found.
LEMMA FixImplements ==
  ASSUME SharingInv, MapsInv', NEW m \in Maps, NEW to \in Maps, Fix(m, to)
  PROVE  SharingInv' /\ Promised!Fix(m, to)
<1>1. /\ state[m] = "mutable" /\ state[to] = "none" /\ m # to
      /\ state' = [state EXCEPT ![to] = "fixed"]
      /\ impl' = [impl EXCEPT ![to] = impl[m], ![m] = NoLayer]
      /\ UNCHANGED <<layer, heap, aliased>>
  BY DEF Fix
<1>2. /\ layer \in [Layers -> LayerRecords] /\ impl \in [Maps -> Layers \cup {NoLayer}]
      /\ state \in [Maps -> {"none", "mutable", "fixed"}] /\ NoLayer \notin Layers
      /\ impl[to] = NoLayer
  BY <1>1, TypesOfMaps, ConstantsDistinct DEF SharingInv, MapsInv
<1>3. /\ impl'[m] = NoLayer /\ impl'[to] = impl[m] /\ state'[to] = "fixed" /\ state'[m] = "mutable"
      /\ \A o \in Maps \ {m, to} : impl'[o] = impl[o] /\ state'[o] = state[o]
  BY <1>1, <1>2
<1>4. Exclusive'
  <2> SUFFICES ASSUME ~aliased, NEW a \in Maps, NEW b \in Maps,
                      state'[a] = "mutable", impl'[a] # NoLayer, a # b
               PROVE  impl'[a] \notin Chain(layer, impl'[b])
    BY <1>1 DEF Exclusive
  <2>1. a \notin {m, to} /\ state[a] = "mutable" /\ impl'[a] = impl[a]
    BY <1>3
  <2>2. CASE b = m
    BY <1>2, <1>3, <2>1, <2>2, ChainFacts
  <2>3. CASE b = to
    BY <1>3, <2>1, <2>3 DEF SharingInv, Exclusive
  <2>4. CASE b \notin {m, to}
    BY <1>3, <2>1, <2>4 DEF SharingInv, Exclusive
  <2> QED
    BY <2>2, <2>3, <2>4
<1>5. SharingInv'
  BY <1>1, <1>4 DEF SharingInv
<1>6. /\ AState[m] \in {"mutable", "spent"} /\ AState[to] = "none"
      /\ AState'[m] = "spent" /\ AState'[to] = "fixed"
      /\ \A o \in Maps \ {m, to} : AState'[o] = AState[o]
  BY <1>1, <1>2, <1>3, AStates
<1>7. ASSUME NEW o \in Maps \ {m, to} PROVE AContent'[o] = AContent[o]
  BY <1>1, <1>3, <1>5, ContentAsBefore DEF SharingInv
<1>8. AContent'[to] = AContent[m]
  <2>1. /\ AContent'[to] = [n \in Names |-> FindIn(layer', heap', impl'[to], n)]
        /\ AContent[m] = [n \in Names |-> FindIn(layer, heap, impl[m], n)]
    BY ContentFacts
  <2> HIDE DEF FindIn
  <2> QED
    BY <1>1, <1>3, <2>1
<1>9. AContent'[m] = Promised!Blank
  <2>1. AContent'[m] = [n \in Names |-> FindIn(layer', heap', impl'[m], n)]
    BY ContentFacts
  <2>2. \A n \in Names : FindIn(layer, heap, NoLayer, n) = Absent
    BY <1>2, FoundNow DEF SharingInv
  <2> HIDE DEF FindIn
  <2>3. \A n \in Names : FindIn(layer', heap', impl'[m], n) = Absent
    BY <1>1, <1>3, <2>2
  <2> QED
    BY <2>1, <2>3 DEF Promised!Blank
<1>10. AState' = [AState EXCEPT ![m] = "spent", ![to] = "fixed"]
  <2>1. PICK f : f = AState
    OBVIOUS
  <2>2. PICK g : g = AState'
    OBVIOUS
  <2>3. f = [o \in Maps |-> f[o]] /\ g = [o \in Maps |-> g[o]]
    BY <2>1, <2>2 DEF AState
  <2>4. g[m] = "spent" /\ g[to] = "fixed" /\ \A o \in Maps \ {m, to} : g[o] = f[o]
    BY <1>6, <2>1, <2>2
  <2>5. g = [f EXCEPT ![m] = "spent", ![to] = "fixed"]
    BY <1>1, <2>3, <2>4
  <2> QED
    BY <2>1, <2>2, <2>5
<1>11. AContent' = [AContent EXCEPT ![m] = Promised!Blank, ![to] = AContent[m]]
  <2>1. PICK f : f = AContent
    OBVIOUS
  <2>2. PICK g : g = AContent'
    OBVIOUS
  <2>3. f = [o \in Maps |-> f[o]] /\ g = [o \in Maps |-> g[o]]
    BY <2>1, <2>2 DEF AContent
  <2>4. g[m] = Promised!Blank /\ g[to] = f[m] /\ \A o \in Maps \ {m, to} : g[o] = f[o]
    BY <1>7, <1>8, <1>9, <2>1, <2>2
  <2>5. g = [f EXCEPT ![m] = Promised!Blank, ![to] = f[m]]
    BY <1>1, <2>3, <2>4
  <2> QED
    BY <2>1, <2>2, <2>5
<1> QED
  BY <1>5, <1>6, <1>10, <1>11 DEF Promised!Fix, AState, AContent

\* A step that no map sees.
LEMMA ValuesImplement ==
  ASSUME SharingInv, MapsInv', UNCHANGED <<layer, state, impl>>, aliased => aliased'
  PROVE  SharingInv' /\ UNCHANGED Promised!vars
<1>1. SharingInv'
  BY DEF SharingInv, Exclusive
<1>2. \A o \in Maps : AContent'[o] = AContent[o]
  BY <1>1, ContentAsBefore DEF SharingInv
<1>3. AState' = AState
  BY DEF AState
<1>4. AContent' = AContent
  <2>1. PICK f : f = AContent
    OBVIOUS
  <2>2. PICK g : g = AContent'
    OBVIOUS
  <2>3. f = [o \in Maps |-> f[o]] /\ g = [o \in Maps |-> g[o]]
    BY <2>1, <2>2 DEF AContent
  <2>4. g = f
    BY <1>2, <2>1, <2>2, <2>3
  <2> QED
    BY <2>1, <2>2, <2>4
<1> QED
  BY <1>1, <1>3, <1>4 DEF Promised!vars, AState, AContent

\* A new, empty implementation finds nothing.
LEMMA NewMapImplements ==
  ASSUME SharingInv, MapsInv', NEW m \in Maps, NEW st \in {"mutable", "fixed"}, NEW l \in Layers,
         Construct(m, st, l, FreeLayer)
  PROVE  SharingInv' /\ Promised!Create(m)
<1>1. layer \in [Layers -> LayerRecords] /\ Ranked(layer)
  BY DEF SharingInv, MapsInv, TypeOK
<1> DEFINE c == [n \in Names |-> IF FreeLayer.map[n] # Absent THEN Query(heap, FreeLayer.map[n])
                                 ELSE FindIn(layer, heap, FreeLayer.parent, n)]
<1>2. \A n \in Names : FindIn(layer, heap, NoLayer, n) = Absent
  BY <1>1, FoundNow
<1>3. c = Promised!Blank
  <2> HIDE DEF FindIn, Query
  <2> QED
    BY <1>2, LayerFacts DEF Promised!Blank
<1>4. PICK d : d = c
  OBVIOUS
<1>5. FreeLayer \in LayerRecords /\ Derived(FreeLayer)
  BY LayerFacts DEF Derived
<1>6. SharingInv' /\ AState[m] = "none" /\ Promised!Become(m, st, d)
  BY <1>4, <1>5, ConstructImplements
<1> HIDE DEF c
<1> QED
  BY <1>3, <1>4, <1>6 DEF Promised!Create, AState

\* mutate() and clone(): what the fixed map finds.
LEMMA DerivedMapImplements ==
  ASSUME SharingInv, MapsInv', NEW m \in Maps, NEW from \in Maps, Mutate(m, from) \/ Clone(m, from)
  PROVE  SharingInv' /\ Promised!Derive(m, from)
<1>1. /\ state[from] = "fixed" /\ layer \in [Layers -> LayerRecords] /\ Ranked(layer)
      /\ NoLayer \notin Layers
  BY ConstantsDistinct DEF Mutate, Clone, SharingInv, MapsInv, TypeOK
<1>2. PICK k \in Layers \cup {NoLayer} : k = impl[from]
  BY DEF SharingInv, MapsInv, TypeOK
<1>3. PICK l \in Layers, record \in LayerRecords :
        /\ Construct(m, "mutable", l, record)
        /\ \/ record = NewLayer(k, Blank)
           \/ k # NoLayer /\ record = layer[k]
  <2>1. NewLayer(k, Blank) \in LayerRecords /\ (k # NoLayer => layer[k] \in LayerRecords)
    BY <1>1, LayerFacts
  <2> QED
    BY <1>2, <2>1 DEF Mutate, Clone
<1>4. Derived(record)
  <2>1. CASE k = NoLayer
    BY <1>3, <2>1, LayerFacts DEF Derived
  <2>2. CASE k # NoLayer /\ record = NewLayer(k, Blank)
    BY <1>1, <1>2, <2>2, LayerFacts, ChainFacts DEF Derived
  <2>3. CASE k # NoLayer /\ record = layer[k]
    <3>1. Closed(layer, Chain(layer, k)) /\ k \in Chain(layer, k)
      BY <1>1, <2>3, ChainFacts
    <3>2. record.parent \in Chain(layer, k) \cup {NoLayer}
      BY <2>3, <3>1 DEF Closed
    <3> QED
      BY <1>1, <1>2, <3>2 DEF Derived
  <2> QED
    BY <1>3, <2>1, <2>2, <2>3
<1> DEFINE c == [n \in Names |-> IF record.map[n] # Absent THEN Query(heap, record.map[n])
                                 ELSE FindIn(layer, heap, record.parent, n)]
<1>5. c = AContent[from]
  <2>1. AContent[from] = [n \in Names |-> FindIn(layer, heap, k, n)]
    BY <1>2, ContentFacts
  <2>2. CASE record = NewLayer(k, Blank)
    <3>1. record.parent = k /\ \A n \in Names : record.map[n] = Absent
      BY <2>2, LayerFacts
    <3> HIDE DEF FindIn, Query
    <3> QED
      BY <2>1, <3>1
  <2>3. CASE k # NoLayer /\ record = layer[k]
    <3>1. k \in Layers
      BY <2>3
    <3>2. PICK ly, blocks : ly = layer /\ blocks = heap
      OBVIOUS
    <3>3. ly \in [Layers -> LayerRecords] /\ Ranked(ly)
      BY <1>1, <3>2
    <3> HIDE DEF FindIn, Query
    <3>4. ASSUME NEW n \in Names
          PROVE  FindIn(ly, blocks, k, n) =
                   IF ly[k].map[n] # Absent THEN Query(blocks, ly[k].map[n])
                   ELSE FindIn(ly, blocks, ly[k].parent, n)
      BY <3>1, <3>3, FoundNow
    <3> QED
      BY <2>1, <2>3, <3>2, <3>4
  <2> QED
    BY <1>3, <2>2, <2>3
<1>6. PICK d : d = c
  OBVIOUS
<1>7. SharingInv' /\ AState[m] = "none" /\ Promised!Become(m, "mutable", d)
  BY <1>3, <1>4, <1>6, ConstructImplements
<1>8. AState[from] = "fixed"
  BY <1>1, AStates
<1> HIDE DEF c
<1> QED
  BY <1>5, <1>6, <1>7, <1>8 DEF Promised!Derive, Promised!Become, AState, AContent

\* What a step shows of itself, while no mutable map is copied.
Implements == ~aliased' => Promised!Next \/ UNCHANGED Promised!vars

LEMMA StepImplements ==
  ASSUME SharingInv, [Next]_vars
  PROVE  SharingInv' /\ Implements
<1>0. MapsInv'
  BY StepMaps DEF SharingInv
<1>1. /\ layer \in [Layers -> LayerRecords] /\ impl \in [Maps -> Layers \cup {NoLayer}]
      /\ Ranked(layer) /\ aliased \in BOOLEAN
  BY DEF SharingInv, MapsInv, TypeOK
<1>2. ASSUME NEW s \in Slots, DropValue(s) \/ \E v \in Values : MakeValue(s, v)
      PROVE  SharingInv' /\ Implements
  BY <1>0, <1>2, ValuesImplement DEF DropValue, MakeValue, Implements
<1>3. ASSUME NEW m \in Maps, CreateMutable(m) PROVE SharingInv' /\ Implements
  <2>1. SharingInv' /\ Promised!Create(m)
    BY <1>0, <1>3, NewMapImplements DEF CreateMutable
  <2> QED
    BY <2>1 DEF Implements, Promised!Next
<1>4. ASSUME NEW m \in Maps, CreateFixed(m) PROVE SharingInv' /\ Implements
  <2>1. CASE family = "property"
    <3>1. /\ UNCHANGED <<layer, heap, aliased>> /\ state[m] = "none"
          /\ state' = [state EXCEPT ![m] = "fixed"] /\ impl' = [impl EXCEPT ![m] = NoLayer]
      BY <1>4, <2>1 DEF CreateFixed, Share
    <3>2. PICK d : d = [n \in Names |-> FindIn(layer, heap, NoLayer, n)]
      OBVIOUS
    <3>3. SharingInv' /\ AState[m] = "none" /\ Promised!Become(m, "fixed", d)
      BY <1>0, <3>1, <3>2, ShareImplements
    <3>4. d = Promised!Blank
      <4>1. \A n \in Names : FindIn(layer, heap, NoLayer, n) = Absent
        BY <1>1, FoundNow
      <4> HIDE DEF FindIn
      <4> QED
        BY <3>2, <4>1 DEF Promised!Blank
    <3>5. Promised!Create(m)
      BY <3>3, <3>4 DEF Promised!Create, AState
    <3> QED
      BY <3>3, <3>5 DEF Implements, Promised!Next
  <2>2. CASE family # "property"
    <3>1. SharingInv' /\ Promised!Create(m)
      BY <1>0, <1>4, <2>2, NewMapImplements DEF CreateFixed
    <3> QED
      BY <3>1 DEF Implements, Promised!Next
  <2> QED
    BY <2>1, <2>2
<1>5. ASSUME NEW m \in Maps, NEW from \in Maps, Mutate(m, from) \/ Clone(m, from)
      PROVE  SharingInv' /\ Implements
  <2>1. SharingInv' /\ Promised!Derive(m, from)
    BY <1>0, <1>5, DerivedMapImplements
  <2> QED
    BY <2>1 DEF Implements, Promised!Next
<1>6. ASSUME NEW m \in Maps, NEW from \in Maps, CopyFixed(m, from) PROVE SharingInv' /\ Implements
  <2>1. PICK l \in Layers \cup {NoLayer} : l = impl[from]
    BY <1>1
  <2>2. /\ UNCHANGED <<layer, heap, aliased>> /\ state[m] = "none" /\ state[from] = "fixed"
        /\ state' = [state EXCEPT ![m] = "fixed"] /\ impl' = [impl EXCEPT ![m] = l]
    BY <1>6, <2>1 DEF CopyFixed, Share
  <2>3. PICK d : d = [n \in Names |-> FindIn(layer, heap, l, n)]
    OBVIOUS
  <2>4. SharingInv' /\ AState[m] = "none" /\ Promised!Become(m, "fixed", d)
    BY <1>0, <2>1, <2>2, <2>3, ShareImplements
  <2>5. d = AContent[from] /\ AState[from] = "fixed"
    BY <2>1, <2>2, <2>3, ContentFacts, AStates
  <2>6. Promised!Copy(m, from)
    BY <2>4, <2>5 DEF Promised!Copy, Promised!Become, AState, AContent
  <2> QED
    BY <2>4, <2>6 DEF Implements, Promised!Next
<1>7. ASSUME NEW m \in Maps, NEW from \in Maps, CopyMutable(m, from) PROVE SharingInv' /\ Implements
  BY <1>0, <1>1, <1>7 DEF CopyMutable, Share, SharingInv, Exclusive, Implements
<1>8. ASSUME NEW m \in Maps, NEW to \in Maps, Fix(m, to) PROVE SharingInv' /\ Implements
  <2>1. SharingInv' /\ Promised!Fix(m, to)
    BY <1>0, <1>8, FixImplements
  <2> QED
    BY <2>1 DEF Implements, Promised!Next
<1>9. ASSUME NEW m \in Maps, Destroy(m) PROVE SharingInv' /\ Implements
  <2>1. SharingInv' /\ Promised!Destroy(m)
    BY <1>0, <1>9, DestroyImplements
  <2> QED
    BY <2>1 DEF Implements, Promised!Next
<1>10. ASSUME NEW m \in Maps, NEW n \in Names, NEW s \in Slots, Set(m, n, s)
       PROVE  SharingInv' /\ Implements
  <2>1. SharingInv' /\ (~aliased' => Promised!Put(m, n, Query(heap, slot[s])))
    BY <1>0, <1>10, SetImplements
  <2>2. Query(heap, slot[s]) \in Values \cup {Empty}
    BY NothingDangles, ValueFacts DEF NoDangling, SharingInv, MapsInv, TypeOK
  <2> QED
    BY <2>1, <2>2 DEF Implements, Promised!Next
<1>11. CASE UNCHANGED vars
  BY <1>0, <1>11, ValuesImplement DEF vars, Implements
<1> QED
  BY <1>2, <1>3, <1>4, <1>5, <1>6, <1>7, <1>8, <1>9, <1>10, <1>11 DEF Next

LEMMA InitImplements == Init => SharingInv /\ Promised!Init
<1> SUFFICES ASSUME Init PROVE SharingInv /\ Promised!Init
  OBVIOUS
<1>1. MapsInv
  BY InitMaps
<1>2. /\ layer \in [Layers -> LayerRecords] /\ \A l \in Layers : layer[l].parent = NoLayer
      /\ \A m \in Maps : state[m] = "none" /\ impl[m] = NoLayer
  BY <1>1, LayerFacts DEF Init, MapsInv, TypeOK
<1>3. Ranked(layer)
  <2>1. RankedBy(layer, [l \in Layers |-> 0])
    BY <1>2 DEF RankedBy
  <2> QED
    BY <2>1 DEF Ranked
<1>4. AState = [m \in Maps |-> "none"]
  BY <1>2 DEF AState
<1>5. AContent = [m \in Maps |-> Promised!Blank]
  <2>1. \A n \in Names : FindIn(layer, heap, NoLayer, n) = Absent
    BY <1>2, <1>3, FoundNow
  <2>2. \A m \in Maps : AContent[m] = [n \in Names |-> FindIn(layer, heap, impl[m], n)]
    BY ContentFacts
  <2>3. AContent = [m \in Maps |-> AContent[m]]
    BY DEF AContent
  <2> HIDE DEF FindIn, AContent
  <2>4. \A m \in Maps : AContent[m] = Promised!Blank
    BY <1>2, <2>1, <2>2 DEF Promised!Blank
  <2> QED
    BY <2>3, <2>4
<1> QED
  BY <1>1, <1>2, <1>3, <1>4, <1>5 DEF SharingInv, Exclusive, Promised!Init, AState, AContent

\* Of any maps, layers, names and values, and as long as nobody copies a mutable
\* map, every step is one of maps that are values of their own: what is set is
\* found, in that map and no other, a derived map starts with what its source has,
\* and a fixed map never changes (property_map, dependency_map, mutate, fix).
THEOREM MapsImplementFixedMaps == Spec => ImplementsFixedMaps
<1> DEFINE Puts == ~aliased' => \A m \in Maps, n \in Names, s \in Slots :
                                  Set(m, n, s) => Promised!Put(m, n, Query(heap, slot[s]))
<1>1. SharingInv /\ [Next]_vars => SharingInv' /\ Implements
  BY StepImplements
<1>2. SharingInv /\ SharingInv' => Puts
  BY SetImplements DEF SharingInv
<1>3. Implements /\ Puts => (~aliased' =>
          /\ Promised!Next \/ UNCHANGED Promised!vars
          /\ \A m \in Maps, n \in Names, s \in Slots :
               Set(m, n, s) => Promised!Put(m, n, Query(heap, slot[s])))
  BY DEF Implements
<1> HIDE DEF Puts
<1> QED
  BY <1>1, <1>2, <1>3, InitImplements, PTL DEF Spec, ImplementsFixedMaps

=============================================================================
