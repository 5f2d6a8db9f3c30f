-------------------------- MODULE EntityKeysProofs --------------------------
(***************************************************************************)
(* What keys can be relied on for, for any documents of any depth, any     *)
(* paths and any number of keys: they lead to what they used, they are     *)
(* equal when they used the same, and they can be the keys of a map.       *)
(***************************************************************************)
EXTENDS EntityKeys, FiniteSetTheorems, SequenceTheorems, WellFoundedInduction, TLAPS

----------------------------------------------------------------------------
(* The keys: their types, and that a fixed one leads to its elements.      *)

KeyTypeOK ==
  /\ key \in [KeyObjects -> [state : {"none", "mutable", "fixed"},
                             doc : Documents \cup {""}, index : SUBSET Paths]]
  /\ \A k \in KeyObjects : key[k].state # "none" => key[k].doc \in Documents

KeyInv == KeyTypeOK /\ FixedKeysResolve

\* What an object becomes is all that a step has to be asked about.
LEMMA BecomeKeepsInv ==
  ASSUME KeyInv, NEW k \in KeyObjects, NEW record,
         record \in [state : {"none", "mutable", "fixed"},
                     doc : Documents \cup {""}, index : SUBSET Paths],
         record.state # "none" => record.doc \in Documents,
         record.state = "fixed" => Resolves(record),
         Become(k, record)
  PROVE  KeyInv'
<1>1. /\ \A j \in KeyObjects : key'[j] = IF j = k THEN record ELSE key[j]
      /\ key' = [key EXCEPT ![k] = record]
  BY DEF Become, KeyInv, KeyTypeOK
<1>2. KeyTypeOK'
  BY <1>1 DEF KeyInv, KeyTypeOK
<1>3. FixedKeysResolve'
  <2> SUFFICES ASSUME NEW j \in KeyObjects, key'[j].state = "fixed"
               PROVE  Resolves(key'[j])
    BY DEF FixedKeysResolve, Fixed
  <2>1. CASE j = k
    BY <2>1, <1>1
  <2>2. CASE j # k
    BY <2>2, <1>1 DEF KeyInv, FixedKeysResolve, Fixed
  <2> QED BY <2>1, <2>2
<1> QED BY <1>2, <1>3 DEF KeyInv

\* Every operation of a key keeps what is known of it.
LEMMA KeyStep == KeyInv /\ [KeysNext]_key => KeyInv'
<1> SUFFICES ASSUME KeyInv, [KeysNext]_key PROVE KeyInv'
  OBVIOUS
<1> USE DEF KeyInv, KeyTypeOK
<1>1. ASSUME NEW k \in KeyObjects, NEW d \in Documents, NEW index \in Indexes, CreateKey(k, d, index)
      PROVE  KeyInv'
  <2>1. PICK s \in {"mutable", "fixed"} :
          LET record == [state |-> s, doc |-> d, index |-> index]
          IN  (s = "fixed" => Resolves(record)) /\ Become(k, record)
    BY <1>1 DEF CreateKey
  <2>2. index \in SUBSET Paths
    BY DEF Paths
  <2> QED BY <2>1, <2>2, BecomeKeepsInv
<1>2. ASSUME NEW k \in KeyObjects, NEW from \in KeyObjects, CopyKey(k, from) PROVE KeyInv'
  <2>1. key[from].state = "fixed" => Resolves(key[from])
    BY DEF FixedKeysResolve, Fixed
  <2> QED BY <1>2, <2>1, BecomeKeepsInv DEF CopyKey
<1>3. ASSUME NEW k \in KeyObjects, NEW from \in KeyObjects, MutateKey(k, from) PROVE KeyInv'
  BY <1>3, BecomeKeepsInv DEF MutateKey
<1>4. ASSUME NEW k \in KeyObjects, NEW other \in KeyObjects, MergeKey(k, other) PROVE KeyInv'
  BY <1>4, BecomeKeepsInv DEF MergeKey
<1>5. ASSUME NEW k \in KeyObjects, NEW to \in KeyObjects, FixKey(k, to) PROVE KeyInv'
  <2>1. Resolves([key[k] EXCEPT !.state = "fixed"])
    BY <1>5 DEF FixKey, Resolves, Used
  <2> QED BY <1>5, <2>1, BecomeKeepsInv DEF FixKey
<1>6. ASSUME NEW k \in KeyObjects, NEW written \in Written, UsePath(k, written) PROVE KeyInv'
  <2>1. ToPath(Dissect(written)) \in Paths
    BY DEF Paths
  <2> QED BY <1>6, <2>1, BecomeKeepsInv DEF UsePath
<1>7. ASSUME NEW k \in KeyObjects, DestroyKey(k) PROVE KeyInv'
  BY <1>7, BecomeKeepsInv DEF DestroyKey, NoKey
<1>8. CASE UNCHANGED key
  BY <1>8 DEF FixedKeysResolve, Fixed
<1> QED BY <1>1, <1>2, <1>3, <1>4, <1>5, <1>6, <1>7, <1>8 DEF KeysNext

LEMMA KeysInvariant == KeysSpec => []KeyInv
<1>1. KeysInit => KeyInv
  <2> SUFFICES ASSUME KeysInit PROVE KeyInv
    OBVIOUS
  <2>1. \A k \in KeyObjects : key[k] = NoKey
    BY DEF KeysInit
  <2>2. KeyTypeOK
    BY <2>1 DEF KeysInit, NoKey, KeyTypeOK
  <2>3. NoKey.state = "none"
    BY DEF NoKey
  <2>4. FixedKeysResolve
    BY <2>1, <2>3 DEF FixedKeysResolve, Fixed
  <2> QED BY <2>2, <2>4 DEF KeyInv
<1> QED BY <1>1, KeyStep, PTL DEF KeysSpec

\* Every path of a fixed key leads to an element of its document, so that it can
\* be compared and printed: fix() finds every path or throws, and what merge()
\* takes over from keys of other documents has to pass it too
\* (immutable_key.cpp:8-21, mutable_key.cpp:35-49).
THEOREM FixedKeysLeadSomewhere == KeysSpec => []FixedKeysResolve
<1>1. KeyInv => FixedKeysResolve
  BY DEF KeyInv
<1> QED BY <1>1, KeysInvariant, PTL

----------------------------------------------------------------------------
(* The recursive functions of JSON values exist.  Each is determined, at a *)
(* value, by what it is at the parts of the value.                         *)

BytesFrom(f, v) ==
  CASE v.kind = "object" -> BytesOfObject(f, v)
    [] v.kind = "array"  -> FlattenSeq([i \in DOMAIN v.of |-> f[v.of[i]]])
    [] OTHER -> v.bytes

SameFrom(f, v) == [w \in JsonValues |->
  /\ Class(v.kind) = Class(w.kind)
  /\ CASE v.kind = "object" ->
            /\ Len(v.of) = Len(w.of)
            /\ \A i \in DOMAIN v.of : \E j \in DOMAIN w.of :
                 v.of[i][1] = w.of[j][1] /\ f[v.of[i][2]][w.of[j][2]]
       [] v.kind = "array" ->
            Len(v.of) = Len(w.of) /\ \A i \in DOMAIN v.of : f[v.of[i]][w.of[i]]
       [] OTHER -> v.of = w.of /\ ~IsNaN(v)]

CanonicalFrom(f, v) ==
  CASE v.kind = "object" ->
         <<"object", {<<v.of[i][1], f[v.of[i][2]]>> : i \in DOMAIN v.of}>>
    [] v.kind = "array" -> <<"array", [i \in DOMAIN v.of |-> f[v.of[i]]]>>
    [] OTHER -> <<Class(v.kind), <<v.of, v.bytes>>>>

RegularFrom(f, v) ==
  CASE v.kind = "object" -> \A i \in DOMAIN v.of : f[v.of[i][2]]
    [] v.kind = "array"  -> \A i \in DOMAIN v.of : f[v.of[i]]
    [] OTHER -> ~IsNaN(v)

From(tag, f, v) ==
  CASE tag = "bytes" -> BytesFrom(f, v)
    [] tag = "same" -> SameFrom(f, v)
    [] tag = "regular" -> RegularFrom(f, v)
    [] OTHER -> CanonicalFrom(f, v)

\* A name of an object is that of one member, whose value is a part of it.
LEMMA MembersAreParts ==
  ASSUME NEW v \in JsonValues, v.kind = "object"
  PROVE  /\ \A i \in DOMAIN v.of : /\ v.of[i][1] \in MemberNames(v)
                                   /\ v.of[i][2] \in Parts(v)
                                   /\ Member(v, v.of[i][1]) = v.of[i][2]
         /\ \A name \in MemberNames(v) : /\ Member(v, name) \in Parts(v)
                                   /\ \E i \in DOMAIN v.of : v.of[i] = <<name, Member(v, name)>>
<1>1. /\ v.of \in Seq(STRING \X JsonValues)
      /\ \A i, j \in DOMAIN v.of : v.of[i][1] = v.of[j][1] => i = j
  BY ValuesAssumption
<1>2. Parts(v) = {v.of[i][2] : i \in DOMAIN v.of}
  BY DEF Parts
<1>3. \A i \in DOMAIN v.of : v.of[i][1] \in MemberNames(v) /\ v.of[i][2] \in Parts(v)
  BY <1>2 DEF MemberNames
<1>4. ASSUME NEW i \in DOMAIN v.of PROVE Member(v, v.of[i][1]) = v.of[i][2]
  <2>1. (CHOOSE j \in DOMAIN v.of : v.of[j][1] = v.of[i][1]) = i
    BY <1>1
  <2> QED BY <2>1, <1>3 DEF Member
<1>5. \A i \in DOMAIN v.of : v.of[i] = <<v.of[i][1], v.of[i][2]>>
  BY <1>1
<1> QED BY <1>3, <1>4, <1>5 DEF MemberNames

\* The parts of a value are values, nested less deeply.
LEMMA PartsAreValues ==
  ASSUME NEW v \in JsonValues
  PROVE  /\ Parts(v) \subseteq JsonValues
         /\ Depth[v] \in Nat
         /\ \A part \in Parts(v) : Depth[part] \in Nat /\ Depth[part] < Depth[v]
<1>1. CASE v.kind = "object"
  <2>1. v.of \in Seq(STRING \X JsonValues)
    BY <1>1, ValuesAssumption
  <2>2. \A i \in DOMAIN v.of : v.of[i][2] \in JsonValues
    BY <2>1
  <2>3. Parts(v) = {v.of[i][2] : i \in DOMAIN v.of}
    BY <1>1 DEF Parts
  <2> QED BY <2>2, <2>3, ValuesAssumption
<1>2. CASE v.kind = "array"
  <2>1. v.of \in Seq(JsonValues)
    BY <1>2, ValuesAssumption
  <2>2. Parts(v) = {v.of[i] : i \in DOMAIN v.of}
    BY <1>2 DEF Parts
  <2> QED BY <2>1, <2>2, ValuesAssumption
<1>3. CASE v.kind # "object" /\ v.kind # "array"
  BY <1>3, ValuesAssumption DEF Parts
<1> QED BY <1>1, <1>2, <1>3

\* So each of the four needs to be known at the parts only.
LEMMA PartsDecide ==
  ASSUME NEW tag, NEW v \in JsonValues, NEW f, NEW g,
         \A part \in Parts(v) : f[part] = g[part]
  PROVE  From(tag, f, v) = From(tag, g, v)
<1>1. CASE v.kind = "object"
  <2>1. /\ \A i \in DOMAIN v.of : f[v.of[i][2]] = g[v.of[i][2]]
        /\ \A name \in MemberNames(v) : f[Member(v, name)] = g[Member(v, name)]
    BY <1>1, MembersAreParts
  <2>2. BytesFrom(f, v) = BytesFrom(g, v)
    BY <1>1, <2>1 DEF BytesFrom, BytesOfObject
  <2>3. SameFrom(f, v) = SameFrom(g, v)
    BY <1>1, <2>1 DEF SameFrom
  <2>4. CanonicalFrom(f, v) = CanonicalFrom(g, v)
    BY <1>1, <2>1 DEF CanonicalFrom
  <2>5. RegularFrom(f, v) = RegularFrom(g, v)
    BY <1>1, <2>1 DEF RegularFrom
  <2> QED BY <2>2, <2>3, <2>4, <2>5 DEF From
<1>2. CASE v.kind = "array"
  <2>1. \A i \in DOMAIN v.of : f[v.of[i]] = g[v.of[i]]
    BY <1>2 DEF Parts
  <2>2. BytesFrom(f, v) = BytesFrom(g, v)
    BY <1>2, <2>1 DEF BytesFrom
  <2>3. SameFrom(f, v) = SameFrom(g, v)
    BY <1>2, <2>1 DEF SameFrom
  <2>4. CanonicalFrom(f, v) = CanonicalFrom(g, v)
    BY <1>2, <2>1 DEF CanonicalFrom
  <2>5. RegularFrom(f, v) = RegularFrom(g, v)
    BY <1>2, <2>1 DEF RegularFrom
  <2> QED BY <2>2, <2>3, <2>4, <2>5 DEF From
<1>3. CASE v.kind # "object" /\ v.kind # "array"
  BY <1>3 DEF From, BytesFrom, SameFrom, CanonicalFrom, RegularFrom
<1> QED BY <1>1, <1>2, <1>3

\* A set of naturals with a member has a least one.
LEMMA LeastNatural ==
  ASSUME NEW T, T \subseteq Nat, T # {}
  PROVE  \E n \in T : \A m \in T : ~ m < n
<1> DEFINE R == {p \in Nat \X Nat : p[1] < p[2]}
<1>1. R = OpToRel(<, Nat)
  BY DEF OpToRel
<1>2. IsWellFoundedOn(R, Nat)
  BY <1>1, NatLessThanWellFounded
<1>3. PICK n \in T : \A m \in T : <<m, n>> \notin R
  BY <1>2, WFMin
<1> QED BY <1>3

\* A function that solves one of the recursions on a set of values.
Solves(tag, f, S) == f = [v \in S |-> From(tag, f, v)]

\* A set of values that contains their parts.
Closed(S) == S \subseteq JsonValues /\ \A v \in S : Parts(v) \subseteq S

Shallow(n) == {v \in JsonValues : Depth[v] < n}

LEMMA ShallowIsClosed == ASSUME NEW n \in Nat PROVE Closed(Shallow(n))
BY PartsAreValues DEF Closed, Shallow

\* Two solutions agree where both are defined.
LEMMA SolutionsAgree ==
  ASSUME NEW tag, NEW S, NEW U, Closed(S), Closed(U),
         NEW f, NEW g, Solves(tag, f, S), Solves(tag, g, U)
  PROVE  \A v \in S \cap U : f[v] = g[v]
<1> DEFINE T == {Depth[v] : v \in {w \in S \cap U : f[w] # g[w]}}
<1> SUFFICES ASSUME T # {} PROVE FALSE
  OBVIOUS
<1>1. T \subseteq Nat
  BY PartsAreValues DEF Closed
<1>2. PICK n \in T : \A m \in T : ~ m < n
  BY <1>1, LeastNatural
<1>3. PICK v \in S \cap U : f[v] # g[v] /\ Depth[v] = n
  BY <1>2
<1>4. ASSUME NEW part \in Parts(v) PROVE f[part] = g[part]
  <2>1. part \in S \cap U /\ Depth[part] < n
    BY <1>3, PartsAreValues DEF Closed
  <2> QED BY <2>1, <1>2
<1>5. From(tag, f, v) = From(tag, g, v)
  BY <1>3, <1>4, PartsDecide DEF Closed
<1> QED BY <1>3, <1>5 DEF Solves

\* There is a solution for a set if there is one below each of its values.
LEMMA SolutionFromBelow ==
  ASSUME NEW tag, NEW S, Closed(S),
         \A v \in S : \E f : Solves(tag, f, Shallow(Depth[v]))
  PROVE  \E f : Solves(tag, f, S)
<1> DEFINE below == [v \in S |-> CHOOSE f : Solves(tag, f, Shallow(Depth[v]))]
           f == [v \in S |-> From(tag, below[v], v)]
<1>1. \A v \in S : Solves(tag, below[v], Shallow(Depth[v]))
  OBVIOUS
<1> HIDE DEF below
<1>2. ASSUME NEW v \in S PROVE From(tag, f, v) = From(tag, below[v], v)
  <2>1. ASSUME NEW part \in Parts(v) PROVE f[part] = below[v][part]
    <3>1. /\ part \in S /\ part \in JsonValues
          /\ part \in Shallow(Depth[v])
          /\ Parts(part) \subseteq Shallow(Depth[part]) \cap Shallow(Depth[v])
          /\ Depth[part] \in Nat /\ Depth[v] \in Nat
      BY PartsAreValues DEF Closed, Shallow
    <3>2. \A w \in Parts(part) : below[part][w] = below[v][w]
      <4> DEFINE A == Shallow(Depth[part])
                 B == Shallow(Depth[v])
      <4>1. Closed(A) /\ Closed(B)
        BY <3>1, ShallowIsClosed
      <4>2. Solves(tag, below[part], A) /\ Solves(tag, below[v], B)
        BY <3>1, <1>1
      <4> HIDE DEF A, B
      <4>3. \A w \in A \cap B : below[part][w] = below[v][w]
        BY <4>1, <4>2, SolutionsAgree
      <4> QED BY <3>1, <4>3 DEF A, B
    <3>3. From(tag, below[part], part) = From(tag, below[v], part)
      BY <3>1, <3>2, PartsDecide
    <3>4. below[v][part] = From(tag, below[v], part)
      BY <3>1, <1>1 DEF Solves
    <3> QED BY <3>1, <3>3, <3>4
  <2> QED BY <2>1, PartsDecide DEF Closed
<1>3. Solves(tag, f, S)
  BY <1>2 DEF Solves
<1> QED BY <1>3

\* Each of the recursions has a solution.
LEMMA SolutionExists == \A tag : \E f : Solves(tag, f, JsonValues)
<1> SUFFICES ASSUME NEW tag PROVE \E f : Solves(tag, f, JsonValues)
  OBVIOUS
<1> DEFINE T == {n \in Nat : ~ \E f : Solves(tag, f, Shallow(n))}
<1>1. T = {}
  <2> SUFFICES ASSUME T # {} PROVE FALSE
    OBVIOUS
  <2>1. PICK n \in T : \A m \in T : ~ m < n
    BY LeastNatural
  <2>2. \A v \in Shallow(n) : Depth[v] \in Nat /\ Depth[v] < n
    BY PartsAreValues DEF Shallow
  <2>3. \A v \in Shallow(n) : \E f : Solves(tag, f, Shallow(Depth[v]))
    BY <2>1, <2>2
  <2> QED BY <2>1, <2>3, ShallowIsClosed, SolutionFromBelow
<1>2. \A v \in JsonValues : \E f : Solves(tag, f, Shallow(Depth[v]))
  BY <1>1, PartsAreValues
<1>3. Closed(JsonValues)
  BY PartsAreValues DEF Closed
<1> QED BY <1>2, <1>3, SolutionFromBelow

\* So the four functions are what their definitions say.
LEMMA BytesUnfold == Bytes = [v \in JsonValues |-> BytesFrom(Bytes, v)]
<1>1. PICK f : Solves("bytes", f, JsonValues)
  BY SolutionExists
<1>2. f = [v \in JsonValues |-> BytesFrom(f, v)]
  BY <1>1 DEF Solves, From
<1>3. Bytes = CHOOSE g : g = [v \in JsonValues |-> BytesFrom(g, v)]
  BY DEF Bytes, BytesFrom
<1> QED BY <1>2, <1>3

LEMMA SameUnfold == Same = [v \in JsonValues |-> SameFrom(Same, v)]
<1>1. PICK f : Solves("same", f, JsonValues)
  BY SolutionExists
<1>2. f = [v \in JsonValues |-> SameFrom(f, v)]
  BY <1>1 DEF Solves, From
<1>3. Same = CHOOSE g : g = [v \in JsonValues |-> SameFrom(g, v)]
  BY DEF Same, SameFrom
<1> QED BY <1>2, <1>3

LEMMA CanonicalUnfold == Canonical = [v \in JsonValues |-> CanonicalFrom(Canonical, v)]
<1>1. PICK f : Solves("canonical", f, JsonValues)
  BY SolutionExists
<1>2. f = [v \in JsonValues |-> CanonicalFrom(f, v)]
  BY <1>1 DEF Solves, From
<1>3. Canonical = CHOOSE g : g = [v \in JsonValues |-> CanonicalFrom(g, v)]
  BY DEF Canonical, CanonicalFrom
<1> QED BY <1>2, <1>3

LEMMA RegularUnfold == Regular = [v \in JsonValues |-> RegularFrom(Regular, v)]
<1>1. PICK f : Solves("regular", f, JsonValues)
  BY SolutionExists
<1>2. f = [v \in JsonValues |-> RegularFrom(f, v)]
  BY <1>1 DEF Solves, From
<1>3. Regular = CHOOSE g : g = [v \in JsonValues |-> RegularFrom(g, v)]
  BY DEF Regular, RegularFrom
<1> QED BY <1>2, <1>3

----------------------------------------------------------------------------
(* Concatenations of pieces: when the pieces of two have the same lengths, *)
(* the concatenations are equal only if the pieces are.                    *)

Pieces(n) == [1 .. n -> Seq(STRING)]

Grown(f, s, n) == f = [i \in 1 .. n |-> IF i = 1 THEN s[i] ELSE f[i - 1] \o s[i]]

LEMMA GrownExists == ASSUME NEW s, NEW n \in Nat PROVE \E f : Grown(f, s, n)
<1> DEFINE Stuck == {m \in Nat : ~ \E f : Grown(f, s, m)}
<1> SUFFICES ASSUME Stuck # {} PROVE FALSE
  OBVIOUS
<1>1. PICK m \in Stuck : \A k \in Stuck : ~ k < m
  BY LeastNatural
<1>2. m \in Nat /\ ~ \E f : Grown(f, s, m)
  BY <1>1
<1>3. m # 0
  <2>1. Grown([i \in 1 .. 0 |-> s[i]], s, 0)
    BY DEF Grown
  <2> QED BY <2>1, <1>2
<1>4. m - 1 \in Nat /\ m - 1 < m
  BY <1>2, <1>3
<1>5. PICK f : Grown(f, s, m - 1)
  BY <1>1, <1>4
<1> DEFINE g == [i \in 1 .. m |-> IF i = 1 THEN s[i] ELSE f[i - 1] \o s[i]]
<1>6. \A i \in 1 .. m - 1 : i \in 1 .. m
  BY <1>2
<1>7. \A i \in 1 .. m - 1 : g[i] = f[i]
  BY <1>5, <1>6 DEF Grown
<1>8. \A i \in 1 .. m : i # 1 => i - 1 \in 1 .. m - 1
  BY <1>2
<1>9. \A i \in 1 .. m : i # 1 => g[i - 1] = f[i - 1]
  <2> HIDE DEF g
  <2> QED BY <1>7, <1>8
<1>10. Grown(g, s, m)
  BY <1>9 DEF Grown
<1> QED BY <1>2, <1>10

\* f[i] is the concatenation of the first i pieces.
Begins(f, s, n) == f[0] = <<>> /\ \A i \in 1 .. n : f[i] = f[i - 1] \o s[i]

LEMMA FlattenBegins ==
  ASSUME NEW n \in Nat, NEW s \in Pieces(n)
  PROVE  \E f : Begins(f, s, n) /\ FlattenSeq(s) = f[n]
<1>1. Len(s) = n /\ s \in Seq(Seq(STRING))
  BY DEF Pieces
<1>2. CASE n = 0
  <2>1. s = <<>>
    BY <1>1, <1>2, EmptySeq
  <2>2. FlattenSeq(s) = <<>>
    BY <1>1, <1>2, <2>1 DEF FlattenSeq
  <2> DEFINE f == [i \in {0} |-> <<>>]
  <2>3. f[0] = <<>> /\ \A i \in 1 .. 0 : FALSE
    OBVIOUS
  <2>4. Begins(f, s, n)
    BY <1>2, <2>3 DEF Begins
  <2> QED BY <1>2, <2>2, <2>3, <2>4
<1>3. CASE n # 0
  <2> DEFINE flatten == CHOOSE f : Grown(f, s, n)
  <2>1. Grown(flatten, s, n)
    BY GrownExists
  <2>2. FlattenSeq(s) = flatten[n]
    BY <1>1, <1>3 DEF FlattenSeq, Grown
  <2> HIDE DEF flatten
  <2>3. \A i \in 1 .. n : flatten[i] = IF i = 1 THEN s[i] ELSE flatten[i - 1] \o s[i]
    BY <2>1 DEF Grown
  <2> DEFINE f == [i \in 0 .. n |-> IF i = 0 THEN <<>> ELSE flatten[i]]
  <2>4. f[0] = <<>> /\ \A i \in 1 .. n : f[i] = flatten[i]
    OBVIOUS
  <2>5. \A i \in 1 .. n : s[i] \in Seq(STRING)
    BY DEF Pieces
  <2> HIDE DEF f
  <2>6. \A i \in 1 .. n : f[i] = f[i - 1] \o s[i]
    <3> SUFFICES ASSUME NEW i \in 1 .. n PROVE f[i] = f[i - 1] \o s[i]
      OBVIOUS
    <3>1. CASE i = 1
      <4>1. f[i] = s[i] /\ f[i - 1] = <<>>
        BY <3>1, <2>3, <2>4
      <4>2. <<>> \o s[i] = s[i]
        BY <2>5, ConcatEmptySeq
      <4> QED BY <4>1, <4>2
    <3>2. CASE i # 1
      <4>1. i - 1 \in 1 .. n
        BY <3>2
      <4>2. f[i - 1] = flatten[i - 1] /\ f[i] = flatten[i]
        BY <4>1, <2>4
      <4> QED BY <3>2, <4>2, <2>3
    <3> QED BY <3>1, <3>2
  <2>7. n \in 1 .. n
    BY <1>3
  <2> QED BY <2>2, <2>4, <2>6, <2>7 DEF Begins
<1> QED BY <1>2, <1>3

LEMMA BeginsTyped ==
  ASSUME NEW n \in Nat, NEW s \in Pieces(n), NEW f, Begins(f, s, n)
  PROVE  \A i \in 0 .. n : f[i] \in Seq(STRING)
<1> DEFINE Wrong == {i \in 0 .. n : f[i] \notin Seq(STRING)}
<1> SUFFICES ASSUME Wrong # {} PROVE FALSE
  OBVIOUS
<1>1. PICK i \in Wrong : \A k \in Wrong : ~ k < i
  <2>1. Wrong \subseteq Nat
    OBVIOUS
  <2> HIDE DEF Wrong
  <2> QED BY <2>1, LeastNatural
<1>2. i \in 0 .. n /\ f[i] \notin Seq(STRING)
  BY <1>1
<1>3. <<>> \in Seq(STRING)
  BY EmptySeq
<1>4. i # 0
  BY <1>2, <1>3 DEF Begins
<1>5. i - 1 \in 0 .. n /\ i - 1 < i /\ i \in 1 .. n
  BY <1>2, <1>4
<1>6. f[i - 1] \in Seq(STRING)
  BY <1>1, <1>5
<1>7. s[i] \in Seq(STRING)
  BY <1>5 DEF Pieces
<1>8. f[i - 1] \o s[i] \in Seq(STRING)
  BY <1>6, <1>7, ConcatProperties
<1> QED BY <1>2, <1>5, <1>8 DEF Begins

LEMMA FlattenTyped ==
  ASSUME NEW n \in Nat, NEW s \in Pieces(n)
  PROVE  FlattenSeq(s) \in Seq(STRING)
BY FlattenBegins, BeginsTyped

\* Of sequences that begin with pieces of the same length.
LEMMA ConcatDecided ==
  \A a, b, c, d \in Seq(STRING) : Len(a) = Len(c) /\ a \o b = c \o d => a = c /\ b = d
<1> SUFFICES ASSUME NEW a \in Seq(STRING), NEW b \in Seq(STRING),
                    NEW c \in Seq(STRING), NEW d \in Seq(STRING),
                    Len(a) = Len(c), a \o b = c \o d
             PROVE  a = c /\ b = d
  OBVIOUS
<1>1. /\ Len(a \o b) = Len(a) + Len(b) /\ Len(c \o d) = Len(c) + Len(d)
      /\ \A i \in 1 .. Len(a) + Len(b) :
           (a \o b)[i] = IF i <= Len(a) THEN a[i] ELSE b[i - Len(a)]
      /\ \A i \in 1 .. Len(c) + Len(d) :
           (c \o d)[i] = IF i <= Len(c) THEN c[i] ELSE d[i - Len(c)]
  BY ConcatProperties
<1>2. Len(a) \in Nat /\ Len(b) \in Nat /\ Len(d) \in Nat
  OBVIOUS
<1>3. Len(b) = Len(d)
  BY <1>1, <1>2
<1>4. ASSUME NEW i \in 1 .. Len(a) PROVE a[i] = c[i]
  <2>1. i \in 1 .. Len(a) + Len(b) /\ i <= Len(a)
    BY <1>2
  <2> QED BY <2>1, <1>1, <1>3
<1>5. a = c
  BY <1>4, SeqEqual
<1> QED BY <1>5, ConcatSimplifications

\* Two concatenations of as many pieces, each of the length of its counterpart.
Matched(n, s, t) ==
  s \in Pieces(n) /\ t \in Pieces(n) /\ \A i \in 1 .. n : Len(s[i]) = Len(t[i])

LEMMA BeginsMatched ==
  ASSUME NEW n \in Nat, NEW s, NEW t, Matched(n, s, t),
         NEW f, NEW g, Begins(f, s, n), Begins(g, t, n)
  PROVE  \A i \in 0 .. n : Len(f[i]) = Len(g[i])
<1> DEFINE Wrong == {i \in 0 .. n : Len(f[i]) # Len(g[i])}
<1> SUFFICES ASSUME Wrong # {} PROVE FALSE
  OBVIOUS
<1>1. PICK i \in Wrong : \A k \in Wrong : ~ k < i
  <2>1. Wrong \subseteq Nat
    OBVIOUS
  <2> HIDE DEF Wrong
  <2> QED BY <2>1, LeastNatural
<1>2. i \in 0 .. n /\ Len(f[i]) # Len(g[i])
  BY <1>1
<1>3. i # 0
  BY <1>2 DEF Begins
<1>4. i - 1 \in 0 .. n /\ i - 1 < i /\ i \in 1 .. n
  BY <1>2, <1>3
<1>5. Len(f[i - 1]) = Len(g[i - 1])
  BY <1>1, <1>4
<1>6. /\ f[i - 1] \in Seq(STRING) /\ s[i] \in Seq(STRING)
      /\ g[i - 1] \in Seq(STRING) /\ t[i] \in Seq(STRING)
  BY <1>4, BeginsTyped DEF Matched, Pieces
<1>7. /\ Len(f[i]) = Len(f[i - 1]) + Len(s[i])
      /\ Len(g[i]) = Len(g[i - 1]) + Len(t[i])
  <2>1. f[i] = f[i - 1] \o s[i] /\ g[i] = g[i - 1] \o t[i]
    BY <1>4 DEF Begins
  <2>2. \A a, b \in Seq(STRING) : Len(a \o b) = Len(a) + Len(b)
    BY ConcatProperties
  <2> QED BY <1>6, <2>1, <2>2
<1>8. Len(s[i]) = Len(t[i])
  BY <1>4 DEF Matched
<1> QED BY <1>2, <1>5, <1>7, <1>8

LEMMA FlattenDecided ==
  ASSUME NEW n \in Nat, NEW s, NEW t, Matched(n, s, t)
  PROVE  /\ Len(FlattenSeq(s)) = Len(FlattenSeq(t))
         /\ FlattenSeq(s) = FlattenSeq(t) => \A i \in 1 .. n : s[i] = t[i]
<1>1. s \in Pieces(n) /\ t \in Pieces(n)
  BY DEF Matched
<1>2. PICK f : Begins(f, s, n) /\ FlattenSeq(s) = f[n]
  BY <1>1, FlattenBegins
<1>3. PICK g : Begins(g, t, n) /\ FlattenSeq(t) = g[n]
  BY <1>1, FlattenBegins
<1>4. \A i \in 0 .. n : Len(f[i]) = Len(g[i])
  BY <1>2, <1>3, BeginsMatched
<1>5. \A i \in 0 .. n : f[i] \in Seq(STRING) /\ g[i] \in Seq(STRING)
  BY <1>1, <1>2, <1>3, BeginsTyped
<1>6. n \in 0 .. n
  OBVIOUS
<1> DEFINE Wrong == {i \in 0 .. n : f[i] = g[i] /\ \E j \in 1 .. i : s[j] # t[j]}
<1>7. Wrong = {}
  <2> SUFFICES ASSUME Wrong # {} PROVE FALSE
    OBVIOUS
  <2>1. PICK i \in Wrong : \A k \in Wrong : ~ k < i
    <3>1. Wrong \subseteq Nat
      OBVIOUS
    <3> HIDE DEF Wrong
    <3> QED BY <3>1, LeastNatural
  <2>2. i \in 0 .. n /\ f[i] = g[i] /\ \E j \in 1 .. i : s[j] # t[j]
    BY <2>1
  <2>3. i \in 1 .. n /\ i - 1 \in 0 .. n /\ i - 1 < i
    BY <2>2
  <2>4. f[i] = f[i - 1] \o s[i] /\ g[i] = g[i - 1] \o t[i]
    BY <1>2, <1>3, <2>3 DEF Begins
  <2>5. s[i] \in Seq(STRING) /\ t[i] \in Seq(STRING)
    BY <1>1, <2>3 DEF Pieces
  <2>6. Len(f[i - 1]) = Len(g[i - 1]) /\ f[i - 1] \in Seq(STRING) /\ g[i - 1] \in Seq(STRING)
    BY <1>4, <1>5, <2>3
  <2>7. f[i - 1] = g[i - 1] /\ s[i] = t[i]
    <3>1. PICK a \in Seq(STRING), b \in Seq(STRING) : a = f[i - 1] /\ b = s[i]
      BY <2>5, <2>6
    <3>2. PICK c \in Seq(STRING), d \in Seq(STRING) : c = g[i - 1] /\ d = t[i]
      BY <2>5, <2>6
    <3>3. Len(a) = Len(c)
      BY <3>1, <3>2, <2>6
    <3>4. a \o b = c \o d
      BY <3>1, <3>2, <2>2, <2>4
    <3>5. a = c /\ b = d
      BY <3>3, <3>4, ConcatDecided
    <3> QED BY <3>1, <3>2, <3>5
  <2>8. i - 1 \notin Wrong
    BY <2>1, <2>3
  <2>9. \A j \in 1 .. i - 1 : s[j] = t[j]
    BY <2>3, <2>7, <2>8
  <2>10. \A j \in 1 .. i : j = i \/ j \in 1 .. i - 1
    BY <2>3
  <2> QED BY <2>2, <2>7, <2>9, <2>10
<1>8. f[n] = g[n] => \A i \in 1 .. n : s[i] = t[i]
  BY <1>6, <1>7
<1> QED BY <1>2, <1>3, <1>4, <1>6, <1>8

----------------------------------------------------------------------------
(* operator== and the hash together tell values apart as their canonical  *)
(* forms do, if nothing in them is not a number.                           *)

\* An object has as many names as members.
LEMMA NamesCounted ==
  ASSUME NEW v \in JsonValues, v.kind = "object"
  PROVE  IsFiniteSet(MemberNames(v)) /\ Cardinality(MemberNames(v)) = Len(v.of) /\ Len(v.of) \in Nat
<1>1. /\ v.of \in Seq(STRING \X JsonValues)
      /\ \A i, j \in DOMAIN v.of : v.of[i][1] = v.of[j][1] => i = j
  BY ValuesAssumption
<1> DEFINE f == [i \in 1 .. Len(v.of) |-> v.of[i][1]]
<1>2. Len(v.of) \in Nat /\ DOMAIN v.of = 1 .. Len(v.of)
  BY <1>1
<1>3. f \in Bijection(1 .. Len(v.of), MemberNames(v))
  <2>1. MemberNames(v) = {v.of[i][1] : i \in 1 .. Len(v.of)}
    BY <1>2 DEF MemberNames
  <2>2. \A i, j \in 1 .. Len(v.of) : f[i] = f[j] => i = j
    BY <1>1, <1>2
  <2>3. f \in [1 .. Len(v.of) -> MemberNames(v)]
    BY <2>1
  <2>4. \A name \in MemberNames(v) : \E i \in 1 .. Len(v.of) : f[i] = name
    BY <2>1
  <2> HIDE DEF f
  <2> QED BY <2>2, <2>3, <2>4 DEF Bijection, Injection, Surjection, IsInjective
<1>4. ExistsBijection(1 .. Len(v.of), MemberNames(v))
  BY <1>3 DEF ExistsBijection
<1> QED BY <1>2, <1>4, FS_CountingElements, FS_Bijection, FS_Interval

\* The places of an object or an array, and what an object has there.
Slots(v) == DOMAIN v.of
NameAt(v, i) == v.of[i][1]
PartAt(v, i) == v.of[i][2]
Both(a, b) == <<a, b>>

LEMMA BothDecided == \A a, b, c, d : Both(a, b) = Both(c, d) <=> a = c /\ b = d
BY DEF Both

LEMMA ObjectSlots ==
  ASSUME NEW v \in JsonValues, v.kind = "object"
  PROVE  /\ MemberNames(v) = {NameAt(v, i) : i \in Slots(v)}
         /\ \A i, j \in Slots(v) : NameAt(v, i) = NameAt(v, j) => i = j
         /\ \A i \in Slots(v) : /\ NameAt(v, i) \in MemberNames(v)
                               /\ PartAt(v, i) \in Parts(v) /\ PartAt(v, i) \in JsonValues
                               /\ Member(v, NameAt(v, i)) = PartAt(v, i)
<1>1. MemberNames(v) = {NameAt(v, i) : i \in Slots(v)}
  BY DEF MemberNames, NameAt, Slots
<1>2. \A i, j \in Slots(v) : NameAt(v, i) = NameAt(v, j) => i = j
  BY ValuesAssumption DEF NameAt, Slots
<1>3. \A i \in Slots(v) : /\ NameAt(v, i) \in MemberNames(v) /\ PartAt(v, i) \in Parts(v)
                         /\ Member(v, NameAt(v, i)) = PartAt(v, i)
  BY MembersAreParts DEF NameAt, PartAt, Slots
<1> QED BY <1>1, <1>2, <1>3, PartsAreValues

\* The pairs of an object's canonical form, and the elements of an array's.
Pairs(v) == {Both(NameAt(v, i), Canonical[PartAt(v, i)]) : i \in Slots(v)}
Elements(v) == [i \in Slots(v) |-> Canonical[v.of[i]]]

\* Integers are compared whatever their kinds are; otherwise the kinds matter.
LEMMA Kinds ==
  ASSUME NEW v \in JsonValues
  PROVE  /\ Class(v.kind) = "object" <=> v.kind = "object"
         /\ Class(v.kind) = "array" <=> v.kind = "array"
         /\ Class(v.kind) = "double" <=> v.kind = "double"
BY DEF Class

\* The canonical form tells the kinds apart.
LEMMA CanonicalByKind ==
  ASSUME NEW v \in JsonValues
  PROVE  /\ v.kind = "object" => Canonical[v] = Both("object", Pairs(v))
         /\ v.kind = "array" => Canonical[v] = Both("array", Elements(v))
         /\ v.kind \notin {"object", "array"} =>
              Canonical[v] = Both(Class(v.kind), Both(v.of, v.bytes))
<1>1. Canonical[v] = CanonicalFrom(Canonical, v)
  BY CanonicalUnfold
<1>2. CASE v.kind = "object"
  BY <1>1, <1>2 DEF CanonicalFrom, Both, Pairs, NameAt, PartAt, Slots
<1>3. CASE v.kind = "array"
  BY <1>1, <1>3 DEF CanonicalFrom, Both, Elements, Slots
<1>4. CASE v.kind # "object" /\ v.kind # "array"
  BY <1>1, <1>4 DEF CanonicalFrom, Both
<1> QED BY <1>2, <1>3, <1>4

LEMMA CanonicalClass ==
  ASSUME NEW v \in JsonValues, NEW w \in JsonValues, Canonical[v] = Canonical[w]
  PROVE  /\ Class(v.kind) = Class(w.kind)
         /\ v.kind = "object" <=> w.kind = "object"
         /\ v.kind = "array" <=> w.kind = "array"
         /\ v.kind = "double" <=> w.kind = "double"
<1>1. ASSUME NEW u \in JsonValues PROVE \E x : Canonical[u] = Both(Class(u.kind), x)
  <2>1. Class("object") = "object" /\ Class("array") = "array"
    BY DEF Class
  <2> QED BY <2>1, CanonicalByKind
<1>2. Class(v.kind) = Class(w.kind)
  BY <1>1, BothDecided
<1> QED BY <1>2, Kinds

\* What operator== says, by kind.
SameMembers(v, w) ==
  /\ Len(v.of) = Len(w.of)
  /\ \A i \in Slots(v) : \E j \in Slots(w) :
       NameAt(v, i) = NameAt(w, j) /\ Same[PartAt(v, i)][PartAt(w, j)]

SameElements(v, w) ==
  Len(v.of) = Len(w.of) /\ \A i \in Slots(v) : Same[v.of[i]][w.of[i]]

LEMMA SameByKind ==
  ASSUME NEW v \in JsonValues, NEW w \in JsonValues
  PROVE  /\ v.kind = "object" => (Same[v][w] <=> w.kind = "object" /\ SameMembers(v, w))
         /\ v.kind = "array" => (Same[v][w] <=> w.kind = "array" /\ SameElements(v, w))
         /\ v.kind \notin {"object", "array"} =>
              (Same[v][w] <=> Class(v.kind) = Class(w.kind) /\ v.of = w.of /\ ~IsNaN(v))
<1>1. Same[v] = SameFrom(Same, v)
  BY SameUnfold
<1>2. CASE v.kind = "object"
  <2>1. Same[v][w] <=> Class(v.kind) = Class(w.kind) /\ SameMembers(v, w)
    BY <1>1, <1>2 DEF SameFrom, SameMembers, NameAt, PartAt, Slots
  <2>2. Class(v.kind) = Class(w.kind) <=> w.kind = "object"
    BY <1>2, Kinds
  <2> QED BY <1>2, <2>1, <2>2
<1>3. CASE v.kind = "array"
  <2>1. Same[v][w] <=> Class(v.kind) = Class(w.kind) /\ SameElements(v, w)
    BY <1>1, <1>3 DEF SameFrom, SameElements, Slots
  <2>2. Class(v.kind) = Class(w.kind) <=> w.kind = "array"
    BY <1>3, Kinds
  <2> QED BY <1>3, <2>1, <2>2
<1>4. CASE v.kind # "object" /\ v.kind # "array"
  <2>1. Same[v][w] <=> Class(v.kind) = Class(w.kind) /\ v.of = w.of /\ ~IsNaN(v)
    BY <1>1, <1>4 DEF SameFrom
  <2> QED BY <1>4, <2>1
<1> QED BY <1>2, <1>3, <1>4

\* What is regular, by kind.
LEMMA RegularByKind ==
  ASSUME NEW v \in JsonValues
  PROVE  /\ v.kind = "object" => (Regular[v] <=> \A i \in Slots(v) : Regular[PartAt(v, i)])
         /\ v.kind = "array" => (Regular[v] <=> \A i \in Slots(v) : Regular[v.of[i]])
         /\ v.kind \notin {"object", "array"} => (Regular[v] <=> ~IsNaN(v))
<1>1. Regular[v] = RegularFrom(Regular, v)
  BY RegularUnfold
<1>2. CASE v.kind = "object"
  <2>1. Regular[v] <=> \A i \in Slots(v) : Regular[PartAt(v, i)]
    BY <1>1, <1>2 DEF RegularFrom, PartAt, Slots
  <2> QED BY <1>2, <2>1
<1>3. CASE v.kind = "array"
  <2>1. Regular[v] <=> \A i \in Slots(v) : Regular[v.of[i]]
    BY <1>1, <1>3 DEF RegularFrom, Slots
  <2> QED BY <1>3, <2>1
<1>4. CASE v.kind # "object" /\ v.kind # "array"
  <2>1. Regular[v] <=> ~IsNaN(v)
    BY <1>1, <1>4 DEF RegularFrom
  <2> QED BY <1>4, <2>1
<1> QED BY <1>2, <1>3, <1>4

LEMMA ArraySlots ==
  ASSUME NEW v \in JsonValues, v.kind = "array"
  PROVE  /\ Len(v.of) \in Nat /\ Slots(v) = 1 .. Len(v.of)
         /\ \A i \in Slots(v) : v.of[i] \in Parts(v) /\ v.of[i] \in JsonValues
<1>1. v.of \in Seq(JsonValues)
  BY ValuesAssumption
<1>2. \A i \in Slots(v) : v.of[i] \in Parts(v)
  BY DEF Parts, Slots
<1> QED BY <1>1, <1>2, PartsAreValues DEF Slots

LEMMA ElementsDecided ==
  ASSUME NEW v, NEW w
  PROVE  Elements(v) = Elements(w) <=>
           Slots(v) = Slots(w) /\ \A i \in Slots(v) : Canonical[v.of[i]] = Canonical[w.of[i]]
<1>1. DOMAIN Elements(v) = Slots(v) /\ DOMAIN Elements(w) = Slots(w)
  BY DEF Elements
<1>2. /\ \A i \in Slots(v) : Elements(v)[i] = Canonical[v.of[i]]
      /\ \A i \in Slots(w) : Elements(w)[i] = Canonical[w.of[i]]
  BY DEF Elements
<1>3. ASSUME Elements(v) = Elements(w)
      PROVE  Slots(v) = Slots(w) /\ \A i \in Slots(v) : Canonical[v.of[i]] = Canonical[w.of[i]]
  BY <1>1, <1>2, <1>3
<1>4. ASSUME Slots(v) = Slots(w), \A i \in Slots(v) : Canonical[v.of[i]] = Canonical[w.of[i]]
      PROVE  Elements(v) = Elements(w)
  BY <1>4 DEF Elements
<1> QED BY <1>3, <1>4

LEMMA NamesOfPairs ==
  ASSUME NEW v \in JsonValues, NEW w \in JsonValues, v.kind = "object", w.kind = "object",
         Pairs(v) \subseteq Pairs(w)
  PROVE  MemberNames(v) \subseteq MemberNames(w)
<1> SUFFICES ASSUME NEW i \in Slots(v) PROVE NameAt(v, i) \in MemberNames(w)
  BY ObjectSlots
<1>1. Both(NameAt(v, i), Canonical[PartAt(v, i)]) \in Pairs(w)
  BY DEF Pairs
<1>2. PICK j \in Slots(w) : Both(NameAt(v, i), Canonical[PartAt(v, i)])
                              = Both(NameAt(w, j), Canonical[PartAt(w, j)])
  BY <1>1 DEF Pairs
<1> QED BY <1>2, BothDecided, ObjectSlots

\* The members of objects that are the same are the same by their names.
LEMMA SameByName ==
  ASSUME NEW v \in JsonValues, NEW w \in JsonValues, v.kind = "object", w.kind = "object",
         SameMembers(v, w)
  PROVE  /\ MemberNames(v) = MemberNames(w)
         /\ \A name \in MemberNames(v) : Same[Member(v, name)][Member(w, name)]
<1>1. /\ Len(v.of) = Len(w.of)
      /\ \A i \in Slots(v) : \E j \in Slots(w) :
           NameAt(v, i) = NameAt(w, j) /\ Same[PartAt(v, i)][PartAt(w, j)]
  BY DEF SameMembers
<1>2. MemberNames(v) \in SUBSET MemberNames(w)
  BY <1>1, ObjectSlots
<1>3. MemberNames(v) = MemberNames(w)
  BY <1>1, <1>2, NamesCounted, FS_Subset
<1>4. ASSUME NEW name \in MemberNames(v) PROVE Same[Member(v, name)][Member(w, name)]
  <2>1. PICK i \in Slots(v) : name = NameAt(v, i)
    BY ObjectSlots
  <2>2. PICK j \in Slots(w) : NameAt(v, i) = NameAt(w, j) /\ Same[PartAt(v, i)][PartAt(w, j)]
    BY <1>1
  <2> QED BY <2>1, <2>2, ObjectSlots
<1> QED BY <1>3, <1>4

\* The pieces that the bytes of an object or an array are put together from.
PieceOf(v, i) ==
  IF NameOrder[i] \in MemberNames(v) THEN <<NameOrder[i]>> \o Bytes[Member(v, NameOrder[i])]
                                    ELSE <<>>
ObjectPieces(v) == [i \in 1 .. Len(NameOrder) |-> PieceOf(v, i)]
ArrayPieces(v) == [i \in 1 .. Len(v.of) |-> Bytes[v.of[i]]]

LEMMA NamesInOrder ==
  /\ Len(NameOrder) \in Nat
  /\ \A i \in 1 .. Len(NameOrder) : NameOrder[i] \in STRING
  /\ \A v \in JsonValues : v.kind = "object" =>
       \A name \in MemberNames(v) : \E i \in 1 .. Len(NameOrder) : NameOrder[i] = name
<1>1. NameOrder \in Seq(STRING)
  BY OrdersAssumption
<1>2. Len(NameOrder) \in Nat /\ DOMAIN NameOrder = 1 .. Len(NameOrder)
  BY <1>1
<1>3. \A i \in 1 .. Len(NameOrder) : NameOrder[i] \in STRING
  BY <1>1, ElementOfSeq
<1> QED BY <1>2, <1>3, OrdersAssumption

LEMMA BytesByKind ==
  ASSUME NEW v \in JsonValues
  PROVE  /\ v.kind = "object" => Bytes[v] = FlattenSeq(ObjectPieces(v))
         /\ v.kind = "array" => Bytes[v] = FlattenSeq(ArrayPieces(v))
         /\ v.kind \notin {"object", "array"} => Bytes[v] = v.bytes
<1>1. Bytes[v] = BytesFrom(Bytes, v)
  BY BytesUnfold
<1>2. CASE v.kind = "object"
  <2>1. DOMAIN NameOrder = 1 .. Len(NameOrder)
    BY OrdersAssumption
  <2>2. BytesOfObject(Bytes, v) = FlattenSeq(ObjectPieces(v))
    BY <2>1 DEF BytesOfObject, ObjectPieces, PieceOf
  <2> QED BY <1>1, <1>2, <2>2 DEF BytesFrom
<1>3. CASE v.kind = "array"
  <2>1. DOMAIN v.of = 1 .. Len(v.of)
    BY <1>3, ArraySlots DEF Slots
  <2> QED BY <1>1, <1>3, <2>1 DEF BytesFrom, ArrayPieces
<1>4. CASE v.kind # "object" /\ v.kind # "array"
  BY <1>1, <1>4 DEF BytesFrom
<1> QED BY <1>2, <1>3, <1>4

LEMMA SingleSeq == ASSUME NEW S, NEW x \in S PROVE <<x>> \in Seq(S) /\ Len(<<x>>) = 1
OBVIOUS

\* A name in front of bytes.
LEMMA Named ==
  ASSUME NEW name \in STRING, NEW a \in Seq(STRING)
  PROVE  <<name>> \o a \in Seq(STRING) /\ Len(<<name>> \o a) = 1 + Len(a)
<1>1. <<name>> \in Seq(STRING) /\ Len(<<name>>) = 1
  BY SingleSeq
<1>2. PICK b \in Seq(STRING) : b = <<name>> /\ Len(b) = 1
  BY <1>1
<1>3. b \o a \in Seq(STRING) /\ Len(b \o a) = 1 + Len(a)
  BY <1>2, ConcatProperties
<1> QED BY <1>2, <1>3

LEMMA PiecesTyped ==
  ASSUME NEW v \in JsonValues, \A part \in Parts(v) : Bytes[part] \in Seq(STRING)
  PROVE  /\ v.kind = "object" => ObjectPieces(v) \in Pieces(Len(NameOrder))
         /\ v.kind = "array" => ArrayPieces(v) \in Pieces(Len(v.of))
<1>1. ASSUME v.kind = "object", NEW i \in 1 .. Len(NameOrder) PROVE PieceOf(v, i) \in Seq(STRING)
  <2>1. NameOrder[i] \in STRING
    BY NamesInOrder
  <2>2. CASE NameOrder[i] \in MemberNames(v)
    <3>1. Bytes[Member(v, NameOrder[i])] \in Seq(STRING)
      BY <1>1, <2>2, MembersAreParts
    <3> QED BY <2>1, <2>2, <3>1, Named DEF PieceOf
  <2>3. CASE NameOrder[i] \notin MemberNames(v)
    BY <2>3, EmptySeq DEF PieceOf
  <2> QED BY <2>2, <2>3
<1>2. ASSUME v.kind = "array", NEW i \in 1 .. Len(v.of) PROVE Bytes[v.of[i]] \in Seq(STRING)
  BY <1>2, ArraySlots
<1> QED BY <1>1, <1>2 DEF ObjectPieces, ArrayPieces, Pieces

LEMMA BytesTyped == \A v \in JsonValues : Bytes[v] \in Seq(STRING)
<1> DEFINE Wrong == {v \in JsonValues : Bytes[v] \notin Seq(STRING)}
           T == {Depth[v] : v \in Wrong}
<1> SUFFICES ASSUME T # {} PROVE FALSE
  OBVIOUS
<1>1. T \subseteq Nat
  BY PartsAreValues
<1>2. PICK n \in T : \A m \in T : ~ m < n
  BY <1>1, LeastNatural
<1>3. PICK v \in Wrong : Depth[v] = n
  OBVIOUS
<1>4. \A part \in Parts(v) : part \in JsonValues /\ part \notin Wrong
  BY <1>2, <1>3, PartsAreValues
<1>5. v \in JsonValues /\ \A part \in Parts(v) : Bytes[part] \in Seq(STRING)
  BY <1>3, <1>4
<1>6. CASE v.kind = "object"
  BY <1>3, <1>5, <1>6, PiecesTyped, NamesInOrder, FlattenTyped, BytesByKind
<1>7. CASE v.kind = "array"
  BY <1>3, <1>5, <1>7, PiecesTyped, ArraySlots, FlattenTyped, BytesByKind
<1>8. CASE v.kind \notin {"object", "array"}
  BY <1>3, <1>5, <1>8, LeavesAssumption, BytesByKind DEF Leaves
<1> QED BY <1>6, <1>7, <1>8

\* What is the same is put together from as many pieces of the same lengths.
LEMMA SameIsMatched ==
  ASSUME NEW v \in JsonValues, NEW w \in JsonValues, Same[v][w],
         \A part \in Parts(v), x \in JsonValues :
           Same[part][x] => Len(Bytes[part]) = Len(Bytes[x])
  PROVE  /\ v.kind = "object" =>
              w.kind = "object" /\ Matched(Len(NameOrder), ObjectPieces(v), ObjectPieces(w))
         /\ v.kind = "array" =>
              /\ w.kind = "array" /\ Len(v.of) = Len(w.of)
              /\ Matched(Len(v.of), ArrayPieces(v), ArrayPieces(w))
<1>1. ASSUME NEW u \in JsonValues PROVE \A part \in Parts(u) : Bytes[part] \in Seq(STRING)
  BY BytesTyped, PartsAreValues
<1>2. CASE v.kind = "object"
  <2>1. w.kind = "object" /\ SameMembers(v, w)
    BY <1>2, SameByKind
  <2>2. /\ MemberNames(v) = MemberNames(w)
        /\ \A name \in MemberNames(v) : Same[Member(v, name)][Member(w, name)]
    BY <1>2, <2>1, SameByName
  <2>3. ASSUME NEW i \in 1 .. Len(NameOrder) PROVE Len(PieceOf(v, i)) = Len(PieceOf(w, i))
    <3>1. CASE NameOrder[i] \in MemberNames(v)
      <4> DEFINE a == Bytes[Member(v, NameOrder[i])]
                 b == Bytes[Member(w, NameOrder[i])]
      <4>1. Member(v, NameOrder[i]) \in Parts(v) /\ Member(w, NameOrder[i]) \in Parts(w)
        BY <1>2, <2>1, <2>2, <3>1, MembersAreParts
      <4>2. a \in Seq(STRING) /\ b \in Seq(STRING)
        BY <1>1, <4>1
      <4>3. Len(a) = Len(b)
        BY <2>2, <3>1, <4>1, PartsAreValues
      <4>4. PieceOf(v, i) = <<NameOrder[i]>> \o a /\ PieceOf(w, i) = <<NameOrder[i]>> \o b
        BY <2>2, <3>1 DEF PieceOf
      <4> HIDE DEF a, b
      <4>5. NameOrder[i] \in STRING
        BY NamesInOrder
      <4> QED BY <4>2, <4>3, <4>4, <4>5, Named
    <3>2. CASE NameOrder[i] \notin MemberNames(v)
      BY <2>2, <3>2 DEF PieceOf
    <3> QED BY <3>1, <3>2
  <2>4. /\ ObjectPieces(v) \in Pieces(Len(NameOrder))
        /\ ObjectPieces(w) \in Pieces(Len(NameOrder))
    BY <1>1, <1>2, <2>1, PiecesTyped
  <2>5. \A i \in 1 .. Len(NameOrder) : Len(ObjectPieces(v)[i]) = Len(ObjectPieces(w)[i])
    BY <2>3 DEF ObjectPieces
  <2> QED BY <1>2, <2>1, <2>4, <2>5 DEF Matched
<1>3. CASE v.kind = "array"
  <2>1. w.kind = "array" /\ SameElements(v, w)
    BY <1>3, SameByKind
  <2>2. Len(v.of) = Len(w.of) /\ Slots(v) = 1 .. Len(v.of) /\ Slots(w) = 1 .. Len(v.of)
    BY <1>3, <2>1, ArraySlots DEF SameElements
  <2>3. ASSUME NEW i \in 1 .. Len(v.of) PROVE Len(Bytes[v.of[i]]) = Len(Bytes[w.of[i]])
    <3>1. Same[v.of[i]][w.of[i]]
      BY <2>1, <2>2 DEF SameElements
    <3>2. v.of[i] \in Parts(v) /\ w.of[i] \in JsonValues
      BY <1>3, <2>1, <2>2, ArraySlots
    <3> QED BY <3>1, <3>2
  <2>4. ArrayPieces(v) \in Pieces(Len(v.of)) /\ ArrayPieces(w) \in Pieces(Len(v.of))
    BY <1>1, <1>3, <2>1, <2>2, PiecesTyped
  <2>5. \A i \in 1 .. Len(v.of) : Len(ArrayPieces(v)[i]) = Len(ArrayPieces(w)[i])
    BY <2>2, <2>3 DEF ArrayPieces
  <2> QED BY <1>3, <2>1, <2>2, <2>4, <2>5 DEF Matched
<1> QED BY <1>2, <1>3

\* What operator== takes for the same is hashed to as many bytes.
LEMMA SameLength ==
  \A v, w \in JsonValues : Same[v][w] => Len(Bytes[v]) = Len(Bytes[w])
<1> DEFINE Wrong == {v \in JsonValues : \E w \in JsonValues :
                       Same[v][w] /\ Len(Bytes[v]) # Len(Bytes[w])}
           T == {Depth[v] : v \in Wrong}
<1> SUFFICES ASSUME T # {} PROVE FALSE
  OBVIOUS
<1>1. T \subseteq Nat
  BY PartsAreValues
<1>2. PICK n \in T : \A m \in T : ~ m < n
  BY <1>1, LeastNatural
<1>3. PICK v \in Wrong : Depth[v] = n
  OBVIOUS
<1>4. \A part \in Parts(v) : part \in JsonValues /\ part \notin Wrong
  BY <1>2, <1>3, PartsAreValues
<1>5. \A part \in Parts(v), x \in JsonValues :
        Same[part][x] => Len(Bytes[part]) = Len(Bytes[x])
  BY <1>4
<1>6. PICK w \in JsonValues : Same[v][w] /\ Len(Bytes[v]) # Len(Bytes[w])
  BY <1>3
<1>7. v \in JsonValues
  BY <1>3
<1> HIDE DEF Wrong, T
<1>8. CASE v.kind = "object"
  <2>1. w.kind = "object" /\ Matched(Len(NameOrder), ObjectPieces(v), ObjectPieces(w))
    BY <1>5, <1>6, <1>7, <1>8, SameIsMatched
  <2>2. Len(FlattenSeq(ObjectPieces(v))) = Len(FlattenSeq(ObjectPieces(w)))
    BY <2>1, NamesInOrder, FlattenDecided
  <2> QED BY <1>6, <1>7, <1>8, <2>1, <2>2, BytesByKind
<1>9. CASE v.kind = "array"
  <2>1. w.kind = "array" /\ Matched(Len(v.of), ArrayPieces(v), ArrayPieces(w))
    BY <1>5, <1>6, <1>7, <1>9, SameIsMatched
  <2>2. Len(v.of) \in Nat
    BY <1>7, <1>9, ArraySlots
  <2>3. Len(FlattenSeq(ArrayPieces(v))) = Len(FlattenSeq(ArrayPieces(w)))
    BY <2>1, <2>2, FlattenDecided
  <2> QED BY <1>6, <1>7, <1>9, <2>1, <2>3, BytesByKind
<1>10. CASE v.kind \notin {"object", "array"}
  <2>1. Class(v.kind) = Class(w.kind) /\ v.of = w.of
    BY <1>6, <1>7, <1>10, SameByKind
  <2>2. w.kind \notin {"object", "array"}
    BY <1>7, <1>10, <2>1, Kinds
  <2>3. v \in Leaves /\ w \in Leaves
    BY <1>7, <1>10, <2>2 DEF Leaves
  <2>4. Len(v.bytes) = Len(w.bytes)
    BY <2>1, <2>3, LeavesAssumption
  <2> QED BY <1>6, <1>7, <1>10, <2>2, <2>4, BytesByKind
<1> QED BY <1>8, <1>9, <1>10

\* Equal canonical forms of objects match member by member, those of arrays element
\* by element.
LEMMA CanonicalObjects ==
  ASSUME NEW v \in JsonValues, NEW w \in JsonValues, v.kind = "object", w.kind = "object",
         Canonical[v] = Canonical[w]
  PROVE  /\ MemberNames(v) = MemberNames(w) /\ Len(v.of) = Len(w.of)
         /\ \A i \in Slots(v) : \E j \in Slots(w) :
              NameAt(v, i) = NameAt(w, j) /\ Canonical[PartAt(v, i)] = Canonical[PartAt(w, j)]
<1>1. Pairs(v) = Pairs(w)
  BY CanonicalByKind, BothDecided
<1>2. MemberNames(v) = MemberNames(w)
  <2>1. MemberNames(v) \subseteq MemberNames(w) /\ MemberNames(w) \subseteq MemberNames(v)
    BY <1>1, NamesOfPairs
  <2> QED BY <2>1
<1>3. ASSUME NEW i \in Slots(v)
      PROVE  \E j \in Slots(w) :
               NameAt(v, i) = NameAt(w, j) /\ Canonical[PartAt(v, i)] = Canonical[PartAt(w, j)]
  <2>1. Both(NameAt(v, i), Canonical[PartAt(v, i)]) \in Pairs(w)
    BY <1>1 DEF Pairs
  <2>2. PICK j \in Slots(w) : Both(NameAt(v, i), Canonical[PartAt(v, i)])
                                = Both(NameAt(w, j), Canonical[PartAt(w, j)])
    BY <2>1 DEF Pairs
  <2> QED BY <2>2, BothDecided
<1> QED BY <1>2, <1>3, NamesCounted

LEMMA CanonicalArrays ==
  ASSUME NEW v \in JsonValues, NEW w \in JsonValues, v.kind = "array", w.kind = "array",
         Canonical[v] = Canonical[w]
  PROVE  /\ Len(v.of) = Len(w.of)
         /\ \A i \in 1 .. Len(v.of) : Canonical[v.of[i]] = Canonical[w.of[i]]
<1>1. Elements(v) = Elements(w)
  BY CanonicalByKind, BothDecided
<1>2. Slots(v) = Slots(w) /\ \A i \in Slots(v) : Canonical[v.of[i]] = Canonical[w.of[i]]
  BY <1>1, ElementsDecided
<1>3. v.of \in Seq(JsonValues) /\ w.of \in Seq(JsonValues)
  BY ValuesAssumption
<1>4. Len(v.of) = Len(w.of)
  BY <1>2, <1>3 DEF Slots
<1> QED BY <1>2, <1>4, ArraySlots

\* Objects with the same names and members of equal canonical form have one, too.
LEMMA ObjectsCanonical ==
  ASSUME NEW v \in JsonValues, NEW w \in JsonValues, v.kind = "object", w.kind = "object",
         MemberNames(v) = MemberNames(w),
         \A name \in MemberNames(v) : Canonical[Member(v, name)] = Canonical[Member(w, name)]
  PROVE  Canonical[v] = Canonical[w]
<1>1. ASSUME NEW i \in Slots(v)
      PROVE  Both(NameAt(v, i), Canonical[PartAt(v, i)]) \in Pairs(w)
  <2>1. NameAt(v, i) \in MemberNames(w) /\ Member(v, NameAt(v, i)) = PartAt(v, i)
    BY ObjectSlots
  <2>2. PICK j \in Slots(w) : NameAt(v, i) = NameAt(w, j)
    BY <2>1, ObjectSlots
  <2>3. Canonical[PartAt(v, i)] = Canonical[PartAt(w, j)]
    BY <2>1, <2>2, ObjectSlots
  <2> QED BY <2>2, <2>3 DEF Pairs
<1>2. ASSUME NEW j \in Slots(w)
      PROVE  Both(NameAt(w, j), Canonical[PartAt(w, j)]) \in Pairs(v)
  <2>1. NameAt(w, j) \in MemberNames(v) /\ Member(w, NameAt(w, j)) = PartAt(w, j)
    BY ObjectSlots
  <2>2. PICK i \in Slots(v) : NameAt(v, i) = NameAt(w, j)
    BY <2>1, ObjectSlots
  <2>3. Canonical[PartAt(v, i)] = Canonical[PartAt(w, j)]
    BY <2>1, <2>2, ObjectSlots
  <2> QED BY <2>2, <2>3 DEF Pairs
<1>3. Pairs(v) = Pairs(w)
  BY <1>1, <1>2 DEF Pairs
<1> QED BY <1>3, CanonicalByKind

LEMMA BytesIfParts ==
  ASSUME NEW v \in JsonValues, NEW w \in JsonValues, Canonical[v] = Canonical[w],
         \A part \in Parts(v), x \in JsonValues :
           Canonical[part] = Canonical[x] => Bytes[part] = Bytes[x]
  PROVE  Bytes[v] = Bytes[w]
<1>1. Bytes[v] = BytesFrom(Bytes, v) /\ Bytes[w] = BytesFrom(Bytes, w)
  BY BytesUnfold
<1>2. CASE v.kind = "object"
  <2>1. w.kind = "object"
    BY <1>2, CanonicalClass
  <2>2. /\ MemberNames(v) = MemberNames(w)
        /\ \A i \in Slots(v) : \E j \in Slots(w) :
             NameAt(v, i) = NameAt(w, j) /\ Canonical[PartAt(v, i)] = Canonical[PartAt(w, j)]
    BY <1>2, <2>1, CanonicalObjects
  <2>3. ASSUME NEW name \in MemberNames(v) PROVE Bytes[Member(v, name)] = Bytes[Member(w, name)]
    <3>1. PICK i \in Slots(v) : name = NameAt(v, i)
      BY <1>2, ObjectSlots
    <3>2. PICK j \in Slots(w) :
            NameAt(v, i) = NameAt(w, j) /\ Canonical[PartAt(v, i)] = Canonical[PartAt(w, j)]
      BY <2>2
    <3>3. /\ Member(v, name) = PartAt(v, i) /\ PartAt(v, i) \in Parts(v)
          /\ Member(w, name) = PartAt(w, j) /\ PartAt(w, j) \in JsonValues
      BY <1>2, <2>1, <3>1, <3>2, ObjectSlots
    <3> QED BY <3>2, <3>3
  <2>4. BytesOfObject(Bytes, v) = BytesOfObject(Bytes, w)
    BY <2>2, <2>3 DEF BytesOfObject
  <2> QED BY <1>1, <1>2, <2>1, <2>4 DEF BytesFrom
<1>3. CASE v.kind = "array"
  <2>1. w.kind = "array"
    BY <1>3, CanonicalClass
  <2>2. Len(v.of) = Len(w.of) /\ \A i \in 1 .. Len(v.of) : Canonical[v.of[i]] = Canonical[w.of[i]]
    BY <1>3, <2>1, CanonicalArrays
  <2>3. \A i \in 1 .. Len(v.of) : Bytes[v.of[i]] = Bytes[w.of[i]]
    BY <1>3, <2>1, <2>2, ArraySlots
  <2>4. DOMAIN v.of = 1 .. Len(v.of) /\ DOMAIN w.of = 1 .. Len(v.of)
    BY <1>3, <2>1, <2>2, ArraySlots DEF Slots
  <2> QED BY <1>1, <1>3, <2>1, <2>3, <2>4 DEF BytesFrom
<1>4. CASE v.kind # "object" /\ v.kind # "array"
  <2>1. w.kind # "object" /\ w.kind # "array"
    BY <1>4, CanonicalClass
  <2>2. v.bytes = w.bytes
    BY <1>4, <2>1, CanonicalByKind, BothDecided
  <2> QED BY <1>1, <1>4, <2>1, <2>2 DEF BytesFrom
<1> QED BY <1>2, <1>3, <1>4

\* What has the same canonical form is hashed alike.
LEMMA SameBytes ==
  \A v, w \in JsonValues : Canonical[v] = Canonical[w] => Bytes[v] = Bytes[w]
<1> DEFINE Wrong == {v \in JsonValues : \E w \in JsonValues :
                       Canonical[v] = Canonical[w] /\ Bytes[v] # Bytes[w]}
           T == {Depth[v] : v \in Wrong}
<1> SUFFICES ASSUME T # {} PROVE FALSE
  OBVIOUS
<1>1. T \subseteq Nat
  BY PartsAreValues
<1>2. PICK n \in T : \A m \in T : ~ m < n
  BY <1>1, LeastNatural
<1>3. PICK v \in Wrong : Depth[v] = n
  OBVIOUS
<1>4. \A part \in Parts(v) : part \in JsonValues /\ part \notin Wrong
  BY <1>2, <1>3, PartsAreValues
<1>5. \A part \in Parts(v), x \in JsonValues :
        Canonical[part] = Canonical[x] => Bytes[part] = Bytes[x]
  BY <1>4
<1>6. \A w \in JsonValues : Canonical[v] = Canonical[w] => Bytes[v] = Bytes[w]
  BY <1>5, BytesIfParts
<1> QED BY <1>6

\* What is the same, and hashed alike, is so in every part, and so its canonical
\* form is the same.
LEMMA ExactParts ==
  ASSUME NEW v \in JsonValues, NEW w \in JsonValues, Same[v][w], Bytes[v] = Bytes[w],
         \A part \in Parts(v), x \in JsonValues :
           Same[part][x] /\ Bytes[part] = Bytes[x]
             => Canonical[part] = Canonical[x] /\ Regular[part]
  PROVE  Canonical[v] = Canonical[w] /\ Regular[v]
<1>1. \A part \in Parts(v), x \in JsonValues : Same[part][x] => Len(Bytes[part]) = Len(Bytes[x])
  BY SameLength, PartsAreValues
<1>2. CASE v.kind = "object"
  <2>1. w.kind = "object" /\ Matched(Len(NameOrder), ObjectPieces(v), ObjectPieces(w))
    BY <1>1, <1>2, SameIsMatched
  <2>2. FlattenSeq(ObjectPieces(v)) = FlattenSeq(ObjectPieces(w))
    BY <1>2, <2>1, BytesByKind
  <2>3. \A i \in 1 .. Len(NameOrder) : ObjectPieces(v)[i] = ObjectPieces(w)[i]
    BY <2>1, <2>2, NamesInOrder, FlattenDecided
  <2>4. SameMembers(v, w)
    BY <1>2, SameByKind
  <2>5. /\ MemberNames(v) = MemberNames(w)
        /\ \A name \in MemberNames(v) : Same[Member(v, name)][Member(w, name)]
    BY <1>2, <2>1, <2>4, SameByName
  <2>6. ASSUME NEW name \in MemberNames(v)
        PROVE  Canonical[Member(v, name)] = Canonical[Member(w, name)] /\ Regular[Member(v, name)]
    <3>1. PICK i \in 1 .. Len(NameOrder) : NameOrder[i] = name
      BY <1>2, NamesInOrder
    <3>2. PieceOf(v, i) = PieceOf(w, i)
      BY <2>3 DEF ObjectPieces
    <3>3. <<name>> \o Bytes[Member(v, name)] = <<name>> \o Bytes[Member(w, name)]
      BY <2>5, <3>1, <3>2 DEF PieceOf
    <3>4. Member(v, name) \in Parts(v) /\ Member(w, name) \in JsonValues
      BY <1>2, <2>1, <2>5, MembersAreParts, PartsAreValues
    <3>5. PICK a \in Seq(STRING) : a = Bytes[Member(v, name)]
      BY <3>4, BytesTyped, PartsAreValues
    <3>6. PICK b \in Seq(STRING) : b = Bytes[Member(w, name)]
      BY <3>4, BytesTyped
    <3>7. PICK c \in Seq(STRING) : c = <<name>>
      <4>1. name \in STRING
        BY <3>1, NamesInOrder
      <4>2. <<name>> \in Seq(STRING)
        BY <4>1, SingleSeq
      <4> QED BY <4>2
    <3>8. a = b
      <4>1. c \o a = c \o b
        BY <3>3, <3>5, <3>6, <3>7
      <4> QED BY <4>1, ConcatDecided
    <3> QED BY <2>5, <3>4, <3>5, <3>6, <3>8
  <2>7. Canonical[v] = Canonical[w]
    BY <1>2, <2>1, <2>5, <2>6, ObjectsCanonical
  <2>8. \A i \in Slots(v) : Regular[PartAt(v, i)]
    BY <1>2, <2>6, ObjectSlots
  <2> QED BY <1>2, <2>7, <2>8, RegularByKind
<1>3. CASE v.kind = "array"
  <2>1. /\ w.kind = "array" /\ Len(v.of) = Len(w.of)
        /\ Matched(Len(v.of), ArrayPieces(v), ArrayPieces(w))
    BY <1>1, <1>3, SameIsMatched
  <2>2. FlattenSeq(ArrayPieces(v)) = FlattenSeq(ArrayPieces(w))
    BY <1>3, <2>1, BytesByKind
  <2>3. /\ Len(v.of) \in Nat /\ Slots(v) = 1 .. Len(v.of) /\ Slots(w) = 1 .. Len(v.of)
        /\ \A i \in Slots(v) : v.of[i] \in Parts(v) /\ w.of[i] \in JsonValues
    BY <1>3, <2>1, ArraySlots
  <2>4. \A i \in 1 .. Len(v.of) : ArrayPieces(v)[i] = ArrayPieces(w)[i]
    BY <2>1, <2>2, <2>3, FlattenDecided
  <2>5. \A i \in 1 .. Len(v.of) : Bytes[v.of[i]] = Bytes[w.of[i]]
    BY <2>1, <2>4 DEF ArrayPieces
  <2>6. \A i \in Slots(v) : Same[v.of[i]][w.of[i]]
    BY <1>3, SameByKind DEF SameElements
  <2>7. \A i \in Slots(v) : Canonical[v.of[i]] = Canonical[w.of[i]] /\ Regular[v.of[i]]
    BY <2>3, <2>5, <2>6
  <2>8. Elements(v) = Elements(w)
    BY <2>3, <2>7, ElementsDecided
  <2>9. Canonical[v] = Canonical[w]
    BY <1>3, <2>1, <2>8, CanonicalByKind
  <2> QED BY <1>3, <2>7, <2>9, RegularByKind
<1>4. CASE v.kind \notin {"object", "array"}
  <2>1. Class(v.kind) = Class(w.kind) /\ v.of = w.of /\ ~IsNaN(v)
    BY <1>4, SameByKind
  <2>2. w.kind \notin {"object", "array"}
    BY <1>4, <2>1, Kinds
  <2>3. v.bytes = w.bytes
    BY <1>4, <2>2, BytesByKind
  <2>4. Canonical[v] = Canonical[w]
    BY <1>4, <2>1, <2>2, <2>3, CanonicalByKind
  <2> QED BY <1>4, <2>1, <2>4, RegularByKind
<1> QED BY <1>2, <1>3, <1>4

\* Conversely, what has the same canonical form is the same, if there is no NaN
\* in it, and then there is none in the other, either.
LEMMA CanonicalParts ==
  ASSUME NEW v \in JsonValues, NEW w \in JsonValues, Canonical[v] = Canonical[w], Regular[v],
         \A part \in Parts(v), x \in JsonValues :
           Canonical[part] = Canonical[x] /\ Regular[part] => Same[part][x] /\ Regular[x]
  PROVE  Same[v][w] /\ Regular[w]
<1>1. CASE v.kind = "object"
  <2>1. w.kind = "object"
    BY <1>1, CanonicalClass
  <2>2. /\ MemberNames(v) = MemberNames(w) /\ Len(v.of) = Len(w.of)
        /\ \A i \in Slots(v) : \E j \in Slots(w) :
             NameAt(v, i) = NameAt(w, j) /\ Canonical[PartAt(v, i)] = Canonical[PartAt(w, j)]
    BY <1>1, <2>1, CanonicalObjects
  <2>3. \A i \in Slots(v) : Regular[PartAt(v, i)] /\ PartAt(v, i) \in Parts(v)
    BY <1>1, RegularByKind, ObjectSlots
  <2>4. \A j \in Slots(w) : PartAt(w, j) \in JsonValues
    BY <2>1, ObjectSlots
  <2>5. ASSUME NEW i \in Slots(v)
        PROVE  \E j \in Slots(w) :
                 NameAt(v, i) = NameAt(w, j) /\ Same[PartAt(v, i)][PartAt(w, j)]
    BY <2>2, <2>3, <2>4
  <2>6. Same[v][w]
    BY <1>1, <2>1, <2>2, <2>5, SameByKind DEF SameMembers
  <2>7. ASSUME NEW j \in Slots(w) PROVE Regular[PartAt(w, j)]
    <3>1. PICK i \in Slots(v) : NameAt(v, i) = NameAt(w, j)
      BY <1>1, <2>1, <2>2, ObjectSlots
    <3>2. PICK k \in Slots(w) :
            NameAt(v, i) = NameAt(w, k) /\ Canonical[PartAt(v, i)] = Canonical[PartAt(w, k)]
      BY <2>2
    <3>3. k = j
      BY <2>1, <3>1, <3>2, ObjectSlots
    <3> QED BY <2>3, <2>4, <3>2, <3>3
  <2> QED BY <2>1, <2>6, <2>7, RegularByKind
<1>2. CASE v.kind = "array"
  <2>1. w.kind = "array"
    BY <1>2, CanonicalClass
  <2>2. Len(v.of) = Len(w.of) /\ \A i \in 1 .. Len(v.of) : Canonical[v.of[i]] = Canonical[w.of[i]]
    BY <1>2, <2>1, CanonicalArrays
  <2>3. /\ Slots(v) = 1 .. Len(v.of) /\ Slots(w) = 1 .. Len(v.of)
        /\ \A i \in Slots(v) : v.of[i] \in Parts(v) /\ w.of[i] \in JsonValues
    BY <1>2, <2>1, <2>2, ArraySlots
  <2>4. \A i \in Slots(v) : Regular[v.of[i]]
    BY <1>2, RegularByKind
  <2>5. \A i \in Slots(v) : Same[v.of[i]][w.of[i]] /\ Regular[w.of[i]]
    BY <2>2, <2>3, <2>4
  <2>6. Same[v][w]
    BY <1>2, <2>1, <2>2, <2>5, SameByKind DEF SameElements
  <2> QED BY <2>1, <2>3, <2>5, <2>6, RegularByKind
<1>3. CASE v.kind \notin {"object", "array"}
  <2>1. w.kind \notin {"object", "array"}
    BY <1>3, CanonicalClass
  <2>2. Both(v.of, v.bytes) = Both(w.of, w.bytes) /\ Class(v.kind) = Class(w.kind)
    BY <1>3, <2>1, CanonicalByKind, BothDecided
  <2>3. v.of = w.of
    BY <2>2, BothDecided
  <2>4. ~IsNaN(v)
    BY <1>3, RegularByKind
  <2>5. ~IsNaN(w)
    BY <2>3, <2>4, CanonicalClass DEF IsNaN
  <2>6. Same[v][w]
    BY <1>3, <2>2, <2>3, <2>4, SameByKind
  <2> QED BY <2>1, <2>5, <2>6, RegularByKind
<1> QED BY <1>1, <1>2, <1>3

LEMMA ExactIsCanonical ==
  \A v, w \in JsonValues :
    Same[v][w] /\ Bytes[v] = Bytes[w] => Canonical[v] = Canonical[w] /\ Regular[v]
<1> DEFINE Wrong == {v \in JsonValues : \E w \in JsonValues :
                       /\ Same[v][w] /\ Bytes[v] = Bytes[w]
                       /\ ~ (Canonical[v] = Canonical[w] /\ Regular[v])}
           T == {Depth[v] : v \in Wrong}
<1> SUFFICES ASSUME T # {} PROVE FALSE
  OBVIOUS
<1>1. T \subseteq Nat
  BY PartsAreValues
<1>2. PICK n \in T : \A m \in T : ~ m < n
  BY <1>1, LeastNatural
<1>3. PICK v \in Wrong : Depth[v] = n
  OBVIOUS
<1>4. \A part \in Parts(v) : part \in JsonValues /\ part \notin Wrong
  BY <1>2, <1>3, PartsAreValues
<1>5. \A part \in Parts(v), x \in JsonValues :
        Same[part][x] /\ Bytes[part] = Bytes[x] => Canonical[part] = Canonical[x] /\ Regular[part]
  BY <1>4
<1>6. \A w \in JsonValues :
        Same[v][w] /\ Bytes[v] = Bytes[w] => Canonical[v] = Canonical[w] /\ Regular[v]
  BY <1>5, ExactParts
<1> QED BY <1>6

LEMMA CanonicalIsSame ==
  \A v, w \in JsonValues :
    Canonical[v] = Canonical[w] /\ Regular[v] => Same[v][w] /\ Regular[w]
<1> DEFINE Wrong == {v \in JsonValues : \E w \in JsonValues :
                       /\ Canonical[v] = Canonical[w] /\ Regular[v]
                       /\ ~ (Same[v][w] /\ Regular[w])}
           T == {Depth[v] : v \in Wrong}
<1> SUFFICES ASSUME T # {} PROVE FALSE
  OBVIOUS
<1>1. T \subseteq Nat
  BY PartsAreValues
<1>2. PICK n \in T : \A m \in T : ~ m < n
  BY <1>1, LeastNatural
<1>3. PICK v \in Wrong : Depth[v] = n
  OBVIOUS
<1>4. \A part \in Parts(v) : part \in JsonValues /\ part \notin Wrong
  BY <1>2, <1>3, PartsAreValues
<1>5. \A part \in Parts(v), x \in JsonValues :
        Canonical[part] = Canonical[x] /\ Regular[part] => Same[part][x] /\ Regular[x]
  BY <1>4
<1>6. \A w \in JsonValues :
        Canonical[v] = Canonical[w] /\ Regular[v] => Same[v][w] /\ Regular[w]
  BY <1>5, CanonicalParts
<1> QED BY <1>6

----------------------------------------------------------------------------
(* Where paths lead.                                                       *)

LEMMA SubvaluesAreValues ==
  ASSUME NEW v \in JsonValues \cup {Nowhere}, NEW name
  PROVE  Subvalue(v, name) \in JsonValues \cup {Nowhere}
<1>1. CASE v \in JsonValues /\ v.kind = "object"
  <2>1. Subvalue(v, name) = Member(v, name)
    BY <1>1 DEF Subvalue
  <2>2. name \in MemberNames(v) => Member(v, name) \in JsonValues
    BY <1>1, MembersAreParts, PartsAreValues
  <2>3. name \notin MemberNames(v) => Member(v, name) = Nowhere
    BY DEF Member
  <2> QED BY <2>1, <2>2, <2>3
<1>2. CASE v \in JsonValues /\ v.kind = "array"
  <2>1. v.of \in Seq(JsonValues)
    BY <1>2, ValuesAssumption
  <2>2. ASSUME name \in DOMAIN Ordinal, Ordinal[name] < Len(v.of)
        PROVE  v.of[Ordinal[name] + 1] \in JsonValues
    BY <2>1, <2>2, PathsAssumption
  <2> QED BY <1>2, <2>2 DEF Subvalue
<1>3. CASE v.kind # "object" /\ v.kind # "array"
  BY <1>3 DEF Subvalue
<1>4. Nowhere.kind = "nowhere"
  BY DEF Nowhere
<1> QED BY <1>1, <1>2, <1>3, <1>4

\* What is found along a path, up to its n-th name.
Follows(f, v, path, n) ==
  f = [i \in 0 .. n |-> IF i = 0 THEN v ELSE Subvalue(f[i - 1], path[i])]

\* A path that is followed from a value leads to a value or to an exception.
LEMMA PathsLeadToValues ==
  ASSUME NEW v \in JsonValues, NEW path \in Seq(STRING)
  PROVE  FindPath(v, path) \in JsonValues \cup {Nowhere}
<1> DEFINE found == CHOOSE f : Follows(f, v, path, Len(path))
           Stuck == {n \in Nat : ~ \E f : Follows(f, v, path, n)}
           Lost == {i \in 0 .. Len(path) : found[i] \notin JsonValues \cup {Nowhere}}
<1>1. Stuck = {}
  <2> SUFFICES ASSUME Stuck # {} PROVE FALSE
    OBVIOUS
  <2>1. PICK n \in Stuck : \A m \in Stuck : ~ m < n
    BY LeastNatural
  <2>2. n \in Nat /\ ~ \E f : Follows(f, v, path, n)
    BY <2>1
  <2>3. n # 0
    <3>1. Follows([i \in 0 .. 0 |-> v], v, path, 0)
      BY DEF Follows
    <3> QED BY <3>1, <2>2
  <2>4. n - 1 \in Nat /\ n - 1 < n
    BY <2>2, <2>3
  <2>5. PICK f : Follows(f, v, path, n - 1)
    BY <2>1, <2>4
  <2> DEFINE g == [i \in 0 .. n |-> IF i = 0 THEN v ELSE Subvalue(f[i - 1], path[i])]
  <2>6. \A i \in 0 .. n - 1 : i \in 0 .. n
    BY <2>2
  <2>7. \A i \in 0 .. n - 1 : g[i] = f[i]
    BY <2>5, <2>6 DEF Follows
  <2>8. \A i \in 0 .. n : i # 0 => i - 1 \in 0 .. n - 1
    BY <2>2
  <2>9. \A i \in 0 .. n : i # 0 => g[i - 1] = f[i - 1]
    <3> HIDE DEF g
    <3> QED BY <2>7, <2>8
  <2>10. Follows(g, v, path, n)
    BY <2>9 DEF Follows
  <2> QED BY <2>2, <2>10
<1>2. Follows(found, v, path, Len(path))
  <2>1. Len(path) \in Nat
    OBVIOUS
  <2>2. \E f : Follows(f, v, path, Len(path))
    BY <2>1, <1>1
  <2> QED BY <2>2
<1>3. FindPath(v, path) = found[Len(path)]
  BY DEF FindPath, Follows
<1> HIDE DEF found
<1>4. Len(path) \in Nat
  OBVIOUS
<1>5. found[0] = v /\ \A i \in 1 .. Len(path) : found[i] = Subvalue(found[i - 1], path[i])
  BY <1>2, <1>4 DEF Follows
<1>6. Lost = {}
  <2> SUFFICES ASSUME Lost # {} PROVE FALSE
    OBVIOUS
  <2>1. PICK n \in Lost : \A m \in Lost : ~ m < n
    <3>1. Lost \subseteq Nat
      BY <1>4
    <3> HIDE DEF Lost
    <3> QED BY <3>1, LeastNatural
  <2>2. n # 0 /\ n \in 1 .. Len(path)
    BY <1>5
  <2>3. found[n - 1] \in JsonValues \cup {Nowhere}
    BY <2>1, <2>2
  <2>4. found[n] \in JsonValues \cup {Nowhere}
    BY <2>2, <2>3, <1>5, SubvaluesAreValues
  <2> QED BY <2>4
<1> QED BY <1>3, <1>4, <1>6

LEMMA PathsInOrder ==
  /\ Len(PathOrder) \in Nat /\ DOMAIN PathOrder = 1 .. Len(PathOrder)
  /\ \A i \in 1 .. Len(PathOrder) : PathOrder[i] \in Seq(STRING)
  /\ \A path \in Paths : \E i \in 1 .. Len(PathOrder) : PathOrder[i] = path
<1>1. PathOrder \in Seq(Seq(STRING))
  BY OrdersAssumption
<1>2. Len(PathOrder) \in Nat /\ DOMAIN PathOrder = 1 .. Len(PathOrder)
  BY <1>1
<1>3. \A i \in 1 .. Len(PathOrder) : PathOrder[i] \in Seq(STRING)
  BY <1>1, ElementOfSeq
<1> QED BY <1>2, <1>3, OrdersAssumption

LEMMA NamesOfPath == ASSUME NEW path \in Seq(STRING) PROVE Dissect(path) \in Seq(STRING)
<1> DEFINE s == [i \in 1 .. Len(path) |-> IF path[i] = "/" THEN <<>> ELSE <<path[i]>>]
<1>1. Len(path) \in Nat /\ DOMAIN path = 1 .. Len(path)
  OBVIOUS
<1>2. ASSUME NEW i \in 1 .. Len(path)
      PROVE  (IF path[i] = "/" THEN <<>> ELSE <<path[i]>>) \in Seq(STRING)
  <2>1. path[i] \in STRING
    BY ElementOfSeq
  <2>2. <<path[i]>> \in Seq(STRING)
    BY <2>1, SingleSeq
  <2> QED BY <2>2, EmptySeq
<1>3. s \in Pieces(Len(path))
  BY <1>2 DEF Pieces
<1>4. Dissect(path) = FlattenSeq(s)
  BY <1>1 DEF Dissect
<1> HIDE DEF s
<1> QED BY <1>1, <1>3, <1>4, FlattenTyped

LEMMA UsedIsValue ==
  ASSUME KeyInv, NEW k \in Fixed, NEW path \in key[k].index
  PROVE  path \in Paths /\ Used(key[k], path) \in JsonValues
<1>1. Tree[key[k].doc] \in JsonValues /\ path \in Paths
  BY DocumentsAssumption DEF KeyInv, KeyTypeOK, Fixed
<1>2. path \in Seq(STRING)
  BY <1>1, PathsInOrder
<1>3. Used(key[k], path) \in JsonValues \cup {Nowhere}
  BY <1>1, <1>2, NamesOfPath, PathsLeadToValues DEF Used
<1>4. Used(key[k], path).kind # "nowhere"
  BY DEF KeyInv, FixedKeysResolve, Resolves
<1> QED BY <1>1, <1>3, <1>4 DEF Nowhere

----------------------------------------------------------------------------
(* When keys are equal.                                                    *)

SameUse(l, r) ==
  /\ l.index = r.index
  /\ \A path \in l.index :
       Canonical[Used(l, path)] = Canonical[Used(r, path)] /\ Regular[Used(l, path)]

\* The pieces of a digest.
KeyPiece(k, i) ==
  IF PathOrder[i] \in k.index THEN PathOrder[i] \o Bytes[Used(k, PathOrder[i])] ELSE <<>>
KeyPieces(k) == [i \in 1 .. Len(PathOrder) |-> KeyPiece(k, i)]

LEMMA DigestOfPieces == ASSUME NEW k PROVE Digest(k) = FlattenSeq(KeyPieces(k))
BY PathsInOrder DEF Digest, KeyPieces, KeyPiece

LEMMA KeyPiecesTyped ==
  ASSUME KeyInv, NEW k \in Fixed
  PROVE  KeyPieces(key[k]) \in Pieces(Len(PathOrder))
<1>1. ASSUME NEW i \in 1 .. Len(PathOrder) PROVE KeyPiece(key[k], i) \in Seq(STRING)
  <2>1. CASE PathOrder[i] \in key[k].index
    <3>1. PICK a \in Seq(STRING) : a = PathOrder[i]
      BY PathsInOrder
    <3>2. PICK b \in Seq(STRING) : b = Bytes[Used(key[k], PathOrder[i])]
      BY <2>1, UsedIsValue, BytesTyped
    <3>3. a \o b \in Seq(STRING)
      BY ConcatProperties
    <3> QED BY <2>1, <3>1, <3>2, <3>3 DEF KeyPiece
  <2>2. CASE PathOrder[i] \notin key[k].index
    BY <2>2, EmptySeq DEF KeyPiece
  <2> QED BY <2>1, <2>2
<1> QED BY <1>1 DEF KeyPieces, Pieces

\* Equal contents are digested to as many bytes, path by path.
LEMMA ContentsMatched ==
  ASSUME KeyInv, NEW l \in Fixed, NEW r \in Fixed, EqualContents(key[l], key[r])
  PROVE  Matched(Len(PathOrder), KeyPieces(key[l]), KeyPieces(key[r]))
<1>1. key[l].index = key[r].index
  BY DEF EqualContents
<1>2. ASSUME NEW i \in 1 .. Len(PathOrder)
      PROVE  Len(KeyPiece(key[l], i)) = Len(KeyPiece(key[r], i))
  <2>1. CASE PathOrder[i] \in key[l].index
    <3>1. PICK x \in JsonValues : x = Used(key[l], PathOrder[i])
      BY <2>1, UsedIsValue
    <3>2. PICK y \in JsonValues : y = Used(key[r], PathOrder[i])
      BY <1>1, <2>1, UsedIsValue
    <3>3. Same[x][y]
      BY <2>1, <3>1, <3>2 DEF EqualContents
    <3>4. PICK a \in Seq(STRING) : a = PathOrder[i]
      BY PathsInOrder
    <3>5. PICK b \in Seq(STRING) : b = Bytes[x]
      BY BytesTyped
    <3>6. PICK c \in Seq(STRING) : c = Bytes[y]
      BY BytesTyped
    <3>7. Len(b) = Len(c)
      BY <3>3, <3>5, <3>6, SameLength
    <3>8. Len(a \o b) = Len(a) + Len(b) /\ Len(a \o c) = Len(a) + Len(c)
      BY ConcatProperties
    <3>9. KeyPiece(key[l], i) = a \o b /\ KeyPiece(key[r], i) = a \o c
      BY <1>1, <2>1, <3>1, <3>2, <3>4, <3>5, <3>6 DEF KeyPiece
    <3> QED BY <3>7, <3>8, <3>9
  <2>2. CASE PathOrder[i] \notin key[l].index
    BY <1>1, <2>2 DEF KeyPiece
  <2> QED BY <2>1, <2>2
<1>3. \A i \in 1 .. Len(PathOrder) : Len(KeyPieces(key[l])[i]) = Len(KeyPieces(key[r])[i])
  BY <1>2 DEF KeyPieces
<1> QED BY <1>3, KeyPiecesTyped DEF Matched

LEMMA SameUseIsEqual ==
  ASSUME KeyInv, NEW l \in Fixed, NEW r \in Fixed
  PROVE  EqualKeys(key[l], key[r]) <=> SameUse(key[l], key[r])
<1>1. ASSUME EqualKeys(key[l], key[r]) PROVE SameUse(key[l], key[r])
  <2>1. EqualContents(key[l], key[r]) /\ key[l].index = key[r].index
    BY <1>1 DEF EqualKeys, EqualContents
  <2>2. Matched(Len(PathOrder), KeyPieces(key[l]), KeyPieces(key[r]))
    BY <2>1, ContentsMatched
  <2>3. FlattenSeq(KeyPieces(key[l])) = FlattenSeq(KeyPieces(key[r]))
    BY <1>1, DigestOfPieces DEF EqualKeys
  <2>4. \A i \in 1 .. Len(PathOrder) : KeyPieces(key[l])[i] = KeyPieces(key[r])[i]
    BY <2>2, <2>3, PathsInOrder, FlattenDecided
  <2>5. ASSUME NEW path \in key[l].index
        PROVE  /\ Canonical[Used(key[l], path)] = Canonical[Used(key[r], path)]
               /\ Regular[Used(key[l], path)]
    <3>1. PICK x \in JsonValues : x = Used(key[l], path)
      BY UsedIsValue
    <3>2. PICK y \in JsonValues : y = Used(key[r], path)
      BY <2>1, UsedIsValue
    <3>3. Same[x][y]
      BY <2>1, <3>1, <3>2 DEF EqualContents
    <3>4. PICK i \in 1 .. Len(PathOrder) : PathOrder[i] = path
      BY UsedIsValue, PathsInOrder
    <3>5. PICK a \in Seq(STRING) : a = PathOrder[i]
      BY PathsInOrder
    <3>6. PICK b \in Seq(STRING) : b = Bytes[x]
      BY BytesTyped
    <3>7. PICK c \in Seq(STRING) : c = Bytes[y]
      BY BytesTyped
    <3>8. KeyPiece(key[l], i) = KeyPiece(key[r], i)
      BY <2>4 DEF KeyPieces
    <3>9. a \o b = a \o c
      BY <2>1, <3>1, <3>2, <3>4, <3>5, <3>6, <3>7, <3>8 DEF KeyPiece
    <3>10. b = c
      BY <3>9, ConcatDecided
    <3>11. Canonical[x] = Canonical[y] /\ Regular[x]
      BY <3>3, <3>6, <3>7, <3>10, ExactIsCanonical
    <3> QED BY <3>1, <3>2, <3>11
  <2> QED BY <2>1, <2>5 DEF SameUse
<1>2. ASSUME SameUse(key[l], key[r]) PROVE EqualKeys(key[l], key[r])
  <2>1. key[l].index = key[r].index
    BY <1>2 DEF SameUse
  <2>2. ASSUME NEW path \in key[l].index
        PROVE  /\ Same[Used(key[l], path)][Used(key[r], path)]
               /\ Bytes[Used(key[l], path)] = Bytes[Used(key[r], path)]
    <3>1. PICK x \in JsonValues : x = Used(key[l], path)
      BY UsedIsValue
    <3>2. PICK y \in JsonValues : y = Used(key[r], path)
      BY <2>1, UsedIsValue
    <3>3. Canonical[x] = Canonical[y] /\ Regular[x]
      BY <1>2, <3>1, <3>2 DEF SameUse
    <3>4. Same[x][y] /\ Bytes[x] = Bytes[y]
      BY <3>3, CanonicalIsSame, SameBytes
    <3> QED BY <3>1, <3>2, <3>4
  <2>3. EqualContents(key[l], key[r])
    BY <2>1, <2>2 DEF EqualContents
  <2>4. Digest(key[l]) = Digest(key[r])
    BY <2>1, <2>2 DEF Digest
  <2> QED BY <2>3, <2>4 DEF EqualKeys
<1> QED BY <1>1, <1>2

\* What two keys used the same, the second used the same as the first.
LEMMA SameUseSymmetric ==
  ASSUME KeyInv, NEW l \in Fixed, NEW r \in Fixed, SameUse(key[l], key[r])
  PROVE  SameUse(key[r], key[l])
<1> SUFFICES ASSUME NEW path \in key[r].index
             PROVE  /\ Canonical[Used(key[r], path)] = Canonical[Used(key[l], path)]
                    /\ Regular[Used(key[r], path)]
  BY DEF SameUse
<1>1. path \in key[l].index
  BY DEF SameUse
<1>2. PICK x \in JsonValues : x = Used(key[l], path)
  BY <1>1, UsedIsValue
<1>3. PICK y \in JsonValues : y = Used(key[r], path)
  BY UsedIsValue
<1>4. Canonical[x] = Canonical[y] /\ Regular[x]
  BY <1>1, <1>2, <1>3 DEF SameUse
<1>5. Regular[y]
  BY <1>4, CanonicalIsSame
<1> QED BY <1>2, <1>3, <1>4, <1>5

\* Fixed keys that used the same paths and found the same values are equal, and no
\* others, whatever else is in their documents, in whatever order these were
\* built and however deeply they are nested.  The same values are those that are
\* equal to operator== and, number by number, hashed to the same bytes: comparing
\* the digest of everything, which has no delimiters, does not tell more apart than
\* that, nor less (immutable_key.hpp operator==, immutable_key.cpp:36-56,
\* jsonext.cpp:28-100).
THEOREM EqualKeysUsedTheSame == KeysSpec => []EqualIffSameUse
<1>1. KeyInv => EqualIffSameUse
  BY SameUseIsEqual DEF EqualIffSameUse, SameUse
<1> QED BY <1>1, KeysInvariant, PTL

LEMMA EntitiesByType ==
  ASSUME NEW e \in Entities
  PROVE  /\ e = [type |-> e.type, model |-> e.model]
         /\ e = NoImpl <=> e.type = "none"
         /\ e.type = "immutable_key" => e.model \in Fixed
<1>1. NoImpl = [type |-> "none", model |-> ""]
  BY DEF NoImpl
<1>2. CASE e = NoImpl
  BY <1>1, <1>2
<1>3. ASSUME NEW k \in Fixed, e = Model("immutable_key", k)
      PROVE  e = [type |-> "immutable_key", model |-> k]
  BY <1>3 DEF Model
<1>4. ASSUME NEW d \in Documents, e = Model("string", d)
      PROVE  e = [type |-> "string", model |-> d]
  BY <1>4 DEF Model
<1>5. CASE \E k \in Fixed : e = [type |-> "immutable_key", model |-> k]
  <2>1. PICK k \in Fixed : e = [type |-> "immutable_key", model |-> k]
    BY <1>5
  <2>2. e.type = "immutable_key" /\ e.model = k /\ NoImpl.type = "none"
    BY <2>1, <1>1
  <2> QED BY <2>1, <2>2
<1>6. CASE \E d \in Documents : e = [type |-> "string", model |-> d]
  <2>1. PICK d \in Documents : e = [type |-> "string", model |-> d]
    BY <1>6
  <2>2. e.type = "string" /\ e.model = d /\ NoImpl.type = "none"
    BY <2>1, <1>1
  <2> QED BY <2>1, <2>2
<1> QED BY <1>2, <1>3, <1>4, <1>5, <1>6 DEF Entities

\* What two entity_keys that are not the same object have in common when they are
\* equal.
Alike(l, r) ==
  /\ l.type = r.type
  /\ l.type = "immutable_key" => SameUse(key[l.model], key[r.model])
  /\ l.type # "immutable_key" => l.model = r.model

LEMMA EqualEntitiesAreAlike ==
  ASSUME KeyInv, NEW l \in Entities, NEW r \in Entities
  PROVE  EqualEntities(l, r) <=> l = r \/ Alike(l, r)
<1>1. CASE l.type = r.type /\ l.type = "immutable_key"
  <2>1. l # NoImpl /\ r # NoImpl /\ l.model \in Fixed /\ r.model \in Fixed
    BY <1>1, EntitiesByType
  <2>2. EqualKeys(key[l.model], key[r.model]) <=> SameUse(key[l.model], key[r.model])
    BY <2>1, SameUseIsEqual
  <2> QED BY <1>1, <2>1, <2>2 DEF EqualEntities, TestEqual, Alike
<1>2. CASE l.type = r.type /\ l.type # "immutable_key"
  <2>1. l = r <=> l.model = r.model
    BY <1>2, EntitiesByType
  <2> QED BY <1>2, <2>1 DEF EqualEntities, TestEqual, Alike
<1>3. CASE l.type # r.type
  BY <1>3 DEF EqualEntities, TestEqual, Alike
<1> QED BY <1>1, <1>2, <1>3

LEMMA AlikeSymmetric ==
  ASSUME KeyInv, NEW l \in Entities, NEW r \in Entities, Alike(l, r)
  PROVE  Alike(r, l)
<1>1. CASE l.type = "immutable_key"
  <2>1. r.type = "immutable_key" /\ l.model \in Fixed /\ r.model \in Fixed
    BY <1>1, EntitiesByType DEF Alike
  <2>2. SameUse(key[r.model], key[l.model])
    BY <1>1, <2>1, SameUseSymmetric DEF Alike
  <2> QED BY <1>1, <2>1, <2>2 DEF Alike
<1>2. CASE l.type # "immutable_key"
  BY <1>2 DEF Alike
<1> QED BY <1>1, <1>2

LEMMA AlikeTransitive ==
  ASSUME NEW e, NEW l, NEW r, Alike(e, l), Alike(l, r)
  PROVE  Alike(e, r)
<1>1. ASSUME NEW x, NEW y, NEW z, SameUse(x, y), SameUse(y, z) PROVE SameUse(x, z)
  BY <1>1 DEF SameUse
<1> QED BY <1>1 DEF Alike

\* Entity keys can be the keys of a hash map: those that are equal are hashed
\* alike, are equal to the same others and have an object of the same type, for
\* any documents and any keys of them, although a key that used a NaN is not equal
\* to itself and the same entity_key is (entity_key.cpp:5-29,
\* entity_key.hpp:32-64, used by entity_cache.hpp:24).
THEOREM EntityKeysAreKeys == KeysSpec => []EntitiesUsableAsKeys
<1>1. ASSUME KeyInv, NEW l \in Entities, NEW r \in Entities, EqualEntities(l, r)
      PROVE  /\ HashValue(l) = HashValue(r)
             /\ \A e \in Entities : EqualEntities(e, l) => EqualEntities(r, e)
             /\ \A type \in EntityTypes : QueryEntity(l, type) = {} <=> QueryEntity(r, type) = {}
  <2>1. l = r \/ Alike(l, r)
    BY <1>1, EqualEntitiesAreAlike
  <2>2. HashValue(l) = HashValue(r)
    <3>1. CASE l = r
      BY <3>1
    <3>2. CASE l # NoImpl /\ r # NoImpl /\ TestEqual(l, r)
      <4>1. ModelHash(l) = ModelHash(r)
        BY <3>2 DEF TestEqual, ModelHash, EqualKeys
      <4> QED BY <3>2, <4>1 DEF HashValue
    <3> QED BY <1>1, <3>1, <3>2 DEF EqualEntities
  <2>3. ASSUME NEW e \in Entities, EqualEntities(e, l) PROVE EqualEntities(r, e)
    <3>1. e = l \/ Alike(e, l)
      BY <1>1, <2>3, EqualEntitiesAreAlike
    <3>2. e = r \/ Alike(e, r)
      BY <2>1, <3>1, AlikeTransitive
    <3>3. r = e \/ Alike(r, e)
      BY <1>1, <3>2, AlikeSymmetric
    <3> QED BY <1>1, <3>3, EqualEntitiesAreAlike
  <2>4. \A type \in EntityTypes : QueryEntity(l, type) = {} <=> QueryEntity(r, type) = {}
    BY <2>1 DEF Alike, QueryEntity
  <2> QED BY <2>2, <2>3, <2>4
<1>2. KeyInv => EntitiesUsableAsKeys
  BY <1>1 DEF EntitiesUsableAsKeys
<1> QED BY <1>2, KeysInvariant, PTL
=============================================================================
