----------------------------- MODULE EntityKeys -----------------------------
(***************************************************************************)
(* mutable_key, immutable_key and the paths into JSON values they are made *)
(* of.  A key is a document and an index: the paths of the elements of the *)
(* document that were used.  Two fixed keys are equal when they used the   *)
(* same elements, whatever else their documents contain.                   *)
(*                                                                         *)
(* A JSON value is a record of its kind and of what it is made of: its     *)
(* elements for an array, its names and values in the order of insertion   *)
(* for an object, and for a leaf what operator== compares, and beside it   *)
(* the bytes that are hashed.  For a number these differ: 0.0 is equal to  *)
(* -0.0 and has other bytes.  A path as it is written is a sequence of     *)
(* slashes and names; dissected, of its names.  SHA-256 is taken to be     *)
(* injective.                                                              *)
(***************************************************************************)
EXTENDS Naturals, FiniteSets, Sequences, SequencesExt

CONSTANTS KeyObjects,  \* the key objects of an application
          Documents,   \* the documents
          Tree,        \* the JSON value of each document
          Written,     \* the paths an application writes; bound
          Indexes,     \* the indexes it constructs keys with: written paths, too
          JsonValues,  \* the JSON values: these trees and their parts
          Depth,       \* of each value: how deep its parts are nested
          NameOrder,   \* the names in all documents, sorted by their bytes
          PathOrder,   \* the paths in all indexes, sorted by their bytes
          Ordinal,     \* strtoul: the names that are numbers
          MaxIndex     \* bound: paths in the index of a mutable key

VARIABLE key  \* of each object: its state, its document and its index

----------------------------------------------------------------------------
(* jsonext *)

Nowhere == [kind |-> "nowhere", of |-> <<>>]  \* an exception instead of a value

MemberNames(object) == {object.of[i][1] : i \in DOMAIN object.of}

Parts(v) ==
  CASE v.kind = "object" -> {v.of[i][2] : i \in DOMAIN v.of}
    [] v.kind = "array"  -> {v.of[i] : i \in DOMAIN v.of}
    [] OTHER -> {}

\* What is not a number is not even equal to itself.
NaN == <<"nan">>
IsNaN(v) == v.kind = "double" /\ v.of = NaN

\* Integers are compared by their value, signed or not.
Class(kind) == IF kind \in {"int64", "uint64"} THEN "integer" ELSE kind

ASSUME DocumentsAssumption == Tree \in [Documents -> JsonValues] /\ MaxIndex \in Nat

Leaves == {v \in JsonValues : v.kind \notin {"object", "array"}}

\* Every number is hashed as eight bytes, a string as its own.
ASSUME LeavesAssumption ==
  /\ \A v \in Leaves : v.bytes \in Seq(STRING)
  /\ \A v, w \in Leaves :
       Class(v.kind) = Class(w.kind) /\ v.of = w.of => Len(v.bytes) = Len(w.bytes)

\* A JSON value is a finite tree; the names of an object are distinct.
ASSUME ValuesAssumption ==
  /\ Depth \in [JsonValues -> Nat]
  /\ \A v \in JsonValues :
       /\ v.kind \notin {"nowhere", "integer"}
       /\ v.kind = "object" => v.of \in Seq(STRING \X JsonValues)
       /\ v.kind = "object" => \A i, j \in DOMAIN v.of : v.of[i][1] = v.of[j][1] => i = j
       /\ v.kind = "array" => v.of \in Seq(JsonValues)
       /\ \A part \in Parts(v) : Depth[part] < Depth[v]

Member(object, name) ==
  IF name \in MemberNames(object)
    THEN object.of[CHOOSE i \in DOMAIN object.of : object.of[i][1] = name][2] ELSE Nowhere

Subvalue(v, name) ==
  CASE v.kind = "object" -> Member(v, name)
    [] v.kind = "array" ->
         IF name \in DOMAIN Ordinal /\ Ordinal[name] < Len(v.of)
           THEN v.of[Ordinal[name] + 1] ELSE Nowhere
    [] OTHER -> Nowhere

FindPath(v, path) ==
  LET found[i \in 0 .. Len(path)] == IF i = 0 THEN v ELSE Subvalue(found[i - 1], path[i])
  IN found[Len(path)]

Dissect(written) ==
  FlattenSeq([i \in DOMAIN written |-> IF written[i] = "/" THEN <<>> ELSE <<written[i]>>])

ToPath(path) ==
  IF path = <<>> THEN <<"/">> ELSE FlattenSeq([i \in DOMAIN path |-> <<"/", path[i]>>])

Paths == {ToPath(Dissect(written)) : written \in Written} \cup UNION Indexes

ASSUME PathsAssumption ==
  /\ Written \cup UNION Indexes \subseteq Seq(STRING)
  /\ \A path \in Written \cup UNION Indexes : \A i \in 2 .. Len(path) :
       path[i - 1] = "/" \/ path[i] = "/"
  /\ \A name \in DOMAIN Ordinal : Ordinal[name] \in Nat

\* Sorting a set leaves nothing of it out.
ASSUME OrdersAssumption ==
  /\ NameOrder \in Seq(STRING) /\ PathOrder \in Seq(Seq(STRING))
  /\ \A v \in JsonValues : v.kind = "object" =>
       \A name \in MemberNames(v) : \E i \in DOMAIN NameOrder : NameOrder[i] = name
  /\ \A path \in Paths : \E i \in DOMAIN PathOrder : PathOrder[i] = path

\* An object by its names as they were inserted.
BytesAsInserted(bytes, object) ==
  FlattenSeq([i \in DOMAIN object.of |-> <<object.of[i][1]>> \o bytes[object.of[i][2]]])

\* An object by its sorted names; its values have been turned into bytes.
BytesOfObject(bytes, object) ==
  FlattenSeq([i \in DOMAIN NameOrder |->
                LET name == NameOrder[i]
                IN IF name \in MemberNames(object) THEN <<name>> \o bytes[Member(object, name)]
                                             ELSE <<>>])

\* The bytes of a value that are hashed: no delimiters, no kinds.
Bytes[v \in JsonValues] ==
  CASE v.kind = "object" -> BytesOfObject(Bytes, v)
    [] v.kind = "array"  -> FlattenSeq([i \in DOMAIN v.of |-> Bytes[v.of[i]]])
    [] OTHER -> v.bytes

\* operator== of json::value: the order of an object's members is irrelevant, and
\* so are the bytes of a number.
Same[v \in JsonValues] == [w \in JsonValues |->
  /\ Class(v.kind) = Class(w.kind)
  /\ CASE v.kind = "object" ->
            /\ Len(v.of) = Len(w.of)
            /\ \A i \in DOMAIN v.of : \E j \in DOMAIN w.of :
                 v.of[i][1] = w.of[j][1] /\ Same[v.of[i][2]][w.of[j][2]]
       [] v.kind = "array" ->
            Len(v.of) = Len(w.of) /\ \A i \in DOMAIN v.of : Same[v.of[i]][w.of[i]]
       [] OTHER -> v.of = w.of /\ ~IsNaN(v)]

----------------------------------------------------------------------------
(* Keys. *)

NoKey == [state |-> "none", doc |-> "", index |-> {}]

Used(k, path) == FindPath(Tree[k.doc], Dissect(path))

Resolves(k) == \A path \in k.index : Used(k, path).kind # "nowhere"

\* The index, a std::set< json::string >, is hashed in the order of its bytes.
Digest(k) ==
  FlattenSeq([i \in DOMAIN PathOrder |->
                LET path == PathOrder[i]
                IN IF path \in k.index THEN path \o Bytes[Used(k, path)] ELSE <<>>])

EqualContents(l, r) ==
  l.index = r.index /\ \A path \in l.index : Same[Used(l, path)][Used(r, path)]

EqualKeys(l, r) == Digest(l) = Digest(r) /\ EqualContents(l, r)

----------------------------------------------------------------------------
(* entity_key: an object of any type that can be compared and hashed, as   *)
(* the key of a map.  Here it is empty, or has a fixed key or a string.    *)

NoImpl == [type |-> "none", model |-> ""]

\* construct_model(): the object is moved into the model, where no other has it, so
\* that what is made of the same object is the same model.
Model(type, x) == [type |-> type, model |-> x]

\* entity_model: its hash and its comparison ask the object's own.
ModelHash(e) ==
  <<e.type, IF e.type = "immutable_key" THEN Digest(key[e.model]) ELSE e.model>>

TestEqual(l, r) ==
  /\ l.type = r.type
  /\ IF l.type = "immutable_key" THEN EqualKeys(key[l.model], key[r.model])
                                 ELSE l.model = r.model

\* A hash of what the stored object was made from.
HashOfDocument(e) ==
  IF e.type = "immutable_key" THEN <<e.type, Bytes[Tree[key[e.model].doc]]>> ELSE <<e.type, e.model>>

HashValue(e) == IF e = NoImpl THEN <<>> ELSE ModelHash(e)

EqualEntities(l, r) == l = r \/ (l # NoImpl /\ r # NoImpl /\ TestEqual(l, r))

\* query< T >(): the stored object if it is exactly of that type.
QueryEntity(e, type) == IF e.type = type THEN {e.model} ELSE {}

----------------------------------------------------------------------------

Become(k, record) == key' = [key EXCEPT ![k] = record]

\* The paths of an index are taken as they are written; an immutable_key hashes
\* what they lead to, or throws.
CreateKey(k, d, index) ==
  /\ key[k].state = "none"
  /\ \E s \in {"mutable", "fixed"} :
       LET record == [state |-> s, doc |-> d, index |-> index]
       IN  (s = "fixed" => Resolves(record)) /\ Become(k, record)

CopyKey(k, from) == key[k].state = "none" /\ key[from].state # "none" /\ Become(k, key[from])

MutateKey(k, from) ==
  /\ key[k].state = "none" /\ key[from].state = "fixed"
  /\ Become(k, [key[from] EXCEPT !.state = "mutable"])

\* use(): an exception leaves the index alone.
UsePath(k, written) ==
  LET path == ToPath(Dissect(written)) IN
  /\ key[k].state = "mutable"
  /\ Used(key[k], written).kind # "nowhere"
  /\ Cardinality(key[k].index \cup {path}) <= MaxIndex
  /\ Become(k, [key[k] EXCEPT !.index = @ \cup {path}])

\* merge(): the paths are not looked for in the document.
MergeKey(k, other) ==
  /\ key[k].state = "mutable" /\ key[other].state = "fixed"
  /\ Cardinality(key[k].index \cup key[other].index) <= MaxIndex
  /\ Become(k, [key[k] EXCEPT !.index = @ \cup key[other].index])

\* A fix() that does not hash.
FixKeyUnhashed(k, to) ==
  /\ key[k].state = "mutable" /\ key[to].state = "none"
  /\ Become(to, [key[k] EXCEPT !.state = "fixed"])

\* fix(): the constructor of immutable_key finds every path or throws.
FixKey(k, to) ==
  /\ key[k].state = "mutable" /\ key[to].state = "none"
  /\ Resolves(key[k])
  /\ Become(to, [key[k] EXCEPT !.state = "fixed"])

DestroyKey(k) == key[k].state # "none" /\ Become(k, NoKey)

KeysInit == key = [k \in KeyObjects |-> NoKey]

KeysNext ==
  \/ \E k \in KeyObjects, d \in Documents, index \in Indexes : CreateKey(k, d, index)
  \/ \E k, other \in KeyObjects :
       CopyKey(k, other) \/ MutateKey(k, other) \/ MergeKey(k, other) \/ FixKey(k, other)
  \/ \E k \in KeyObjects, written \in Written : UsePath(k, written)
  \/ \E k \in KeyObjects : DestroyKey(k)

KeysSpec == KeysInit /\ [][KeysNext]_key

----------------------------------------------------------------------------

Fixed == {k \in KeyObjects : key[k].state = "fixed"}

\* Every path of a fixed key leads to an element of its document, so that the
\* key can be compared and printed (immutable_key.cpp:29-54, key_base.cpp:18),
\* although merge() takes paths over from keys of other documents.
FixedKeysResolve == \A k \in Fixed : Resolves(key[k])

\* What a key used, as a set of paths with canonical values: the reference.  It
\* tells numbers apart by their bytes, and integers not by their kind.
Canonical[v \in JsonValues] ==
  CASE v.kind = "object" ->
         <<"object", {<<v.of[i][1], Canonical[v.of[i][2]]>> : i \in DOMAIN v.of}>>
    [] v.kind = "array" -> <<"array", [i \in DOMAIN v.of |-> Canonical[v.of[i]]]>>
    [] OTHER -> <<Class(v.kind), <<v.of, v.bytes>>>>

\* Nothing in the value is not a number.
Regular[v \in JsonValues] ==
  CASE v.kind = "object" -> \A i \in DOMAIN v.of : Regular[v.of[i][2]]
    [] v.kind = "array"  -> \A i \in DOMAIN v.of : Regular[v.of[i]]
    [] OTHER -> ~IsNaN(v)

\* Keys that used the same paths and found the same values are equal, however
\* their documents are laid out, although the digest is compared first; and no
\* others are, although different uses may be hashed to the same digest, and
\* operator== takes values for equal that are hashed differently: 0.0 and -0.0 make
\* different keys, and a key that used a NaN is not even equal to its copy
\* (immutable_key.hpp operator==, immutable_key.cpp:36-56, jsonext.cpp:28-48).
EqualIffSameUse ==
  \A l, r \in Fixed :
    EqualKeys(key[l], key[r]) <=>
      /\ key[l].index = key[r].index
      /\ \A path \in key[l].index :
           /\ Canonical[Used(key[l], path)] = Canonical[Used(key[r], path)]
           /\ Regular[Used(key[l], path)]

EntityTypes == {"immutable_key", "string"}
Entities == {NoImpl} \cup {Model("immutable_key", k) : k \in Fixed}
                    \cup {Model("string", d) : d \in Documents}

\* Entity keys can be the keys of a hash map (entity_cache.hpp:24): those that are
\* equal are hashed alike, although equality looks at the elements in use and the
\* hash at their bytes, and they are equal to the same others, of which each has
\* an object of the same type (entity_key.cpp, entity_model).
EntitiesUsableAsKeys ==
  \A l, r \in Entities : EqualEntities(l, r) =>
    /\ HashValue(l) = HashValue(r)
    /\ \A e \in Entities : EqualEntities(e, l) => EqualEntities(r, e)
    /\ \A type \in EntityTypes : QueryEntity(l, type) = {} <=> QueryEntity(r, type) = {}
=============================================================================
