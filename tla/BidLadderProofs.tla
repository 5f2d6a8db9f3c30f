-------------------------- MODULE BidLadderProofs --------------------------
(***************************************************************************)
(* Proofs, for any prices, depths and limits, that set() keeps the ladder  *)
(* in order and up to date.                                                *)
(***************************************************************************)
EXTENDS BidLadder, FiniteSetTheorems, SequenceTheorems, WellFoundedInduction, TLAPS

\* The order of a ladder.
Ordered(s) == \A i, j \in DOMAIN s : i < j => s[i].price > s[j].price

IInv == LadderTypeOK /\ Descending /\ LevelsCurrent

----------------------------------------------------------------------------
(* Where a level is found, put, erased and cut. *)

\* A set of numbers that is not empty has a least one.
LEMMA LeastNumber ==
  ASSUME NEW T \in SUBSET Nat, T # {}
  PROVE  \E m \in T : \A k \in T : m <= k
<1> DEFINE R == {ss \in Nat \X Nat : ss[1] < ss[2]}
<1>1. IsWellFoundedOn(R, Nat)
  BY NatLessThanWellFounded DEF OpToRel
<1>2. PICK m \in T : \A k \in T : <<k, m>> \notin R
  <2> HIDE DEF R
  <2> QED
    BY <1>1, WFMin
<1>3. ASSUME NEW k \in T PROVE m <= k
  <2>1. <<k, m>> \in R <=> k < m
    BY Zenon
  <2> QED
    BY <1>2, <2>1
<1> QED
  BY <1>3

\* Where std::lower_bound finds the place of a price, in any ladder.
LEMMA PlaceOfPrice ==
  ASSUME NEW s \in Seq(Levels), NEW price \in Prices
  PROVE  LET i == LowerBound(s, price)
         IN  /\ i \in 1 .. Len(s) + 1
             /\ \A j \in 1 .. i - 1 : s[j].price > price
             /\ i <= Len(s) => s[i].price <= price
<1> DEFINE P(i) == /\ \A j \in 1 .. i - 1 : s[j].price > price
                   /\ i <= Len(s) => s[i].price <= price
           Below == {k \in 1 .. Len(s) + 1 : k <= Len(s) => s[k].price <= price}
<1>1. Len(s) \in Nat /\ \A k \in 1 .. Len(s) : s[k].price \in Int
  <2>1. \A k \in 1 .. Len(s) : s[k] \in Levels
    OBVIOUS
  <2>2. \A l \in Levels : l.price \in Int
    BY PricesAssumption DEF Levels
  <2> QED
    BY <2>1, <2>2
<1>2. Below \in SUBSET Nat /\ Len(s) + 1 \in Below
  BY <1>1
<1>3. PICK i \in Below : \A k \in Below : i <= k
  <2> HIDE DEF Below
  <2> QED
    BY <1>2, LeastNumber
<1>4. i \in 1 .. Len(s) + 1 /\ P(i)
  BY <1>1, <1>3, PricesAssumption
<1>5. LowerBound(s, price) = CHOOSE k \in 1 .. Len(s) + 1 : P(k)
  BY DEF LowerBound
<1> HIDE DEF P
<1>6. LowerBound(s, price) \in 1 .. Len(s) + 1 /\ P(LowerBound(s, price))
  BY <1>4, <1>5, Zenon
<1> QED
  BY <1>6 DEF P

\* What is in a sequence from which the i-th entry was taken out.
LEMMA ErasedEntries ==
  ASSUME NEW S, NEW s \in Seq(S), NEW i \in 1 .. Len(s)
  PROVE  /\ Erased(s, i) \in Seq(S)
         /\ Len(Erased(s, i)) = Len(s) - 1
         /\ \A k \in 1 .. Len(s) - 1 : Erased(s, i)[k] = s[IF k < i THEN k ELSE k + 1]
<1> DEFINE x == SubSeq(s, 1, i - 1)
           y == SubSeq(s, i + 1, Len(s))
<1>1. Len(s) \in Nat /\ \A k \in 1 .. Len(s) : s[k] \in S
  OBVIOUS
<1>2. /\ x \in Seq(S) /\ Len(x) = i - 1
      /\ \A k \in 1 .. i - 1 : x[k] = s[k]
  BY <1>1, SubSeqProperties
<1>3. /\ y \in Seq(S) /\ Len(y) = Len(s) - i
      /\ \A k \in 1 .. Len(s) - i : y[k] = s[i + k]
  BY <1>1, SubSeqProperties
<1>4. Erased(s, i) = x \o y
  BY DEF Erased
<1> HIDE DEF x, y
<1>5. /\ x \o y \in Seq(S) /\ Len(x \o y) = Len(x) + Len(y)
      /\ \A k \in 1 .. Len(x) + Len(y) :
           (x \o y)[k] = IF k <= Len(x) THEN x[k] ELSE y[k - Len(x)]
  BY <1>2, <1>3, ConcatProperties
<1>6. ASSUME NEW k \in 1 .. Len(s) - 1
      PROVE  (x \o y)[k] = s[IF k < i THEN k ELSE k + 1]
  <2>1. CASE k < i
    BY <1>1, <1>2, <1>3, <1>5, <2>1
  <2>2. CASE k >= i
    <3>1. k - (i - 1) \in 1 .. Len(s) - i /\ i + (k - (i - 1)) = k + 1
      BY <1>1, <2>2
    <3>2. y[k - (i - 1)] = s[k + 1]
      BY <1>3, <3>1
    <3> QED
      BY ONLY <1>1, <1>2, <1>3, <1>5, <2>2, <3>2, k \in 1 .. Len(s) - 1, i \in 1 .. Len(s)
  <2>3. k < i \/ k >= i
    BY <1>1
  <2> QED
    BY <2>1, <2>2, <2>3, Zenon
<1> QED
  BY <1>1, <1>2, <1>3, <1>4, <1>5, <1>6

\* What is in a sequence into which an entry was put before the i-th.
LEMMA InsertedEntries ==
  ASSUME NEW S, NEW s \in Seq(S), NEW i \in 1 .. Len(s) + 1, NEW l \in S
  PROVE  /\ Inserted(s, i, l) \in Seq(S)
         /\ Len(Inserted(s, i, l)) = Len(s) + 1
         /\ \A k \in 1 .. Len(s) + 1 :
              Inserted(s, i, l)[k] = IF k < i THEN s[k] ELSE IF k = i THEN l ELSE s[k - 1]
<1> DEFINE x == SubSeq(s, 1, i - 1)
           y == SubSeq(s, i, Len(s))
           z == x \o <<l>>
<1>1. Len(s) \in Nat /\ \A k \in 1 .. Len(s) : s[k] \in S
  OBVIOUS
<1>2. /\ x \in Seq(S) /\ Len(x) = i - 1
      /\ \A k \in 1 .. i - 1 : x[k] = s[k]
  BY <1>1, SubSeqProperties
<1>3. /\ y \in Seq(S) /\ Len(y) = Len(s) + 1 - i
      /\ \A k \in 1 .. Len(s) + 1 - i : y[k] = s[i + k - 1]
  BY <1>1, SubSeqProperties
<1>4. Inserted(s, i, l) = z \o y
  BY DEF Inserted
<1> HIDE DEF x, y
<1>5. z \in Seq(S) /\ Len(z) = i /\ z[i] = l /\ \A k \in 1 .. i - 1 : z[k] = s[k]
  BY <1>2, ConcatProperties
<1> HIDE DEF z
<1>6. /\ z \o y \in Seq(S) /\ Len(z \o y) = Len(z) + Len(y)
      /\ \A k \in 1 .. Len(z) + Len(y) :
           (z \o y)[k] = IF k <= Len(z) THEN z[k] ELSE y[k - Len(z)]
  BY <1>3, <1>5, ConcatProperties
<1>7. ASSUME NEW k \in 1 .. Len(s) + 1
      PROVE  (z \o y)[k] = IF k < i THEN s[k] ELSE IF k = i THEN l ELSE s[k - 1]
  <2>1. CASE k <= i
    BY ONLY <1>1, <1>3, <1>5, <1>6, <2>1, k \in 1 .. Len(s) + 1, i \in 1 .. Len(s) + 1
  <2>2. CASE k > i
    <3>1. k - i \in 1 .. Len(s) + 1 - i /\ i + (k - i) - 1 = k - 1
      BY <1>1, <2>2
    <3>2. y[k - i] = s[k - 1]
      BY <1>3, <3>1
    <3> QED
      BY ONLY <1>1, <1>3, <1>5, <1>6, <2>2, <3>2, k \in 1 .. Len(s) + 1, i \in 1 .. Len(s) + 1
  <2>3. k <= i \/ k > i
    BY <1>1
  <2> QED
    BY <2>1, <2>2, <2>3, Zenon
<1> QED
  BY <1>1, <1>3, <1>4, <1>5, <1>6, <1>7

\* A cut leaves the first entries.
LEMMA CutEntries ==
  ASSUME NEW S, NEW s \in Seq(S), NEW n \in Nat
  PROVE  /\ Cut(s, n) \in Seq(S)
         /\ Len(Cut(s, n)) = IF Len(s) > n THEN n ELSE Len(s)
         /\ \A k \in 1 .. Len(Cut(s, n)) : Cut(s, n)[k] = s[k]
<1>1. Len(s) \in Nat /\ \A k \in 1 .. Len(s) : s[k] \in S
  OBVIOUS
<1> DEFINE m == IF Len(s) > n THEN n ELSE Len(s)
<1>2. m \in Nat /\ m <= Len(s) /\ m <= n
  BY <1>1
<1> HIDE DEF m
<1>3. /\ SubSeq(s, 1, m) \in Seq(S) /\ Len(SubSeq(s, 1, m)) = m
      /\ \A k \in 1 .. m : SubSeq(s, 1, m)[k] = s[k]
  BY <1>1, <1>2, SubSeqProperties
<1> QED
  BY <1>2, <1>3 DEF Cut, m

----------------------------------------------------------------------------
(* What set() leaves. *)

\* A ladder in order, in which an entry is the level that was told or one of
\* another price that was there.
Updates(t, s, l) ==
  /\ t \in Seq(Levels) /\ Ordered(t)
  /\ \A k \in DOMAIN t : \/ t[k] = l
                        \/ \E j \in DOMAIN s : s[j].price # l.price /\ t[k] = s[j]

\* A level of a new price goes where it keeps the order.
LEMMA InsertedOrder ==
  ASSUME NEW s \in Seq(Levels), Ordered(s), NEW l \in Levels,
         NEW i \in 1 .. Len(s) + 1, \A j \in 1 .. i - 1 : s[j].price > l.price,
         i <= Len(s) => s[i].price < l.price
  PROVE  Updates(Inserted(s, i, l), s, l)
<1> DEFINE t == Inserted(s, i, l)
           price == l.price
<1>0. \A m \in Levels : m.price \in Int
  BY PricesAssumption DEF Levels
<1>1. Len(s) \in Nat /\ DOMAIN s = 1 .. Len(s) /\ price \in Int
  BY <1>0
<1>2. \A j \in 1 .. Len(s) : s[j].price \in Int
  <2>1. \A j \in 1 .. Len(s) : s[j] \in Levels
    OBVIOUS
  <2> QED
    BY <1>0, <2>1
<1>3. /\ t \in Seq(Levels) /\ Len(t) = Len(s) + 1
      /\ \A k \in 1 .. Len(s) + 1 :
           t[k] = IF k < i THEN s[k] ELSE IF k = i THEN l ELSE s[k - 1]
  BY InsertedEntries
<1> HIDE DEF t
<1>4. DOMAIN t = 1 .. Len(s) + 1
  BY <1>1, <1>3
<1>5. ASSUME NEW j \in 1 .. Len(s), j >= i PROVE s[j].price < price
  <2>1. CASE j = i
    BY <1>1, <2>1
  <2>2. CASE j > i
    <3>1. i \in 1 .. Len(s) /\ s[i].price > s[j].price /\ s[i].price < price
      BY <1>1, <2>2 DEF Ordered
    <3> QED
      BY <1>1, <1>2, <3>1
  <2> QED
    BY <1>1, <1>5, <2>1, <2>2
<1>6. ASSUME NEW k \in 1 .. Len(s) + 1
      PROVE  \/ k < i /\ k \in 1 .. Len(s) /\ t[k] = s[k] /\ s[k].price > price
             \/ k = i /\ t[k] = l
             \/ k > i /\ k - 1 \in 1 .. Len(s) /\ t[k] = s[k - 1] /\ s[k - 1].price < price
  <2>1. CASE k < i
    BY <1>1, <1>3, <2>1
  <2>2. CASE k = i
    BY <1>3, <2>2
  <2>3. CASE k > i
    <3>1. k - 1 \in 1 .. Len(s) /\ k - 1 >= i
      BY <1>1, <2>3
    <3> QED
      BY <1>3, <1>5, <2>3, <3>1
  <2> QED
    BY <1>1, <2>1, <2>2, <2>3
<1>7. Ordered(t)
  <2> SUFFICES ASSUME NEW a \in 1 .. Len(s) + 1, NEW b \in 1 .. Len(s) + 1, a < b
               PROVE  t[a].price > t[b].price
    BY <1>4 DEF Ordered
  <2>1. \A x, y \in 1 .. Len(s) : x < y => s[x].price > s[y].price
    BY <1>1 DEF Ordered
  <2>2. CASE b < i
    BY <1>1, <1>6, <2>1, <2>2
  <2>3. CASE b = i
    BY <1>1, <1>6, <2>3
  <2>4. CASE b > i /\ a > i
    <3>1. t[a] = s[a - 1] /\ t[b] = s[b - 1] /\ a - 1 \in 1 .. Len(s) /\ b - 1 \in 1 .. Len(s)
      BY <1>1, <1>6, <2>4
    <3>2. a - 1 < b - 1
      BY <1>1
    <3> QED
      BY <2>1, <3>1, <3>2
  <2>5. CASE b > i /\ a <= i
    <3>1. t[b] = s[b - 1] /\ b - 1 \in 1 .. Len(s) /\ s[b - 1].price < price
      BY <1>1, <1>6, <2>5
    <3>2. t[a].price \in Int /\ t[a].price >= price
      BY <1>1, <1>2, <1>6, <2>5
    <3> QED
      BY <1>1, <1>2, <3>1, <3>2
  <2> QED
    BY <1>1, <2>2, <2>3, <2>4, <2>5
<1>8. ASSUME NEW k \in 1 .. Len(s) + 1
      PROVE  t[k] = l \/ \E j \in 1 .. Len(s) : s[j].price # price /\ t[k] = s[j]
  BY <1>1, <1>2, <1>6
<1> QED
  BY <1>1, <1>3, <1>4, <1>7, <1>8 DEF Updates, t

\* A level that goes leaves the others, all of other prices, in order.
LEMMA ErasedOrder ==
  ASSUME NEW s \in Seq(Levels), Ordered(s), NEW i \in 1 .. Len(s), NEW l \in Levels,
         s[i].price = l.price
  PROVE  Updates(Erased(s, i), s, l)
<1> DEFINE t == Erased(s, i)
           Old(k) == IF k < i THEN k ELSE k + 1
<1>1. Len(s) \in Nat /\ DOMAIN s = 1 .. Len(s)
  OBVIOUS
<1>2. /\ t \in Seq(Levels) /\ Len(t) = Len(s) - 1
      /\ \A k \in 1 .. Len(s) - 1 : t[k] = s[Old(k)]
  BY ErasedEntries
<1> HIDE DEF t
<1>3. DOMAIN t = 1 .. Len(s) - 1
  BY <1>1, <1>2
<1>4. \A k \in 1 .. Len(s) - 1 : Old(k) \in 1 .. Len(s) /\ Old(k) # i
  BY <1>1
<1>5. \A a, b \in 1 .. Len(s) - 1 : a < b => Old(a) < Old(b)
  BY <1>1
<1> HIDE DEF Old
<1>6. Ordered(t)
  BY <1>1, <1>2, <1>3, <1>4, <1>5 DEF Ordered
<1>7. ASSUME NEW j \in 1 .. Len(s), j # i PROVE s[j].price # l.price
  <2>1. \A m \in Levels : m.price \in Int
    BY PricesAssumption DEF Levels
  <2>2. s[i].price \in Int /\ s[j].price \in Int
    BY <2>1
  <2>3. s[i].price > s[j].price \/ s[j].price > s[i].price
    BY <1>1, <1>7 DEF Ordered
  <2> QED
    BY <2>2, <2>3
<1> QED
  BY <1>1, <1>2, <1>3, <1>4, <1>6, <1>7 DEF Updates, t

\* A level that changes its depth stays where it is.
LEMMA ChangedOrder ==
  ASSUME NEW s \in Seq(Levels), Ordered(s), NEW i \in 1 .. Len(s),
         NEW price \in Prices, NEW depth \in Depths, s[i].price = price
  PROVE  Updates([s EXCEPT ![i].depth = depth], s, [price |-> price, depth |-> depth])
<1> DEFINE t == [s EXCEPT ![i].depth = depth]
           l == [price |-> price, depth |-> depth]
<1>1. Len(s) \in Nat /\ DOMAIN s = 1 .. Len(s) /\ s[i] \in Levels /\ l \in Levels
  <2>1. Len(s) \in Nat /\ DOMAIN s = 1 .. Len(s) /\ s[i] \in Levels
    OBVIOUS
  <2>2. l \in Levels
    BY DEF Levels
  <2> QED
    BY <2>1, <2>2
<1>2. t[i] = l
  <2>1. t[i] = [s[i] EXCEPT !.depth = depth]
    BY <1>1
  <2>2. \A m \in Levels : m.price = price => [m EXCEPT !.depth = depth] = l
    BY DEF Levels
  <2> QED
    BY <1>1, <2>1, <2>2
<1>3. DOMAIN t = 1 .. Len(s) /\ \A k \in 1 .. Len(s) : k # i => t[k] = s[k]
  BY <1>1
<1>4. l.price = price
  OBVIOUS
<1> HIDE DEF t, l
<1>5. t \in Seq(Levels)
  <2>1. \A k \in 1 .. Len(s) : t[k] \in Levels
    BY <1>1, <1>2, <1>3
  <2>2. t = [s EXCEPT ![i] = t[i]]
    BY <1>1, <1>2, <1>3 DEF t
  <2> QED
    BY <1>1, <1>2, <2>2
<1>6. Ordered(t)
  <2> SUFFICES ASSUME NEW a \in 1 .. Len(s), NEW b \in 1 .. Len(s), a < b
               PROVE  t[a].price > t[b].price
    BY <1>3 DEF Ordered
  <2>1. \A k \in 1 .. Len(s) : t[k].price = s[k].price
    BY <1>2, <1>3, <1>4
  <2> QED
    BY <1>1, <2>1 DEF Ordered
<1>7. ASSUME NEW j \in 1 .. Len(s), j # i PROVE s[j].price # price
  <2>1. \A m \in Levels : m.price \in Int
    BY PricesAssumption DEF Levels
  <2>2. s[i].price \in Int /\ s[j].price \in Int
    BY <2>1
  <2>3. s[i].price > s[j].price \/ s[j].price > s[i].price
    BY <1>1, <1>7 DEF Ordered
  <2> QED
    BY <2>2, <2>3
<1> QED
  BY <1>1, <1>2, <1>3, <1>4, <1>5, <1>6, <1>7 DEF Updates, t, l

\* A cut leaves a ladder that is updated all the same.
LEMMA CutOrder ==
  ASSUME NEW s \in Seq(Levels), NEW l \in Levels, NEW t, Updates(t, s, l), NEW n \in Nat
  PROVE  Updates(Cut(t, n), s, l)
<1> DEFINE u == Cut(t, n)
<1>1. /\ t \in Seq(Levels) /\ DOMAIN t = 1 .. Len(t) /\ Len(t) \in Nat
  BY DEF Updates
<1>2. /\ u \in Seq(Levels) /\ Len(u) <= Len(t)
      /\ \A k \in 1 .. Len(u) : u[k] = t[k]
  <2>1. /\ u \in Seq(Levels) /\ Len(u) = IF Len(t) > n THEN n ELSE Len(t)
        /\ \A k \in 1 .. Len(u) : u[k] = t[k]
    BY <1>1, CutEntries
  <2> HIDE DEF u
  <2> QED
    BY <1>1, <2>1
<1> HIDE DEF u
<1>3. DOMAIN u = 1 .. Len(u) /\ Len(u) \in Nat /\ 1 .. Len(u) \subseteq 1 .. Len(t)
  BY <1>1, <1>2
<1>4. Ordered(u)
  BY <1>1, <1>2, <1>3 DEF Updates, Ordered
<1> QED
  BY <1>1, <1>2, <1>3, <1>4 DEF Updates, u

\* Whatever set() is told, the ladder is in order, what it shows of the price is
\* what was told, and it grows to its limit at most.
LEMMA AfterSetSound ==
  ASSUME NEW s \in Seq(Levels), Ordered(s), NEW n \in Limits,
         NEW price \in Prices, NEW depth \in Depths
  PROVE  /\ Updates(LevelsAfter(s, n, price, depth), s, [price |-> price, depth |-> depth])
         /\ Len(LevelsAfter(s, n, price, depth)) > Len(s) =>
              Len(LevelsAfter(s, n, price, depth)) <= n
<1> DEFINE i == LowerBound(s, price)
           l == [price |-> price, depth |-> depth]
           t == LevelsAfter(s, n, price, depth)
<1>1. /\ i \in 1 .. Len(s) + 1
      /\ \A j \in 1 .. i - 1 : s[j].price > price
      /\ i <= Len(s) => s[i].price <= price
  BY PlaceOfPrice
<1>2. Len(s) \in Nat /\ n \in Nat /\ l \in Levels /\ l.price = price /\ price \in Int
  BY PricesAssumption, LimitsAssumption DEF Levels
<1>3. t = IF ~Found(s, i, price) THEN Cut(Inserted(s, i, l), n)
          ELSE IF depth = 0 THEN Erased(s, i) ELSE [s EXCEPT ![i].depth = depth]
  BY DEF LevelsAfter
<1> HIDE DEF i, t
<1>4. CASE ~Found(s, i, price)
  <2>1. i <= Len(s) => s[i].price \in Int /\ s[i].price # price
    <3>1. \A m \in Levels : m.price \in Int
      BY PricesAssumption DEF Levels
    <3> QED
      BY <1>1, <1>2, <1>4, <3>1 DEF Found
  <2>2. Updates(Inserted(s, i, l), s, l) /\ Inserted(s, i, l) \in Seq(Levels)
    <3> HIDE DEF l
    <3>1. /\ \A j \in 1 .. i - 1 : s[j].price > l.price
          /\ i <= Len(s) => s[i].price < l.price
      BY <1>1, <1>2, <2>1
    <3> QED
      BY <1>1, <1>2, <3>1, InsertedOrder DEF Updates
  <2>3. t = Cut(Inserted(s, i, l), n)
    BY <1>3, <1>4
  <2>4. Updates(t, s, l)
    BY <1>2, <2>2, <2>3, CutOrder
  <2>5. Len(t) <= n
    BY <1>2, <2>2, <2>3, CutEntries
  <2> QED
    BY <2>4, <2>5 DEF t
<1>5. CASE Found(s, i, price)
  <2>1. i \in 1 .. Len(s) /\ s[i].price = price
    BY <1>1, <1>2, <1>5 DEF Found
  <2>2. CASE depth = 0
    <3>1. t = Erased(s, i)
      BY <1>3, <1>5, <2>2
    <3>2. Updates(t, s, l)
      BY <1>2, <2>1, <3>1, ErasedOrder
    <3>3. Len(t) = Len(s) - 1
      BY <2>1, <3>1, ErasedEntries
    <3> QED
      BY <1>2, <3>2, <3>3 DEF t
  <2>3. CASE depth # 0
    <3>1. t = [s EXCEPT ![i].depth = depth]
      BY <1>3, <1>5, <2>3
    <3>2. Updates(t, s, l)
      BY <2>1, <3>1, ChangedOrder
    <3>3. Len(t) = Len(s)
      BY <3>1
    <3> QED
      BY <1>2, <3>2, <3>3 DEF t
  <2> QED
    BY <2>2, <2>3
<1> QED
  BY <1>4, <1>5

----------------------------------------------------------------------------
(* Which levels set() keeps. *)

\* The levels of ls that are better than a price.
Better(ls, price) == {k \in ls : k.price > price}

\* In a ladder the i-th level has i - 1 better ones.
LEMMA RankOfLevel ==
  ASSUME NEW t \in Seq(Levels), Ordered(t), NEW i \in DOMAIN t
  PROVE  Cardinality(Better(Ladder(t), t[i].price)) = i - 1
<1> DEFINE B == Better(Ladder(t), t[i].price)
           f == [j \in 1 .. i - 1 |-> t[j]]
<1>1. DOMAIN t = 1 .. Len(t) /\ Len(t) \in Nat /\ i \in Nat
  OBVIOUS
<1>2. \A j \in DOMAIN t : t[j].price \in Int
  <2>1. \A m \in Levels : m.price \in Int
    BY PricesAssumption DEF Levels
  <2> QED
    BY <2>1
<1>3. ASSUME NEW j \in DOMAIN t PROVE t[j].price > t[i].price <=> j < i
  <2>1. CASE j < i
    BY <2>1 DEF Ordered
  <2>2. CASE j = i
    BY <1>2, <2>2
  <2>3. CASE j > i
    <3>1. t[i].price > t[j].price
      BY <2>3 DEF Ordered
    <3> QED
      BY <1>2, <2>3, <3>1
  <2> QED
    BY <1>1, <2>1, <2>2, <2>3
<1>4. B = {t[j] : j \in 1 .. i - 1}
  <2>1. ASSUME NEW k \in B PROVE k \in {t[j] : j \in 1 .. i - 1}
    <3>1. PICK j \in DOMAIN t : k = t[j]
      BY DEF Better, Ladder
    <3>2. j < i
      BY <1>3, <3>1 DEF Better
    <3> QED
      BY <1>1, <3>1, <3>2
  <2>2. ASSUME NEW j \in 1 .. i - 1 PROVE t[j] \in B
    BY <1>1, <1>3 DEF Better, Ladder
  <2> QED
    BY <2>1, <2>2
<1>5. f \in Bijection(1 .. i - 1, B)
  <2>1. ASSUME NEW a \in 1 .. i - 1, NEW b \in 1 .. i - 1, t[a] = t[b] PROVE a = b
    <3>1. t[a].price = t[b].price /\ t[a].price \in Int
      BY <1>1, <1>2, <2>1
    <3>2. a \in DOMAIN t /\ b \in DOMAIN t
      BY <1>1
    <3>3. ~(a < b) /\ ~(b < a)
      BY <3>1, <3>2 DEF Ordered
    <3> QED
      BY <1>1, <3>3
  <2> HIDE DEF B
  <2> QED
    BY <1>4, <2>1 DEF Bijection, Injection, Surjection, IsInjective
<1> HIDE DEF B
<1>6. ExistsBijection(1 .. i - 1, B)
  BY <1>5 DEF ExistsBijection
<1>7. Cardinality(B) = i - 1
  <2> DEFINE m == i - 1
  <2>1. m \in Nat /\ ExistsBijection(1 .. m, B)
    BY <1>1, <1>6
  <2> HIDE DEF m
  <2>2. Cardinality(B) = m
    BY <2>1, FS_CountingElements
  <2> QED
    BY <2>2 DEF m
<1> QED
  BY <1>7 DEF B

\* What a cut leaves are the levels that have fewer than n better ones.
LEMMA CutKeepsBest ==
  ASSUME NEW t \in Seq(Levels), Ordered(t), NEW n \in Nat
  PROVE  Ladder(Cut(t, n)) = {l \in Ladder(t) : Cardinality(Better(Ladder(t), l.price)) < n}
<1> DEFINE u == Cut(t, n)
<1>1. /\ u \in Seq(Levels) /\ Len(u) = IF Len(t) > n THEN n ELSE Len(t)
      /\ \A k \in 1 .. Len(u) : u[k] = t[k]
  BY CutEntries
<1> HIDE DEF u
<1>2. DOMAIN u = 1 .. Len(u) /\ DOMAIN t = 1 .. Len(t) /\ Len(t) \in Nat
  BY <1>1
<1>3. \A k \in DOMAIN t : k \in DOMAIN u <=> k - 1 < n
  BY <1>1, <1>2
<1>4. DOMAIN u \subseteq DOMAIN t
  BY <1>1, <1>2
<1>5. \A k \in DOMAIN t : Cardinality(Better(Ladder(t), t[k].price)) = k - 1
  BY RankOfLevel
<1>6. ASSUME NEW l \in Ladder(u)
      PROVE  l \in Ladder(t) /\ Cardinality(Better(Ladder(t), l.price)) < n
  <2>1. PICK k \in DOMAIN u : l = u[k]
    BY DEF Ladder
  <2>2. k \in DOMAIN t /\ l = t[k]
    BY <1>1, <1>2, <1>4, <2>1
  <2>3. l \in Ladder(t)
    BY <2>2 DEF Ladder
  <2> QED
    BY <1>3, <1>5, <2>1, <2>2, <2>3
<1>7. ASSUME NEW l \in Ladder(t), Cardinality(Better(Ladder(t), l.price)) < n
      PROVE  l \in Ladder(u)
  <2>1. PICK k \in DOMAIN t : l = t[k]
    BY DEF Ladder
  <2>2. k \in DOMAIN u /\ u[k] = l
    BY <1>1, <1>2, <1>3, <1>5, <1>7, <2>1
  <2> QED
    BY <2>2 DEF Ladder
<1> QED
  BY <1>6, <1>7 DEF u

\* A bid leaves the other prices' levels and its own.
LEMMA BidKept ==
  ASSUME NEW s \in Seq(Levels), Ordered(s), NEW n \in Limits,
         NEW price \in Prices, NEW depth \in Depths \ {0}
  PROVE  LET l    == [price |-> price, depth |-> depth]
             rest == {k \in Ladder(s) : k.price # price}
             all  == rest \cup {l}
         IN  Ladder(LevelsAfter(s, n, price, depth)) =
               IF rest # Ladder(s) THEN all
               ELSE {k \in all : Cardinality(Better(all, k.price)) < n}
<1> DEFINE i == LowerBound(s, price)
           l == [price |-> price, depth |-> depth]
           rest == {k \in Ladder(s) : k.price # price}
           all  == rest \cup {l}
           t == LevelsAfter(s, n, price, depth)
<1>1. /\ i \in 1 .. Len(s) + 1
      /\ \A j \in 1 .. i - 1 : s[j].price > price
      /\ i <= Len(s) => s[i].price <= price
  BY PlaceOfPrice
<1>2. Len(s) \in Nat /\ n \in Nat /\ l \in Levels /\ l.price = price /\ price \in Int
  BY PricesAssumption, LimitsAssumption DEF Levels
<1>3. t = IF ~Found(s, i, price) THEN Cut(Inserted(s, i, l), n)
          ELSE [s EXCEPT ![i].depth = depth]
  BY DEF LevelsAfter
<1>4. DOMAIN s = 1 .. Len(s) /\ \A j \in 1 .. Len(s) : s[j].price \in Int
  <2>1. \A m \in Levels : m.price \in Int
    BY PricesAssumption DEF Levels
  <2>2. \A j \in 1 .. Len(s) : s[j] \in Levels
    OBVIOUS
  <2> QED
    BY <2>1, <2>2
<1> HIDE DEF i, t
<1>5. CASE ~Found(s, i, price)
  <2> DEFINE u == Inserted(s, i, l)
  <2>1. i <= Len(s) => s[i].price < l.price
    BY <1>1, <1>2, <1>4, <1>5 DEF Found
  <2>2. Updates(u, s, l)
    <3> HIDE DEF l
    <3> QED
      BY <1>1, <1>2, <2>1, InsertedOrder
  <2>3. /\ u \in Seq(Levels) /\ Len(u) = Len(s) + 1
        /\ \A k \in 1 .. Len(s) + 1 :
             u[k] = IF k < i THEN s[k] ELSE IF k = i THEN l ELSE s[k - 1]
    <3> HIDE DEF l
    <3> QED
      BY <1>1, <1>2, InsertedEntries
  <2> HIDE DEF u, l
  <2>4. DOMAIN u = 1 .. Len(s) + 1
    BY <1>2, <2>3
  <2>5. Ladder(s) \cup {l} = Ladder(u)
    <3>1. ASSUME NEW j \in 1 .. Len(s) PROVE s[j] \in Ladder(u)
      <4>1. CASE j < i
        <5>1. j \in DOMAIN u /\ u[j] = s[j]
          BY <1>1, <1>2, <2>3, <2>4, <4>1
        <5> QED
          BY <5>1 DEF Ladder
      <4>2. CASE j >= i
        <5>1. j + 1 \in DOMAIN u /\ ~(j + 1 < i) /\ j + 1 # i /\ (j + 1) - 1 = j
          BY <1>1, <1>2, <2>4, <4>2
        <5>2. u[j + 1] = s[j]
          BY <2>3, <2>4, <5>1
        <5> QED
          BY <5>1, <5>2 DEF Ladder
      <4> QED
        BY <1>1, <1>2, <4>1, <4>2
    <3>2. l \in Ladder(u)
      <4>1. i \in DOMAIN u /\ u[i] = l
        BY <1>1, <1>2, <2>3, <2>4
      <4> QED
        BY <4>1 DEF Ladder
    <3>3. ASSUME NEW k \in DOMAIN u PROVE u[k] \in Ladder(s) \cup {l}
      BY <1>4, <2>2 DEF Updates, Ladder
    <3> QED
      BY <1>4, <3>1, <3>2, <3>3 DEF Ladder
  <2>6. ASSUME NEW j \in 1 .. Len(s) PROVE s[j].price # price
    <3>1. CASE j < i
      BY <1>1, <1>2, <1>4, <3>1
    <3>2. CASE j = i
      BY <1>2, <1>4, <2>1, <3>2
    <3>3. CASE j > i
      <4>1. i \in 1 .. Len(s) /\ s[i].price > s[j].price /\ s[i].price < price
        BY <1>1, <1>2, <1>4, <2>1, <3>3 DEF Ordered
      <4> QED
        BY <1>2, <1>4, <4>1
    <3> QED
      BY <1>1, <1>2, <3>1, <3>2, <3>3
  <2>7. rest = Ladder(s) /\ all = Ladder(u)
    BY <1>4, <2>5, <2>6 DEF Ladder
  <2>8. Ladder(t) = {k \in Ladder(u) : Cardinality(Better(Ladder(u), k.price)) < n}
    <3>1. t = Cut(u, n)
      BY <1>3, <1>5 DEF u
    <3> QED
      BY <1>2, <2>2, <2>3, <3>1, CutKeepsBest DEF Updates
  <2> QED
    BY <2>7, <2>8 DEF t, l
<1>6. CASE Found(s, i, price)
  <2>1. i \in 1 .. Len(s) /\ s[i].price = price
    BY <1>1, <1>2, <1>6 DEF Found
  <2>2. t = [s EXCEPT ![i].depth = depth]
    BY <1>3, <1>6
  <2>3. Updates(t, s, l)
    BY <2>1, <2>2, ChangedOrder
  <2>4. t[i] = l
    <3>1. t[i] = [s[i] EXCEPT !.depth = depth] /\ s[i] \in Levels
      BY <1>4, <2>1, <2>2
    <3>2. \A m \in Levels : m.price = price => [m EXCEPT !.depth = depth] = l
      BY DEF Levels
    <3> QED
      BY <2>1, <3>1, <3>2
  <2>5. DOMAIN t = 1 .. Len(s) /\ \A k \in 1 .. Len(s) : k # i => t[k] = s[k]
    BY <1>4, <2>1, <2>2
  <2> HIDE DEF l
  <2>6. rest # Ladder(s)
    <3>1. s[i] \in Ladder(s)
      BY <1>4, <2>1 DEF Ladder
    <3> QED
      BY <2>1, <3>1
  <2>7. ASSUME NEW k \in DOMAIN t PROVE t[k] \in all
    BY <1>2, <2>3 DEF Updates, Ladder
  <2>8. ASSUME NEW j \in 1 .. Len(s), s[j].price # price PROVE s[j] \in Ladder(t)
    <3>1. j # i
      BY <2>1, <2>8
    <3>2. t[j] = s[j]
      BY <2>5, <3>1
    <3> QED
      BY <2>5, <3>2 DEF Ladder
  <2>9. l \in Ladder(t)
    BY <2>1, <2>4, <2>5 DEF Ladder
  <2>10. Ladder(t) = all
    BY <1>4, <2>7, <2>8, <2>9 DEF Ladder
  <2> QED
    BY <2>6, <2>10 DEF t, l
<1> QED
  BY <1>5, <1>6

----------------------------------------------------------------------------

\* An empty ladder is in order.
LEMMA InitIInv == LadderInit => IInv
BY DEF LadderInit, IInv, LadderTypeOK, Descending, LevelsCurrent

\* set() keeps every level in order and as it was told last.
LEMMA StepIInv == IInv /\ [LadderNext]_ladderVars => IInv'
<1> SUFFICES ASSUME IInv, [LadderNext]_ladderVars PROVE IInv'
  OBVIOUS
<1>1. ASSUME NEW price \in Prices, NEW depth \in Depths, SetLevel(price, depth) PROVE IInv'
  <2> DEFINE l == [price |-> price, depth |-> depth]
  <2>1. Updates(levels', levels, l)
    BY <1>1, AfterSetSound DEF IInv, LadderTypeOK, Descending, Ordered, SetLevel
  <2>2. LadderTypeOK' /\ Descending'
    BY <1>1, <2>1 DEF IInv, LadderTypeOK, Descending, Updates, Ordered, SetLevel
  <2>3. ASSUME NEW k \in DOMAIN levels' PROVE levels'[k].depth = told'[levels'[k].price]
    <3>1. CASE levels'[k] = l
      BY <1>1, <3>1 DEF IInv, LadderTypeOK, SetLevel
    <3>2. CASE \E j \in DOMAIN levels : levels[j].price # price /\ levels'[k] = levels[j]
      BY <1>1, <3>2 DEF IInv, LadderTypeOK, LevelsCurrent, SetLevel
    <3> QED
      BY <2>1, <3>1, <3>2 DEF Updates
  <2> QED
    BY <2>2, <2>3 DEF IInv, LevelsCurrent
<1>2. CASE \E n \in Limits : SetMaxLevels(n)
  BY <1>2 DEF IInv, LadderTypeOK, Descending, LevelsCurrent, SetMaxLevels
<1>3. CASE UNCHANGED ladderVars
  BY <1>3 DEF IInv, LadderTypeOK, Descending, LevelsCurrent, ladderVars
<1> QED
  BY <1>1, <1>2, <1>3 DEF LadderNext

\* A ladder keeps its type (bid_ladder.hpp).
THEOREM TypeCorrect == LadderSpec => []LadderTypeOK
<1>1. IInv => LadderTypeOK
  BY DEF IInv
<1> QED
  BY InitIInv, StepIInv, <1>1, PTL DEF LadderSpec

\* For any prices and limits the ladder is ordered by decreasing price, each
\* price once: std::lower_bound may be used in it.
THEOREM AlwaysDescending == LadderSpec => []Descending
<1>1. IInv => Descending
  BY DEF IInv
<1> QED
  BY InitIInv, StepIInv, <1>1, PTL DEF LadderSpec

\* A level shows what set() was told last for its price, be it evicted in between.
THEOREM AlwaysCurrent == LadderSpec => []LevelsCurrent
<1>1. IInv => LevelsCurrent
  BY DEF IInv
<1> QED
  BY InitIInv, StepIInv, <1>1, PTL DEF LadderSpec

\* set() makes no ladder grow beyond max_levels, whatever that was before.
THEOREM NoGrowthBeyondLimit == LadderSpec => GrowsToLimit
<1>1. IInv /\ [LadderNext]_ladderVars => [Len(levels') > Len(levels) => Len(levels') <= max_levels']_ladderVars
  <2> SUFFICES ASSUME IInv, LadderNext, Len(levels') > Len(levels)
               PROVE  Len(levels') <= max_levels'
    OBVIOUS
  <2>1. CASE \E price \in Prices, depth \in Depths : SetLevel(price, depth)
    BY <2>1, AfterSetSound DEF IInv, LadderTypeOK, Descending, Ordered, SetLevel
  <2>2. CASE \E n \in Limits : SetMaxLevels(n)
    BY <2>2 DEF IInv, LadderTypeOK, SetMaxLevels
  <2> QED
    BY <2>1, <2>2 DEF LadderNext
<1> QED
  BY InitIInv, StepIInv, <1>1, PTL DEF LadderSpec, GrowsToLimit

\* A bid takes its price's place, and of a new price the levels beyond the limit
\* are lost, never a better one: for any prices and limits.
THEOREM BestBidsKept == LadderSpec => KeepsBest
<1> DEFINE Kept(price, depth) ==
             LET rest == {l \in Ladder(levels) : l.price # price}
                 all  == rest \cup {[price |-> price, depth |-> depth]}
             IN  Ladder(levels') =
                   IF rest # Ladder(levels) THEN all
                   ELSE {l \in all : Cardinality({k \in all : k.price > l.price}) < max_levels}
<1>1. IInv /\ [LadderNext]_ladderVars =>
        [\A price \in Prices, depth \in Depths \ {0} : SetLevel(price, depth) => Kept(price, depth)]_ladderVars
  <2> SUFFICES ASSUME IInv, NEW price \in Prices, NEW depth \in Depths \ {0}, SetLevel(price, depth)
               PROVE  Kept(price, depth)
    OBVIOUS
  <2>1. /\ levels \in Seq(Levels) /\ Ordered(levels) /\ max_levels \in Limits
        /\ levels' = LevelsAfter(levels, max_levels, price, depth)
    BY DEF IInv, LadderTypeOK, Descending, Ordered, SetLevel
  <2> QED
    BY <2>1, BidKept DEF Better
<1> QED
  BY InitIInv, StepIInv, <1>1, PTL DEF LadderSpec, KeepsBest
=============================================================================
