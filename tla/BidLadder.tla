----------------------------- MODULE BidLadder -----------------------------
(***************************************************************************)
(* bid_ladder: the bid side of an order book, a vector of levels that      *)
(* set() keeps in order of decreasing price and cuts to max_levels.        *)
(* Prices and depths are doubles in the code; NaN, which has no place in   *)
(* an order, is left out.                                                  *)
(***************************************************************************)
EXTENDS Integers, Sequences, FiniteSets

CONSTANTS Prices,  \* the prices that are told
          Depths,  \* the depths that are told, 0 among them
          Limits   \* the values given to max_levels

ASSUME PricesAssumption == Prices \subseteq Int
ASSUME DepthsAssumption == Depths \subseteq Nat /\ 0 \in Depths
ASSUME LimitsAssumption == Limits \subseteq Nat

VARIABLES levels,      \* the ladder
          max_levels,  \* a public member, 1024 unless it is assigned
          told         \* history: the depth told last for each price, -1 at first

ladderVars == <<levels, max_levels, told>>

Levels == [price : Prices, depth : Depths]

----------------------------------------------------------------------------

\* std::upper_bound in its place: an existing level is never found.
UpperBound(s, price) ==
  CHOOSE i \in 1 .. Len(s) + 1 :
    /\ \A j \in 1 .. i - 1 : s[j].price >= price
    /\ i <= Len(s) => s[i].price < price

\* std::lower_bound with price_greater: the first level that is not above price.
LowerBound(s, price) ==
  CHOOSE i \in 1 .. Len(s) + 1 :
    /\ \A j \in 1 .. i - 1 : s[j].price > price
    /\ i <= Len(s) => s[i].price <= price

Found(s, i, price) == i <= Len(s) /\ s[i].price = price

Erased(s, i) == SubSeq(s, 1, i - 1) \o SubSeq(s, i + 1, Len(s))

Inserted(s, i, level) == SubSeq(s, 1, i - 1) \o <<level>> \o SubSeq(s, i, Len(s))

\* Cuts with a plausible bug: one level too many is left; the best bid goes.
CutLate(s, n) == SubSeq(s, 1, IF Len(s) > n + 1 THEN n + 1 ELSE Len(s))

CutBest(s, n) == SubSeq(s, IF Len(s) > n THEN Len(s) - n + 1 ELSE 1, Len(s))

\* while (levels.size() > max_levels) levels.pop_back()
Cut(s, n) == SubSeq(s, 1, IF Len(s) > n THEN n ELSE Len(s))

\* A set() that leaves a level that exists as it is.
LevelsAfterOnce(s, n, price, depth) ==
  LET i == LowerBound(s, price)
  IN  IF ~Found(s, i, price) THEN Cut(Inserted(s, i, [price |-> price, depth |-> depth]), n)
      ELSE IF depth = 0      THEN Erased(s, i)
      ELSE                        s

\* set(): a level that exists is changed in place and nothing is cut.
LevelsAfter(s, n, price, depth) ==
  LET i == LowerBound(s, price)
  IN  IF ~Found(s, i, price) THEN Cut(Inserted(s, i, [price |-> price, depth |-> depth]), n)
      ELSE IF depth = 0      THEN Erased(s, i)
      ELSE                        [s EXCEPT ![i].depth = depth]

----------------------------------------------------------------------------

SetLevel(price, depth) ==
  /\ levels' = LevelsAfter(levels, max_levels, price, depth)
  /\ told' = [told EXCEPT ![price] = depth]
  /\ UNCHANGED max_levels

\* The member is assigned: the ladder is cut by the next insertion only.
SetMaxLevels(n) == max_levels' = n /\ UNCHANGED <<levels, told>>

LadderInit ==
  /\ levels = <<>>
  /\ max_levels \in Limits
  /\ told = [p \in Prices |-> -1]

LadderNext ==
  \/ \E price \in Prices, depth \in Depths : SetLevel(price, depth)
  \/ \E n \in Limits : SetMaxLevels(n)

LadderSpec == LadderInit /\ [][LadderNext]_ladderVars

----------------------------------------------------------------------------
(* Properties.                                                             *)

\* Every variable keeps its type.
LadderTypeOK ==
  /\ levels \in Seq(Levels)
  /\ max_levels \in Limits
  /\ told \in [Prices -> Depths \cup {-1}]

\* "A vector of orderbook_level ordered by decreasing price", each price once.
Descending == \A i, j \in DOMAIN levels : i < j => levels[i].price > levels[j].price

\* No level is out of date: whatever was evicted and told again in between, a
\* level shows what was told last for its price.  That it may show the depth 0 of
\* a price which was never there is what EmptyLevelsRemoved is about.
LevelsCurrent == \A i \in DOMAIN levels : levels[i].depth = told[levels[i].price]

\* "If the depth is equal to 0.0, the price level will be removed" (bid_ladder.hpp):
\* set() inserts a level of depth 0 if the price had none.
EmptyLevelsRemoved == \A i \in DOMAIN levels : levels[i].depth # 0

Ladder(s) == {s[i] : i \in DOMAIN s}

\* What set() promises when it is told of a bid (depth # 0): the ladder is the
\* old one with that level in its price's place, and of a new price the lowest
\* levels beyond the limit are lost, never a better one.
KeepsBest ==
  [][\A price \in Prices, depth \in Depths \ {0} :
       SetLevel(price, depth) =>
         LET rest == {l \in Ladder(levels) : l.price # price}
             all  == rest \cup {[price |-> price, depth |-> depth]}
             Better(l) == Cardinality({k \in all : k.price > l.price})
         IN  Ladder(levels') = IF rest # Ladder(levels) THEN all
                               ELSE {l \in all : Better(l) < max_levels}]_ladderVars

\* set() never lets the ladder grow beyond its limit.
GrowsToLimit == [][Len(levels') > Len(levels) => Len(levels') <= max_levels']_ladderVars
=============================================================================
