----------------------------- MODULE FixedMaps -----------------------------
(***************************************************************************)
(* What property_map and dependency_map promise their users: a map is a    *)
(* value.  A mutable map is filled, fix() makes it a fixed one, a fixed    *)
(* map is the start of further mutable ones, and nothing that is done with *)
(* one map is seen in another.                                             *)
(***************************************************************************)
CONSTANTS Maps,    \* the map objects of an application
          Names,   \* the names under which values are stored
          Values,  \* the values
          Empty,   \* a value that contains nothing
          Absent   \* what a query finds under a name that has no value

VARIABLES state,   \* of each map object: "none", "mutable", "spent" or "fixed"
          content  \* what a query of each map finds under each name

vars == <<state, content>>

Blank == [n \in Names |-> Absent]

Init ==
  /\ state   = [m \in Maps |-> "none"]
  /\ content = [m \in Maps |-> Blank]

Become(m, s, c) ==
  /\ state'   = [state EXCEPT ![m] = s]
  /\ content' = [content EXCEPT ![m] = c]

Create(m) == state[m] = "none" /\ \E s \in {"mutable", "fixed"} : Become(m, s, Blank)

Derive(m, from) ==
  state[m] = "none" /\ state[from] = "fixed" /\ Become(m, "mutable", content[from])

Copy(m, from) ==
  state[m] = "none" /\ state[from] = "fixed" /\ Become(m, "fixed", content[from])

Put(m, n, v) == state[m] = "mutable" /\ Become(m, "mutable", [content[m] EXCEPT ![n] = v])

Fix(m, to) ==
  /\ state[m] \in {"mutable", "spent"}
  /\ state[to] = "none"
  /\ state'   = [state EXCEPT ![m] = "spent", ![to] = "fixed"]
  /\ content' = [content EXCEPT ![m] = Blank, ![to] = content[m]]

Destroy(m) == state[m] # "none" /\ Become(m, "none", Blank)

Next ==
  \/ \E m \in Maps : Create(m) \/ Destroy(m)
  \/ \E m, from \in Maps : Derive(m, from) \/ Copy(m, from) \/ Fix(m, from)
  \/ \E m \in Maps, n \in Names, v \in Values \cup {Empty} : Put(m, n, v)

Spec == Init /\ [][Next]_vars
=============================================================================
