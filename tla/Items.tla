-------------------------------- MODULE Items --------------------------------
(***************************************************************************)
(* What a collection promises: a list that __set appends to, or leaves     *)
(* alone and says so, that __unset takes every copy of an item from, and   *)
(* that __clear empties.                                                   *)
(***************************************************************************)
EXTENDS Integers, Sequences, FiniteSets

CONSTANTS Item

VARIABLES items, failed

\* The places of what is not x among the first m of s.
Others(s, m, x) == {k \in 1 .. m : s[k] # x}

\* The first n of r are the first m of s without the x's, in their order.
Without(r, n, s, m, x) ==
  /\ n = Cardinality(Others(s, m, x))
  /\ \A k \in Others(s, m, x) : r[Cardinality(Others(s, k, x))] = s[k]

Init == items = <<>> /\ failed = FALSE

Set(x) ==
  \/ items' = Append(items, x) /\ failed' = FALSE
  \/ items' = items /\ failed' = TRUE

Unset(x) ==
  /\ items' \in Seq(Item)
  /\ Without(items', Len(items'), items, Len(items), x)
  /\ failed' = FALSE

Clear == items' = <<>> /\ failed' = FALSE

Next == Clear \/ \E x \in Item : Set(x) \/ Unset(x)

Spec == Init /\ [][Next]_<<items, failed>>
=============================================================================
