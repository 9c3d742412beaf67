------------------------------ MODULE Lifetime ------------------------------
(***************************************************************************)
(* What the memory of Coral API promises, without its locks and counts.    *)
(*                                                                         *)
(* A block is the application's until it passes it to inaccel_free, and on *)
(* loan to each array argument in flight.  It goes in the very step in     *)
(* which the last of them lets go: not before, and not later.  Only a      *)
(* block the application has can be lent.                                  *)
(***************************************************************************)
CONSTANTS Blocks, Loans

VARIABLES
  state,  \* "none", "owned", "freed" by the application only, or "gone"
  lent    \* the loans of each block

lifetime == <<state, lent>>

Init ==
  /\ state \in [Blocks -> {"none", "owned"}]
  /\ lent = [b \in Blocks |-> {}]

Become(b, s) == state' = [state EXCEPT ![b] = s]

\* inaccel_alloc returns a block, or none.
Make(b) ==
  /\ state[b] = "none"
  /\ Become(b, "owned") \/ Become(b, "gone")
  /\ UNCHANGED lent

Lend(b, l) ==
  /\ \A c \in Blocks : l \notin lent[c]
  /\ state[b] = "owned"
  /\ lent' = [lent EXCEPT ![b] = @ \cup {l}]
  /\ UNCHANGED state

Free(b) ==
  /\ state[b] = "owned"
  /\ Become(b, IF lent[b] = {} THEN "gone" ELSE "freed")
  /\ UNCHANGED lent

Return(b, l) ==
  /\ l \in lent[b]
  /\ lent' = [lent EXCEPT ![b] = @ \ {l}]
  /\ IF state[b] = "freed" /\ lent[b] = {l} THEN Become(b, "gone")
                                            ELSE UNCHANGED state

Next ==
  \E b \in Blocks :
    \/ Make(b) \/ Free(b)
    \/ \E l \in Loans : Lend(b, l) \/ Return(b, l)

Spec == Init /\ [][Next]_lifetime
=============================================================================
