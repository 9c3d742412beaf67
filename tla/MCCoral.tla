------------------------------- MODULE MCCoral -------------------------------
(* Coral instantiated for TLC: one address on the page of r1, not inside it. *)
EXTENDS Coral, TLC

CONSTANTS a1, r1

MCAddrs == {a1}
MCRegions == {r1}
MCInside == a1 :> {}
MCOnPage == a1 :> {r1}
=============================================================================
