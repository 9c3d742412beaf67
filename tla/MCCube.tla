------------------------------- MODULE MCCube -------------------------------
(* Cube instantiated for TLC. *)
EXTENDS CubeLifetime, TLC

CONSTANTS a1, r1, r2, t1, t2, w1, w2, c1, c2, l1, l2

\* One address inside r1, on a page that r2 shares.
MCAddrs == {a1}
MCRegions == {r1, r2}
MCInside == a1 :> {r1}
MCOnPage == a1 :> {r1, r2}

MCRegion == {r1}
MCInside1 == a1 :> {}
MCOnPage1 == a1 :> {r1}

\* Sound: no constant tells one thread of a kind, or one link, from another.
Symmetry == Permutations({t1, t2}) \cup Permutations({w1, w2})
              \cup Permutations({l1, l2})
=============================================================================
