---------------------------- MODULE CubeLifetime ----------------------------
(***************************************************************************)
(* Cube implements Lifetime: under every interleaving of its locks, and    *)
(* whichever of inaccel_free and __detach comes last, a block is disposed  *)
(* of in the step that ends its last use.                                  *)
(***************************************************************************)
EXTENDS Cube

\* A cube that inaccel_alloc has not listed yet is nobody's.
Unpublished(c) == \E t \in Threads : In(t, "alloc", "lock") /\ call[t].cube = c

\* A listed block is the application's; inaccel_free takes effect where it unmaps
\* the pages.
StateOf(c) ==
  IF c \in cubes THEN "owned"
  ELSE CASE mem[c] = "freed" -> "gone"
         [] mem[c] = "none" \/ Unpublished(c) -> "none"
         [] mem[c] = "live" /\ ~Unpublished(c) /\ c \in mapped -> "owned"
         [] OTHER -> "freed"

Life == INSTANCE Lifetime WITH
  Blocks <- Cubes,
  Loans <- Links,
  state <- [c \in Cubes |-> StateOf(c)],
  lent <- [c \in Cubes |-> LinksOf(c)]

\* The library's blocks are those of Lifetime: no step disposes of a block with
\* an argument in flight, forgets one that nobody uses any more, lends one that
\* was freed, or brings one back.
ImplementsLifetime == Life!Spec
=============================================================================
