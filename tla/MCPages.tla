------------------------------ MODULE MCPages ------------------------------
(* Pages instantiated for TLC. *)
EXTENDS Pages, TLC

CONSTANTS t1, t2, l1, l2

At(o, n) == [offset |-> o, size |-> n]

\* Pages of two bytes.  Two slices on the same two pages, with bytes of their
\* own, in common and with none, and one on a page of its own.
Apart == {At(0, 3), At(1, 2), At(4, 1)}

\* Two slices of one page, with no byte in common.
SamePage == {At(0, 1), At(1, 1)}

\* A slice of the first page, and one of the first two.
Overlapping == {At(0, 2), At(1, 3)}

\* Sound: no constant tells one thread, or one link, from another.
Symmetry == Permutations({t1, t2}) \cup Permutations({l1, l2})
=============================================================================
