---------------------------- MODULE MCCollection ----------------------------
EXTENDS Collection

\* Lists of up to three items.
Lists == UNION {[1 .. n -> Item] : n \in 0 .. 3}

\* What module Items says of __unset is what filtering the list gives.
ASSUME WithoutFilters ==
  \A s, r \in Lists, x \in Item :
    I!Without(r, Len(r), s, Len(s), x) <=> r = SelectSeq(s, LAMBDA y : y # x)
=============================================================================
