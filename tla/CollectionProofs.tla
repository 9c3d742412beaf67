-------------------------- MODULE CollectionProofs --------------------------
(***************************************************************************)
(* Proofs about module Collection: its loops stay inside the array, and    *)
(* the array is the list it stands for.                                    *)
(*                                                                         *)
(* LoopInv says, for each place of a call, which slots of the array hold   *)
(* which items of the list as it was when the call began.                  *)
(***************************************************************************)
EXTENDS Collection, FiniteSets, FiniteSetTheorems, SequenceTheorems, TLAPS

\* The array holds the list up to its NULL.
Holds ==
  /\ Len(list) < Len(array)
  /\ array[Len(list) + 1] = NULL
  /\ \A i \in 1 .. Len(list) : array[i] = list[i]

Empty == array = <<>> /\ list = <<>>

\* Before the slot __unset looks at are the first items of the list without the
\* one to be removed; d have been removed.
Swept(d) ==
  /\ I!Without(array, call.index - 1, list, call.index - 1 + d, call.item)
  /\ \A i \in 1 .. call.index - 1 : array[i] \in Item

\* From there on are the others, d slots down, up to the NULL.
Left(d) ==
  /\ d <= Len(list)
  /\ call.index \in 1 .. Len(list) + 1 - d
  /\ Len(list) + 1 - d <= Len(array)
  /\ array[Len(list) + 1 - d] = NULL

\* The walk of __unset.
SearchInv(d) ==
  /\ Left(d)
  /\ Swept(d)
  /\ \A i \in call.index .. Len(list) - d : array[i] = list[i + d]

\* Its shift: the slots it has written are d + 1 slots down.
ShiftInv(d) ==
  /\ Left(d)
  /\ Swept(d)
  /\ call.shift \in call.index .. Len(list) - d
  /\ list[call.index + d] = call.item
  /\ \A i \in call.index .. call.shift - 1 : array[i] = list[i + d + 1]
  /\ \A i \in call.shift .. Len(list) - d : array[i] = list[i + d]

LoopInv ==
  /\ In("idle") => call = Idle /\ (Empty \/ Holds)
  /\ ~In("idle") => call.item \in Item
  /\ In("count") => Holds /\ call.index \in 1 .. Len(list) + 1
  /\ In("grow") => call.index = Len(list) + 1 /\ (Empty \/ Holds)
  /\ In("search") => \E d \in Nat : SearchInv(d)
  /\ In("shift") => \E d \in Nat : ShiftInv(d)

IInv == TypeOK /\ LoopInv

-----------------------------------------------------------------------------
(* What is left of a list without an item *)

LEMMA WithoutDef ==
  ASSUME NEW r, NEW n, NEW s, NEW m, NEW x
  PROVE  I!Without(r, n, s, m, x) <=>
           /\ n = Cardinality(I!Others(s, m, x))
           /\ \A k \in I!Others(s, m, x) :
                r[Cardinality(I!Others(s, k, x))] = s[k]
<1>1. \A S : I!Cardinality(S) = Cardinality(S)
  BY DEF I!Cardinality, Cardinality
<1> QED
  BY <1>1 DEF I!Without

LEMMA OthersFinite ==
  ASSUME NEW s, NEW m \in Nat, NEW x
  PROVE  /\ IsFiniteSet(I!Others(s, m, x))
         /\ Cardinality(I!Others(s, m, x)) \in Nat
<1>1. IsFiniteSet(1 .. m)
  BY FS_Interval
<1>2. I!Others(s, m, x) \subseteq 1 .. m
  BY DEF I!Others
<1>3. IsFiniteSet(I!Others(s, m, x))
  BY <1>1, <1>2, FS_Subset
<1> QED
  BY <1>3, FS_CardinalityType

\* The place of an item among those kept is one of them.
LEMMA OthersPlace ==
  ASSUME NEW s, NEW m \in Nat, NEW x, NEW k \in I!Others(s, m, x)
  PROVE  Cardinality(I!Others(s, k, x)) \in 1 .. Cardinality(I!Others(s, m, x))
<1>1. k \in 1 .. m
  BY DEF I!Others
<1>2. k \in I!Others(s, k, x) /\ I!Others(s, k, x) \subseteq I!Others(s, m, x)
  BY <1>1 DEF I!Others
<1>3. /\ IsFiniteSet(I!Others(s, m, x))
      /\ IsFiniteSet(I!Others(s, k, x))
      /\ Cardinality(I!Others(s, m, x)) \in Nat
      /\ Cardinality(I!Others(s, k, x)) \in Nat
  BY <1>1, OthersFinite
<1>4. Cardinality(I!Others(s, k, x)) <= Cardinality(I!Others(s, m, x))
  BY <1>2, <1>3, FS_Subset
<1>5. Cardinality(I!Others(s, k, x)) # 0
  BY <1>2, <1>3, FS_EmptySet
<1> QED
  BY <1>3, <1>4, <1>5

LEMMA WithoutNone ==
  ASSUME NEW r, NEW s, NEW x
  PROVE  I!Without(r, 0, s, 0, x)
<1>1. I!Others(s, 0, x) = {}
  BY DEF I!Others
<1> QED
  BY <1>1, FS_EmptySet, WithoutDef

\* An item to be removed adds nothing.
LEMMA WithoutSkip ==
  ASSUME NEW r, NEW n \in Nat, NEW s, NEW m \in Nat, NEW x,
         I!Without(r, n, s, m, x), s[m + 1] = x
  PROVE  I!Without(r, n, s, m + 1, x)
<1>1. I!Others(s, m + 1, x) = I!Others(s, m, x)
  BY DEF I!Others
<1> QED
  BY <1>1, WithoutDef

\* Another one is the next to be kept.
LEMMA WithoutKeep ==
  ASSUME NEW r, NEW n \in Nat, NEW s, NEW m \in Nat, NEW x,
         I!Without(r, n, s, m, x), s[m + 1] # x, r[n + 1] = s[m + 1]
  PROVE  I!Without(r, n + 1, s, m + 1, x)
<1>1. I!Others(s, m + 1, x) = I!Others(s, m, x) \cup {m + 1}
  BY DEF I!Others
<1>2. m + 1 \notin I!Others(s, m, x)
  BY DEF I!Others
<1>3. IsFiniteSet(I!Others(s, m, x)) /\ n = Cardinality(I!Others(s, m, x))
  BY OthersFinite, WithoutDef
<1>4. Cardinality(I!Others(s, m + 1, x)) = n + 1
  BY <1>1, <1>2, <1>3, FS_AddElement
<1>5. ASSUME NEW k \in I!Others(s, m + 1, x)
      PROVE  r[Cardinality(I!Others(s, k, x))] = s[k]
  <2>1. CASE k = m + 1
    BY <1>4, <2>1
  <2>2. CASE k \in I!Others(s, m, x)
    BY <2>2, WithoutDef
  <2> QED
    BY <1>1, <1>5, <2>1, <2>2
<1> QED
  BY <1>4, <1>5, WithoutDef

\* Only the first n slots matter.
LEMMA WithoutSame ==
  ASSUME NEW r, NEW q, NEW n \in Nat, NEW s, NEW m \in Nat, NEW x,
         I!Without(r, n, s, m, x), \A i \in 1 .. n : q[i] = r[i]
  PROVE  I!Without(q, n, s, m, x)
<1>1. n = Cardinality(I!Others(s, m, x))
  BY WithoutDef
<1>2. ASSUME NEW k \in I!Others(s, m, x)
      PROVE  q[Cardinality(I!Others(s, k, x))] = s[k]
  <2>1. Cardinality(I!Others(s, k, x)) \in 1 .. n
    BY <1>1, OthersPlace
  <2> QED
    BY <2>1, WithoutDef
<1> QED
  BY <1>1, <1>2, WithoutDef

-----------------------------------------------------------------------------
(* The steps *)

\* A call returns with an array that has n items up to its NULL.
LEMMA ReturnInv ==
  ASSUME TypeOK, NEW a \in Seq(Item \cup {NULL, Junk}), NEW n \in Nat, NEW bad \in BOOLEAN,
         Len(a) <= MaxSlots, Return(a, n, bad),
         \/ a = <<>> /\ n = 0
         \/ n < Len(a) /\ a[n + 1] = NULL /\ \A i \in 1 .. n : a[i] \in Item
  PROVE  IInv' /\ Len(list') = n /\ \A i \in 1 .. n : list'[i] = a[i]
<1>1. list' = SubSeq(a, 1, n) /\ array' = a /\ call' = Idle /\ failed' = bad
  BY DEF Return
<1>2. \A i \in 1 .. n : a[i] \in Item
  OBVIOUS
<1>3. /\ list' \in Seq(Item)
      /\ Len(list') = n
      /\ \A i \in 1 .. n : list'[i] = a[i]
  BY <1>1, <1>2, SubSeqProperties
<1>4. a = <<>> /\ n = 0 => list' = <<>>
  BY <1>3
<1>5. TypeOK'
  BY <1>1, <1>3 DEF TypeOK, Idle
<1>6. LoopInv'
  BY <1>1, <1>3, <1>4 DEF LoopInv, Empty, Holds, In, Idle
<1> QED
  BY <1>3, <1>5, <1>6 DEF IInv

\* A loop goes on, with the item of its call.
LEMMA GotoStep ==
  ASSUME TypeOK, NEW at \in {"grow", "count", "search", "shift"},
         NEW index \in Nat, NEW shift \in Nat, Goto(at, index, shift)
  PROVE  /\ call' = [at |-> at, item |-> call.item, index |-> index, shift |-> shift]
         /\ call' \in [at : {"idle", "count", "grow", "search", "shift"},
                       item : Item \cup {NULL}, index : Nat, shift : Nat]
         /\ failed' = failed /\ list' = list
BY DEF TypeOK, Goto

LEMMA InitInv ==
  ASSUME Init
  PROVE  IInv
<1>1. <<>> \in Seq(Item) /\ <<>> \in Seq(Item \cup {NULL, Junk}) /\ Len(<<>>) = 0
  OBVIOUS
<1>2. TypeOK
  <2>1. array = <<>> /\ call = Idle /\ failed = FALSE /\ list = <<>>
    BY DEF Init
  <2>2. Len(array) <= MaxSlots
    BY <1>1, <2>1, CollectionAssumption
  <2>3. call \in [at : {"idle", "count", "grow", "search", "shift"},
                 item : Item \cup {NULL}, index : Nat, shift : Nat]
    BY <2>1 DEF Idle
  <2> QED
    BY <1>1, <2>1, <2>2, <2>3, Zenon DEF TypeOK
<1>3. LoopInv
  BY DEF Init, LoopInv, Empty, Idle, In
<1> QED
  BY <1>2, <1>3 DEF IInv

LEMMA ClearInv ==
  ASSUME IInv, Clear
  PROVE  IInv'
<1>1. <<>> \in Seq(Item \cup {NULL, Junk}) /\ Len(<<>>) <= MaxSlots
  BY CollectionAssumption
<1> QED
  BY <1>1, ReturnInv DEF Clear, IInv

LEMMA BeginSetInv ==
  ASSUME IInv, NEW x \in Item, BeginSet(x)
  PROVE  IInv'
<1>1. TypeOK'
  BY DEF IInv, TypeOK, BeginSet
<1>2. LoopInv'
  BY DEF IInv, TypeOK, LoopInv, BeginSet, In, Empty, Holds
<1> QED
  BY <1>1, <1>2 DEF IInv

LEMMA CountInv ==
  ASSUME IInv, Count
  PROVE  IInv'
<1>1. /\ Holds /\ call.index \in 1 .. Len(list) + 1
      /\ call.item \in Item
      /\ TypeOK /\ array' = array /\ Len(list) \in Nat
  BY DEF IInv, TypeOK, LoopInv, Count, In
<1>2. CASE array[call.index] = NULL
  <2>1. call.index = Len(list) + 1
    BY <1>1, <1>2, CollectionAssumption DEF TypeOK, Holds
  <2>2. Goto("grow", call.index, 0)
    BY <1>2 DEF Count
  <2>3. /\ call' = [at |-> "grow", item |-> call.item, index |-> call.index, shift |-> 0]
        /\ failed' = failed /\ list' = list
    BY <1>1, <2>2, GotoStep
  <2>4. TypeOK'
    BY <1>1, <2>2, GotoStep DEF TypeOK
  <2>5. LoopInv'
    BY <1>1, <2>1, <2>3 DEF LoopInv, In, Holds
  <2> QED
    BY <2>4, <2>5 DEF IInv
<1>3. CASE array[call.index] # NULL
  <2>1. call.index \in 1 .. Len(list)
    BY <1>1, <1>3 DEF Holds
  <2>2. Goto("count", call.index + 1, 0)
    BY <1>3 DEF Count
  <2>3. /\ call' = [at |-> "count", item |-> call.item, index |-> call.index + 1, shift |-> 0]
        /\ failed' = failed /\ list' = list
    BY <1>1, <2>2, GotoStep
  <2>4. TypeOK'
    BY <1>1, <2>2, GotoStep DEF TypeOK
  <2>5. LoopInv'
    BY <1>1, <2>1, <2>3 DEF LoopInv, In, Holds
  <2> QED
    BY <2>4, <2>5 DEF IInv
<1> QED
  BY <1>2, <1>3

\* __set writes the slots that hold the NULL and that realloc has added.
LEMMA GrowStep ==
  ASSUME IInv, Grow
  PROVE  IInv' /\ list' = Append(list, call.item) /\ failed' = FALSE
<1> DEFINE n == Len(list)
           a == Put(Realloc(Needed), call.item)
<1>1. /\ call.index = n + 1 /\ n \in Nat /\ call.item \in Item
      /\ Empty \/ Holds
      /\ list \in Seq(Item)
      /\ array \in Seq(Item \cup {NULL, Junk})
  BY DEF IInv, TypeOK, LoopInv, Grow, In
<1>2. Size + 1 = n + 1 /\ Needed = n + 2 /\ n + 2 <= MaxSlots
  BY <1>1 DEF Size, Needed, Grow
<1>3. /\ Realloc(n + 2) \in [1 .. n + 2 -> Item \cup {NULL, Junk}]
      /\ \A i \in 1 .. n : Realloc(n + 2)[i] = list[i]
  BY <1>1 DEF Realloc, Empty, Holds
<1>4. a = [Realloc(n + 2) EXCEPT ![n + 1] = call.item, ![n + 2] = NULL]
  BY <1>1, <1>2 DEF Put, Size
<1>5. /\ a \in [1 .. n + 2 -> Item \cup {NULL, Junk}]
      /\ a[n + 1] = call.item /\ a[n + 2] = NULL
      /\ \A i \in 1 .. n : a[i] = list[i]
  <2> DEFINE b == [Realloc(n + 2) EXCEPT ![n + 1] = call.item]
  <2>1. /\ b \in [1 .. n + 2 -> Item \cup {NULL, Junk}]
        /\ b[n + 1] = call.item
        /\ \A i \in 1 .. n : b[i] = list[i]
    <3> HIDE DEF n
    <3> QED
      BY <1>1, <1>3
  <2>2. a = [b EXCEPT ![n + 2] = NULL]
    BY <1>4
  <2> HIDE DEF a, n, b
  <2> QED
    BY <1>1, <2>1, <2>2
<1>6. a \in Seq(Item \cup {NULL, Junk}) /\ Len(a) = n + 2
  BY <1>1, <1>5
<1>7. \A i \in 1 .. n + 1 : a[i] \in Item
  BY <1>1, <1>5
<1>8. Return(a, n + 1, FALSE)
  BY <1>2 DEF Grow
<1>9. IInv' /\ Len(list') = n + 1 /\ \A i \in 1 .. n + 1 : list'[i] = a[i]
  <2> HIDE DEF a, n
  <2>1. /\ n + 1 \in Nat /\ n + 1 < Len(a) /\ Len(a) <= MaxSlots
        /\ a[(n + 1) + 1] = NULL
    BY <1>1, <1>2, <1>5, <1>6
  <2> QED
    BY <1>6, <1>7, <1>8, <2>1, ReturnInv DEF IInv
<1>10. list' = Append(list, call.item)
  <2>1. list' \in Seq(Item) /\ Append(list, call.item) \in Seq(Item)
    BY <1>1, <1>9 DEF IInv, TypeOK
  <2>2. Len(Append(list, call.item)) = n + 1
    BY <1>1
  <2>3. \A i \in 1 .. n + 1 : list'[i] = Append(list, call.item)[i]
    BY <1>1, <1>5, <1>9
  <2> QED
    BY <1>9, <2>1, <2>2, <2>3, SeqEqual
<1> QED
  BY <1>8, <1>9, <1>10 DEF Return

LEMMA GrowFailsStep ==
  ASSUME IInv, GrowFails
  PROVE  IInv' /\ list' = list /\ failed' = TRUE
<1> DEFINE n == Len(list)
<1>1. /\ Size = n /\ n \in Nat
      /\ Empty \/ Holds
      /\ list \in Seq(Item)
      /\ array \in Seq(Item \cup {NULL, Junk}) /\ Len(array) <= MaxSlots
  BY DEF IInv, TypeOK, LoopInv, GrowFails, In, Size
<1>2. Return(array, n, TRUE)
  BY <1>1 DEF GrowFails, Kept
<1>3. \/ array = <<>> /\ n = 0
      \/ n < Len(array) /\ array[n + 1] = NULL /\ \A i \in 1 .. n : array[i] \in Item
  BY <1>1 DEF Empty, Holds
<1>4. IInv' /\ Len(list') = n /\ \A i \in 1 .. n : list'[i] = array[i]
  BY <1>1, <1>2, <1>3, ReturnInv DEF IInv
<1>5. list' = list
  <2>1. list' \in Seq(Item)
    BY <1>4 DEF IInv, TypeOK
  <2>2. \A i \in 1 .. n : list'[i] = list[i]
    BY <1>1, <1>4 DEF Empty, Holds
  <2> QED
    BY <1>1, <1>4, <2>1, <2>2, SeqEqual
<1> QED
  BY <1>2, <1>4, <1>5 DEF Return

LEMMA BeginUnsetStep ==
  ASSUME IInv, NEW x \in Item, BeginUnset(x)
  PROVE  /\ IInv'
         /\ \/ list' = list /\ failed' = failed
            \/ Empty /\ list' = <<>> /\ failed' = FALSE
<1>1. CASE array = <<>>
  <2>1. Return(array, 0, FALSE) /\ Empty
    <3>1. In("idle") /\ Len(array) = 0 /\ Len(list) \in Nat
      BY <1>1 DEF BeginUnset, IInv, TypeOK
    <3>2. Empty
      BY <3>1 DEF IInv, LoopInv, Holds
    <3> QED
      BY <1>1, <3>2 DEF BeginUnset
  <2>2. IInv' /\ Len(list') = 0
    BY <1>1, <2>1, ReturnInv DEF IInv, TypeOK
  <2>3. list' = <<>>
    BY <2>2 DEF IInv, TypeOK
  <2> QED
    BY <2>1, <2>2, <2>3 DEF Return
<1>2. CASE array # <<>>
  <2>1. /\ Holds /\ TypeOK
        /\ call' = [at |-> "search", item |-> x, index |-> 1, shift |-> 0]
        /\ array' = array /\ list' = list /\ failed' = failed
        /\ Len(list) \in Nat
    BY <1>2 DEF BeginUnset, IInv, LoopInv, TypeOK, Empty
  <2>2. TypeOK'
    BY <2>1 DEF TypeOK
  <2>3. I!Without(array, 0, list, 0, x)
    BY WithoutNone
  <2>4. SearchInv(0)'
    BY <2>1, <2>3 DEF SearchInv, Left, Swept, Holds
  <2>5. LoopInv'
    BY <2>1, <2>4 DEF LoopInv, In
  <2> QED
    BY <2>1, <2>2, <2>5 DEF IInv
<1> QED
  BY <1>1, <1>2

LEMMA SearchStep ==
  ASSUME IInv, Search
  PROVE  IInv' /\ list' = list /\ failed' = failed
<1> DEFINE i == call.index
           x == call.item
<1>1. /\ TypeOK /\ x \in Item /\ Len(list) \in Nat /\ i \in Nat
      /\ array[i] # NULL /\ array' = array
  BY DEF IInv, TypeOK, LoopInv, Search, In
<1>2. PICK d \in Nat : SearchInv(d)
  BY DEF IInv, LoopInv, Search
<1>3. i \in 1 .. Len(list) - d /\ array[i] = list[i + d]
  <2>1. i \in 1 .. Len(list) + 1 - d /\ d <= Len(list)
    BY <1>2 DEF SearchInv, Left
  <2>2. i # Len(list) + 1 - d
    BY <1>1, <1>2 DEF SearchInv, Left
  <2>3. i \in 1 .. Len(list) - d
    BY <1>1, <2>1, <2>2
  <2> QED
    <3>1. \A k \in i .. Len(list) - d : array[k] = list[k + d]
      BY <1>2 DEF SearchInv
    <3>2. i \in i .. Len(list) - d
      BY <1>1, <2>3
    <3> HIDE DEF i
    <3> QED
      BY <2>3, <3>1, <3>2
<1>4. CASE array[i] = x
  <2>1. Goto("shift", i, i)
    BY <1>4 DEF Search
  <2>2. /\ call' = [at |-> "shift", item |-> x, index |-> i, shift |-> i]
        /\ failed' = failed /\ list' = list
    BY <1>1, <2>1, GotoStep
  <2>3. TypeOK'
    BY <1>1, <2>1, GotoStep DEF TypeOK
  <2>4. ShiftInv(d)'
    BY <1>1, <1>2, <1>3, <1>4, <2>2 DEF SearchInv, ShiftInv, Left, Swept
  <2> QED
    BY <1>1, <2>2, <2>3, <2>4 DEF IInv, LoopInv, In
<1>5. CASE array[i] # x
  <2>1. Goto("search", i + 1, 0)
    BY <1>5 DEF Search
  <2>2. /\ call' = [at |-> "search", item |-> x, index |-> i + 1, shift |-> 0]
        /\ failed' = failed /\ list' = list
    BY <1>1, <2>1, GotoStep, i + 1 \in Nat
  <2>3. TypeOK'
    BY <1>1, <2>1, GotoStep, i + 1 \in Nat DEF TypeOK
  <2>4. I!Without(array, i - 1, list, i - 1 + d, x)
    BY <1>2 DEF SearchInv, Swept
  <2>5. (i - 1) + 1 = i /\ (i - 1 + d) + 1 = i + d /\ i - 1 \in Nat /\ i - 1 + d \in Nat
    BY <1>1, <1>2, <1>3
  <2>6. I!Without(array, i, list, i + d, x)
    <3> HIDE DEF i, x
    <3> QED
      BY <1>3, <1>5, <2>4, <2>5, WithoutKeep
  <2>7. SearchInv(d)'
    <3>1. Swept(d)'
      <4>1. \A k \in 1 .. i : array[k] \in Item
        BY <1>1, <1>2, <1>3 DEF SearchInv, Swept, TypeOK
      <4> QED
        BY <1>1, <2>2, <2>5, <2>6, <4>1 DEF Swept
    <3>2. Left(d)'
      BY <1>1, <1>2, <1>3, <2>2 DEF SearchInv, Left
    <3> QED
      BY <1>1, <1>2, <1>3, <2>2, <3>1, <3>2 DEF SearchInv
  <2> QED
    BY <1>1, <2>2, <2>3, <2>7 DEF IInv, LoopInv, In
<1> QED
  BY <1>4, <1>5

LEMMA SearchEndStep ==
  ASSUME IInv, SearchEnd
  PROVE  /\ IInv' /\ failed' = FALSE
         /\ I!Without(list', Len(list'), list, Len(list), call.item)
<1> DEFINE n == call.index - 1
<1>1. /\ TypeOK /\ Len(list) \in Nat /\ call.index \in Nat
      /\ array[call.index] = NULL
      /\ list \in Seq(Item) /\ array \in Seq(Item \cup {NULL, Junk}) /\ Len(array) <= MaxSlots
  BY DEF IInv, TypeOK, SearchEnd
<1>2. PICK d \in Nat : SearchInv(d)
  BY DEF IInv, LoopInv, SearchEnd
<1>3. call.index = Len(list) + 1 - d
  <2>1. call.index \in 1 .. Len(list) + 1 - d /\ d <= Len(list)
    BY <1>2 DEF SearchInv, Left
  <2>2. ASSUME call.index # Len(list) + 1 - d
        PROVE  FALSE
    <3>1. call.index \in call.index .. Len(list) - d /\ call.index + d \in 1 .. Len(list)
      BY <1>1, <2>1, <2>2
    <3>2. array[call.index] = list[call.index + d]
      BY <1>2, <3>1 DEF SearchInv
    <3>3. list[call.index + d] \in Item
      BY <1>1, <3>1
    <3> QED
      BY <1>1, <3>2, <3>3, CollectionAssumption
  <2> QED
    BY <2>2
<1>4. /\ n \in Nat /\ n < Len(array) /\ n + 1 = call.index
      /\ n + d = Len(list)
  BY <1>1, <1>2, <1>3 DEF SearchInv, Left
<1>5. I!Without(array, n, list, Len(list), call.item)
  BY <1>2, <1>4 DEF SearchInv, Swept
<1>6. \A k \in 1 .. n : array[k] \in Item
  BY <1>2 DEF SearchInv, Swept
<1>7. Return(array, n, FALSE)
  BY DEF SearchEnd
<1>8. IInv' /\ Len(list') = n /\ \A k \in 1 .. n : list'[k] = array[k]
  <2> HIDE DEF n
  <2> QED
    BY <1>1, <1>4, <1>6, <1>7, ReturnInv
<1>9. I!Without(list', n, list, Len(list), call.item)
  <2> HIDE DEF n
  <2> QED
    BY <1>1, <1>4, <1>5, <1>8, WithoutSame
<1> QED
  BY <1>7, <1>8, <1>9 DEF Return

LEMMA ShiftStep ==
  ASSUME IInv, Shift
  PROVE  IInv' /\ list' = list /\ failed' = failed
<1> DEFINE i == call.index
           x == call.item
           h == call.shift
           next == array[h + 1]
<1>1. /\ TypeOK /\ x \in Item /\ Len(list) \in Nat /\ i \in Nat /\ h \in Nat
      /\ array \in Seq(Item \cup {NULL, Junk}) /\ list \in Seq(Item)
      /\ array' = [array EXCEPT ![h] = next]
  BY DEF IInv, TypeOK, LoopInv, Shift, In
<1>2. PICK d \in Nat : ShiftInv(d)
  BY DEF IInv, LoopInv, Shift
<1>3. /\ i \in 1 .. h /\ h \in i .. Len(list) - d /\ h + 1 <= Len(array)
      /\ d + h <= Len(list)
  BY <1>1, <1>2 DEF ShiftInv, Left
<1>4. /\ \A k \in i .. h - 1 : array[k] = list[k + d + 1]
      /\ \A k \in h .. Len(list) - d : array[k] = list[k + d]
      /\ list[i + d] = x
      /\ array[Len(list) + 1 - d] = NULL
      /\ Len(list) + 1 - d <= Len(array)
  BY <1>2 DEF ShiftInv, Left
<1>5. /\ array' \in Seq(Item \cup {NULL, Junk}) /\ Len(array') = Len(array)
      /\ array'[h] = next
      /\ \A k \in 1 .. Len(array) : k # h => array'[k] = array[k]
  BY <1>1, <1>3
<1>6. I!Without(array', i - 1, list, i - 1 + d, x)
  <2>1. I!Without(array, i - 1, list, i - 1 + d, x)
    BY <1>2 DEF ShiftInv, Swept
  <2>2. \A k \in 1 .. i - 1 : array'[k] = array[k]
    BY <1>1, <1>3, <1>5
  <2>3. i - 1 \in Nat /\ i - 1 + d \in Nat
    BY <1>2, <1>3
  <2> QED
    BY <2>1, <2>2, <2>3, WithoutSame
<1>7. \A k \in 1 .. i - 1 : array'[k] \in Item
  BY <1>1, <1>2, <1>3, <1>5 DEF ShiftInv, Swept
<1>8. CASE next = NULL
  <2>1. h = Len(list) - d
    <3>1. ASSUME h # Len(list) - d
          PROVE  FALSE
      <4>1. h + 1 \in h .. Len(list) - d /\ (h + 1) + d \in 1 .. Len(list)
        <5>1. h \in Nat /\ i \in Nat /\ Len(list) \in Nat /\ d \in Nat
          BY <1>1, <1>2
        <5>2. h <= Len(list) - d
          BY <1>3, <5>1
        <5> HIDE DEF i, h
        <5>3. h + 1 <= Len(list) - d
          BY <3>1, <5>1, <5>2
        <5> QED
          BY <5>1, <5>3
      <4>2. next = list[(h + 1) + d] /\ list[(h + 1) + d] \in Item
        BY <1>1, <1>4, <4>1
      <4> QED
        BY <1>8, <4>2, CollectionAssumption
    <3> QED
      BY <3>1
  <2>2. Goto("search", i, 0)
    BY <1>8 DEF Shift, Again
  <2>3. /\ call' = [at |-> "search", item |-> x, index |-> i, shift |-> 0]
        /\ failed' = failed /\ list' = list
    BY <1>1, <2>2, GotoStep
  <2>4. TypeOK'
    BY <1>1, <1>5, <2>2, GotoStep DEF TypeOK
  <2>5. SearchInv(d + 1)'
    <3>1. I!Without(array', i - 1, list, i - 1 + (d + 1), x)
      <4>1. /\ i - 1 \in Nat /\ i - 1 + d \in Nat
            /\ (i - 1 + d) + 1 = i + d /\ (i - 1 + d) + 1 = i - 1 + (d + 1)
        BY <1>1, <1>2, <1>3
      <4>2. list[(i - 1 + d) + 1] = x
        BY <1>4, <4>1
      <4> HIDE DEF i, x
      <4>3. I!Without(array', i - 1, list, (i - 1 + d) + 1, x)
        BY <1>6, <4>1, <4>2, WithoutSkip
      <4> QED
        BY <4>1, <4>3
    <3>2. Swept(d + 1)'
      <4> HIDE DEF i, x
      <4>1. call'.index = i /\ call'.item = x /\ list' = list
        BY <2>3
      <4> QED
        BY <1>7, <3>1, <4>1 DEF Swept
    <3>3. Left(d + 1)'
      BY <1>1, <1>2, <1>3, <1>5, <1>8, <2>1, <2>3 DEF ShiftInv, Left
    <3>4. \A k \in i .. Len(list) - (d + 1) : array'[k] = list[k + d + 1]
      <4> SUFFICES ASSUME NEW k \in i .. Len(list) - (d + 1)
                   PROVE  array'[k] = list[k + d + 1]
        OBVIOUS
      <4>1. k \in i .. h - 1 /\ k \in 1 .. Len(array) /\ k # h
        BY <1>1, <1>2, <1>3, <2>1
      <4> QED
        BY <1>5, <1>4, <4>1
    <3> QED
      BY <1>2, <2>3, <3>2, <3>3, <3>4 DEF SearchInv
  <2> QED
    BY <1>1, <1>2, <2>3, <2>4, <2>5 DEF IInv, LoopInv, In
<1>9. CASE next # NULL
  <2>1. h + 1 <= Len(list) - d
    BY <1>1, <1>2, <1>3, <1>9 DEF ShiftInv, Left
  <2>2. Goto("shift", i, h + 1)
    BY <1>9 DEF Shift
  <2>3. /\ call' = [at |-> "shift", item |-> x, index |-> i, shift |-> h + 1]
        /\ failed' = failed /\ list' = list
    BY <1>1, <2>2, GotoStep
  <2>4. TypeOK'
    BY <1>1, <1>5, <2>2, GotoStep DEF TypeOK
  <2>5. ShiftInv(d)'
    <3>1. Swept(d)'
      BY <1>1, <1>2, <1>6, <1>7, <2>3 DEF Swept
    <3>2. Left(d)'
      <4>1. Len(list) + 1 - d \in 1 .. Len(array) /\ Len(list) + 1 - d # h
        BY <1>1, <1>2, <1>3, <1>4, <2>1
      <4>2. array'[Len(list) + 1 - d] = NULL
        BY <1>5, <1>4, <4>1
      <4> QED
        BY <1>1, <1>2, <1>5, <2>3, <4>2 DEF ShiftInv, Left
    <3>3. \A k \in i .. h : array'[k] = list[k + d + 1]
      <4> SUFFICES ASSUME NEW k \in i .. h
                   PROVE  array'[k] = list[k + d + 1]
        OBVIOUS
      <4>1. CASE k = h
        <5>1. h + 1 \in h .. Len(list) - d /\ (h + 1) + d = h + d + 1
          <6> HIDE DEF i, h
          <6> QED
            BY <1>1, <1>2, <1>3, <2>1
        <5> QED
          BY <1>5, <1>4, <4>1, <5>1
      <4>2. CASE k # h
        <5>1. k \in i .. h - 1 /\ k \in 1 .. Len(array)
          BY <1>1, <1>2, <1>3, <4>2
        <5> QED
          BY <1>5, <1>4, <4>2, <5>1
      <4> QED
        BY <4>1, <4>2
    <3>4. \A k \in h + 1 .. Len(list) - d : array'[k] = list[k + d]
      <4> SUFFICES ASSUME NEW k \in h + 1 .. Len(list) - d
                   PROVE  array'[k] = list[k + d]
        OBVIOUS
      <4>1. k \in h .. Len(list) - d /\ k \in 1 .. Len(array) /\ k # h
        <5> HIDE DEF i, h
        <5>1. Len(array) \in Nat /\ k \in Int
          BY <1>1
        <5> QED
          BY <1>1, <1>2, <1>3, <1>4, <5>1
      <4> QED
        BY <1>5, <1>4, <4>1
    <3>5. call.shift' = h + 1 /\ call.index' = i /\ call.item' = x
      BY <2>3
    <3>6. (h + 1) - 1 = h
      BY <1>1
    <3> HIDE DEF i, h, x
    <3> QED
      BY <1>2, <1>3, <2>1, <2>3, <3>1, <3>2, <3>3, <3>4, <3>5, <3>6 DEF ShiftInv, i, h, x
  <2> QED
    BY <1>1, <2>3, <2>4, <2>5 DEF IInv, LoopInv, In
<1> QED
  BY <1>8, <1>9

LEMMA NextInv ==
  ASSUME IInv, [Next]_vars
  PROVE  IInv'
<1>1. CASE UNCHANGED vars
  BY <1>1 DEF vars, IInv, TypeOK, LoopInv, In, Empty, Holds, SearchInv, ShiftInv,
              Left, Swept
<1>2. CASE Next
  BY <1>2, ClearInv, CountInv, GrowStep, GrowFailsStep, SearchStep, SearchEndStep,
     ShiftStep, BeginSetInv, BeginUnsetStep DEF Next
<1> QED
  BY <1>1, <1>2

\* Where the loops of collection.c are, and what the array then holds.
THEOREM Invariance == Spec => []IInv
<1>1. Init => IInv
  BY InitInv
<1>2. IInv /\ [Next]_vars => IInv'
  BY NextInv
<1> QED
  BY <1>1, <1>2, PTL DEF Spec

\* Every variable keeps its type, whatever was appended, removed or refused.
THEOREM TypeCorrect == Spec => []TypeOK
<1>1. IInv => TypeOK
  BY DEF IInv
<1> QED
  BY <1>1, Invariance, PTL

\* The array ends with NULL, and no loop of collection.c reads past it or a slot
\* that was never written; between two calls the list is in front of the NULL.
THEOREM AlwaysInBounds == Spec => []InBounds
<1>1. ASSUME IInv
      PROVE  InBounds
  <2>1. /\ TypeOK /\ Len(list) \in Nat /\ call.index \in Nat /\ call.shift \in Nat
        /\ list \in Seq(Item) /\ array \in Seq(Item \cup {NULL, Junk})
        /\ DOMAIN array = 1 .. Len(array) /\ Len(array) \in Nat
        /\ call.at \in {"idle", "count", "grow", "search", "shift"}
    BY <1>1 DEF IInv, TypeOK
  <2>2. ASSUME Holds, call.index <= Len(list) + 1, ~In("shift")
        PROVE  InBounds
    <3>1. EndsAt(array, Len(list) + 1)
      BY <2>1, <2>2 DEF Holds, EndsAt
    <3>2. array # <<>>
      BY <2>1, <2>2 DEF Holds
    <3>3. list = SubSeq(array, 1, (Len(list) + 1) - 1)
      <4>1. \A i \in 1 .. Len(list) : array[i] \in Item
        BY <2>1, <2>2 DEF Holds
      <4>2. /\ SubSeq(array, 1, Len(list)) \in Seq(Item)
            /\ Len(SubSeq(array, 1, Len(list))) = Len(list)
            /\ \A i \in 1 .. Len(list) : SubSeq(array, 1, Len(list))[i] = array[i]
        BY <2>1, <4>1, SubSeqProperties
      <4>3. list = SubSeq(array, 1, Len(list))
        BY <2>1, <2>2, <4>2, SeqEqual DEF Holds
      <4> QED
        BY <2>1, <4>3
    <3>4. Len(list) + 1 \in DOMAIN array
      BY <3>1 DEF EndsAt
    <3> QED
      BY <2>2, <3>1, <3>2, <3>3, <3>4 DEF InBounds
  <2>3. ASSUME array = <<>>, In("idle") \/ In("grow")
        PROVE  InBounds
    BY <2>3 DEF InBounds, In
  <2>4. ASSUME NEW d \in Nat, Left(d), Swept(d),
               In("search") \/ In("shift"),
               \A i \in call.index .. Len(list) - d : array[i] \in Item,
               In("shift") => call.shift <= Len(list) - d
        PROVE  InBounds
    <3> DEFINE n == Len(list) + 1 - d
    <3>1. n \in DOMAIN array /\ array[n] = NULL /\ call.index <= n
      BY <2>1, <2>4 DEF Left
    <3>2. \A i \in 1 .. n - 1 : array[i] \in Item
      BY <2>1, <2>4 DEF Left, Swept
    <3>3. In("shift") => call.shift < n
      BY <2>1, <2>4
    <3>4. array # <<>> /\ ~In("idle")
      BY <2>1, <2>4, <3>1 DEF In
    <3> HIDE DEF n
    <3> QED
      BY <3>1, <3>2, <3>3, <3>4 DEF InBounds, EndsAt
  <2>5. CASE In("idle")
    BY <1>1, <2>1, <2>2, <2>3, <2>5 DEF IInv, LoopInv, In, Empty, Idle
  <2>6. CASE In("count")
    BY <1>1, <2>1, <2>2, <2>6 DEF IInv, LoopInv, In
  <2>7. CASE In("grow")
    BY <1>1, <2>1, <2>2, <2>3, <2>7 DEF IInv, LoopInv, In, Empty
  <2>8. CASE In("search")
    <3>1. PICK d \in Nat : SearchInv(d)
      BY <1>1, <2>8 DEF IInv, LoopInv
    <3>2. \A i \in call.index .. Len(list) - d : array[i] \in Item
      BY <2>1, <3>1 DEF SearchInv, Left
    <3> QED
      BY <2>4, <2>8, <3>1, <3>2 DEF SearchInv, In
  <2>9. CASE In("shift")
    <3>1. PICK d \in Nat : ShiftInv(d)
      BY <1>1, <2>9 DEF IInv, LoopInv
    <3>2. /\ \A i \in call.index .. call.shift - 1 : array[i] = list[i + d + 1]
          /\ \A i \in call.shift .. Len(list) - d : array[i] = list[i + d]
          /\ call.shift \in call.index .. Len(list) - d
          /\ call.index >= 1
      BY <2>1, <3>1 DEF ShiftInv, Left
    <3>3. \A i \in call.index .. Len(list) - d : array[i] \in Item
      <4> SUFFICES ASSUME NEW i \in call.index .. Len(list) - d
                   PROVE  array[i] \in Item
        OBVIOUS
      <4>1. CASE i < call.shift
        <5>1. i + d + 1 \in 1 .. Len(list) /\ i \in call.index .. call.shift - 1
          BY <2>1, <3>2, <4>1
        <5> QED
          BY <2>1, <3>2, <5>1
      <4>2. CASE i >= call.shift
        <5>1. i + d \in 1 .. Len(list) /\ i \in call.shift .. Len(list) - d
          BY <2>1, <3>2, <4>2
        <5> QED
          BY <2>1, <3>2, <5>1
      <4> QED
        BY <2>1, <4>1, <4>2
    <3> QED
      BY <2>4, <2>9, <3>1, <3>2, <3>3 DEF ShiftInv
  <2> QED
    BY <2>1, <2>5, <2>6, <2>7, <2>8, <2>9 DEF In
<1> QED
  BY <1>1, Invariance, PTL

\* Each call of collection.c does to the list, in the step that returns, what
\* Items says of it: __set appends or changes nothing, __unset takes out all
\* copies of its item and nothing else, in whatever place they are.
THEOREM CollectionImplementsItems == Spec => ImplementsItems
<1>1. Init => I!Init
  BY DEF Init, I!Init
<1>2. ASSUME IInv, [Next]_vars
      PROVE  [I!Next]_<<list, failed>>
  <2>1. IInv'
    BY <1>2, NextInv
  <2>2. CASE UNCHANGED vars
    BY <2>2 DEF vars
  <2>3. CASE Clear
    <3>1. list' = SubSeq(<<>>, 1, 0) /\ failed' = FALSE
      BY <2>3 DEF Clear, Return
    <3>2. list' = <<>>
      BY <3>1, SubSeqEmpty
    <3> QED
      BY <3>1, <3>2 DEF I!Next, I!Clear
  <2>4. CASE Count
    BY <2>4 DEF Count, Goto
  <2>5. CASE Grow
    <3>1. call.item \in Item
      BY <1>2, <2>5 DEF IInv, LoopInv, Grow, In
    <3> QED
      BY <1>2, <2>5, <3>1, GrowStep DEF I!Next, I!Set
  <2>6. CASE GrowFails
    <3>1. call.item \in Item
      BY <1>2, <2>6 DEF IInv, LoopInv, GrowFails, In
    <3> QED
      BY <1>2, <2>6, <3>1, GrowFailsStep DEF I!Next, I!Set
  <2>7. CASE Search
    BY <1>2, <2>7, SearchStep
  <2>8. CASE SearchEnd
    <3>1. call.item \in Item
      BY <1>2, <2>8 DEF IInv, LoopInv, SearchEnd, In
    <3>2. I!Unset(call.item)
      BY <1>2, <2>1, <2>8, SearchEndStep DEF I!Unset, IInv, TypeOK
    <3> QED
      BY <3>1, <3>2 DEF I!Next
  <2>9. CASE Shift
    BY <1>2, <2>9, ShiftStep
  <2>10. ASSUME NEW x \in Item, BeginSet(x)
         PROVE  UNCHANGED <<list, failed>>
    BY <2>10 DEF BeginSet
  <2>11. ASSUME NEW x \in Item, BeginUnset(x)
         PROVE  [I!Next]_<<list, failed>>
    BY <1>2, <2>11, BeginUnsetStep DEF I!Next, I!Clear
  <2> QED
    BY <1>2, <2>2, <2>3, <2>4, <2>5, <2>6, <2>7, <2>8, <2>9, <2>10, <2>11 DEF Next
<1> QED
  BY <1>1, <1>2, Invariance, PTL DEF Spec, ImplementsItems, I!Spec
=============================================================================
