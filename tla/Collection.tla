----------------------------- MODULE Collection -----------------------------
(***************************************************************************)
(* src/main/c/shared/collection.c: a list of pointers kept in an array     *)
(* that ends with NULL, as the cubes of a process and the slices of a cube *)
(* are.  Nothing records how long the array is: each operation looks for   *)
(* the NULL, and __set has the array reallocated to what it then needs.    *)
(*                                                                         *)
(* Grain.  A step is one turn of a loop.  There is one call at a time: its *)
(* caller holds the mutex of the list.                                     *)
(***************************************************************************)
EXTENDS Integers, Sequences

CONSTANTS
  Item,      \* pointers that are put in collections
  MaxSlots,  \* the longest array realloc gives
  NULL, Junk \* the null pointer, and what a slot never written holds

ASSUME CollectionAssumption ==
  MaxSlots \in Nat /\ Item \cap {NULL, Junk} = {} /\ NULL # Junk

VARIABLES
  array,   \* the array, <<>> while the collection is NULL
  call,    \* the call under way: its item, and the slots its loops are at
  failed,  \* whether the last call reported a failure
  list     \* what the array held up to its NULL when the last call returned

vars == <<array, call, failed, list>>

Idle == [at |-> "idle", item |-> NULL, index |-> 0, shift |-> 0]

TypeOK ==
  /\ array \in Seq(Item \cup {NULL, Junk}) /\ Len(array) <= MaxSlots
  /\ call \in [at : {"idle", "count", "grow", "search", "shift"},
               item : Item \cup {NULL}, index : Nat, shift : Nat]
  /\ failed \in BOOLEAN
  /\ list \in Seq(Item)

Init == array = <<>> /\ call = Idle /\ failed = FALSE /\ list = <<>>

-----------------------------------------------------------------------------

In(at) == call.at = at

\* The caller goes on with the collection a, whose NULL is after n items.
Return(a, n, bad) ==
  /\ array' = a
  /\ call' = Idle
  /\ failed' = bad
  /\ list' = SubSeq(a, 1, n)

Goto(at, index, shift) ==
  /\ call' = [call EXCEPT !.at = at, !.index = index, !.shift = shift]
  /\ UNCHANGED <<failed, list>>

Clear == In("idle") /\ Return(<<>>, 0, FALSE)

-----------------------------------------------------------------------------
(* __set *)

BeginSet(x) ==
  /\ In("idle")
  /\ call' = [at |-> IF array = <<>> THEN "grow" ELSE "count",
              item |-> x, index |-> 1, shift |-> 0]
  /\ UNCHANGED <<array, failed, list>>

Count ==
  /\ In("count")
  /\ IF array[call.index] = NULL THEN Goto("grow", call.index, 0)
                                 ELSE Goto("count", call.index + 1, 0)
  /\ UNCHANGED array

\* Room for the item and the NULL.
Size == call.index - 1
MutNeeded == Size + 1
Needed == Size + 2

\* realloc keeps what there was as far as the new length goes.
Realloc(n) == [i \in 1 .. n |-> IF i <= Len(array) THEN array[i] ELSE Junk]

Put(a, x) == [a EXCEPT ![Size + 1] = x, ![Size + 2] = NULL]

Grow ==
  /\ In("grow")
  /\ Needed <= MaxSlots
  /\ Return(Put(Realloc(Needed), call.item), Size + 1, FALSE)

\* realloc gives NULL: the array is what it was.
Kept == array
GrowFails == In("grow") /\ Return(Kept, Size, TRUE)

-----------------------------------------------------------------------------
(* __unset *)

BeginUnset(x) ==
  /\ In("idle")
  /\ IF array = <<>>
     THEN Return(array, 0, FALSE)
     ELSE /\ call' = [at |-> "search", item |-> x, index |-> 1, shift |-> 0]
          /\ UNCHANGED <<array, failed, list>>

Search ==
  /\ In("search")
  /\ array[call.index] # NULL
  /\ IF array[call.index] = call.item
     THEN Goto("shift", call.index, call.index)
     ELSE Goto("search", call.index + 1, 0)
  /\ UNCHANGED array

\* The array stays as long as it was.
SearchEnd ==
  /\ In("search")
  /\ array[call.index] = NULL
  /\ Return(array, call.index - 1, FALSE)

\* The slot is looked at again after the shift, for a copy next to it.
MutAgain == call.index + 1
Again == call.index

\* From the slot of the item on each takes the next one's value, up to the NULL.
Shift ==
  LET next == array[call.shift + 1] IN
  /\ In("shift")
  /\ array' = [array EXCEPT ![call.shift] = next]
  /\ IF next = NULL THEN Goto("search", Again, 0)
                    ELSE Goto("shift", call.index, call.shift + 1)

-----------------------------------------------------------------------------

Next ==
  \/ Clear \/ Count \/ Grow \/ GrowFails \/ Search \/ SearchEnd \/ Shift
  \/ \E x \in Item : BeginSet(x) \/ BeginUnset(x)

Spec == Init /\ [][Next]_vars

-----------------------------------------------------------------------------

\* Items up to a NULL in slot n.
EndsAt(a, n) ==
  /\ n \in DOMAIN a
  /\ a[n] = NULL
  /\ \A i \in 1 .. n - 1 : a[i] \in Item

\* No step of a call reads past the end of the array or a slot of it that was
\* never written, whatever failed before: the array ends at a NULL, also between
\* two writes of a shift, and neither loop goes past it.  Whoever walks the
\* array between two calls finds the list there.
InBounds ==
  /\ In("count") \/ In("search") \/ In("shift") => array # <<>>
  /\ array # <<>> =>
       \E n \in DOMAIN array :
         /\ EndsAt(array, n)
         /\ call.index <= n
         /\ In("shift") => call.shift < n
         /\ In("idle") => list = SubSeq(array, 1, n - 1)

I == INSTANCE Items WITH items <- list

\* The array is the list it stands for, in order and with its copies.
ImplementsItems == I!Spec
=============================================================================
