----------------------------- MODULE PagesProofs -----------------------------
(***************************************************************************)
(* Proofs about module Pages, for any page size, slices, sizes, number of  *)
(* arguments and storing threads: its type invariant; and, for slices      *)
(* whose page ranges are equal or disjoint, that the pages of a slice in   *)
(* flight stay protected, that no stale copy of a slice is served, and     *)
(* that an argument works on the bytes it was submitted with.              *)
(*                                                                         *)
(* The inductive invariant has two parts.  Whatever the slices are, the    *)
(* count of a slice is the number of its arguments.  If they do not        *)
(* overlap, the pages of a slice are protected while it is in flight, and  *)
(* from there on until its version is stepped; so between the sending of a *)
(* version and the next change to the slice's bytes comes a step, and a    *)
(* version is the one the copy was made of plus the number of steps,       *)
(* modulo the counter.  A copy is then kept only while it is right, and    *)
(* stays right as long as an argument that was sent uses it.               *)
(***************************************************************************)
EXTENDS Pages, TLAPS, FiniteSetTheorems

\* The arguments that name a slice.
LinksOf(s) == {l \in Links : arg[l].shape = s}

\* The values TypeOK speaks of.
Args == [shape : Shapes \cup {NoShape}, at : {"unused", "attached", "sent"}]

Stores == [at : {"idle", "store", "fault", "wait"},
           addr : Space \cup {NoAddr},
           on : Shapes \cup {NoShape}]

\* What an argument names is a slice the block has, within the block.
ArgInv ==
  /\ \A l \in Links :
       /\ arg[l].at = "unused" => arg[l] = Unused
       /\ arg[l].at # "unused" => arg[l].shape \in slices
  /\ \A s \in slices : s.offset + s.size <= size
  /\ \A s \in Shapes : last[s] # Unsent => s \in slices

CountInv == \A s \in Shapes : nlinks[s] = Cardinality(LinksOf(s))

BaseInv == TypeOK /\ ArgInv /\ CountInv

\* The pages of two slices are the same or have no byte in common.
PagesApart ==
  \A s, q \in Shapes : Span(s) = Span(q) \/ Span(s) \cap Span(q) = {}

\* A slice is watched while it is in flight, and from the sending of its version
\* to the first step of it.
Watched(s) == nlinks[s] > 0 \/ (last[s] # Unsent /\ bumps[s] = 0)

ProtInv ==
  \A s \in Shapes : Watched(s) => \A a \in Span(s) : prot[a] = "ro"

\* The version sent last, stepped as often as counted.
VersionInv ==
  \A s \in Shapes : last[s] # Unsent /\ bumps[s] <= MaxVersion =>
    \/ version[s] = last[s] + bumps[s]
    \/ version[s] = last[s] + bumps[s] - (MaxVersion + 1)

DirtyInv ==
  \A s \in Shapes : last[s] # Unsent /\ dirty[s] => bumps[s] > 0

\* The copy that a sent argument uses is right.
CopyInv ==
  \A l \in Links :
    arg[l].at = "sent" /\ bumps[arg[l].shape] <= MaxVersion
      => ~dirty[arg[l].shape]

ApartInv == ProtInv /\ VersionInv /\ DirtyInv /\ CopyInv

\* An address is rounded to the page it is on, and up to a page.
LEMMA Rounding ==
  ASSUME NEW x \in Nat
  PROVE  /\ Floor(x) \in Nat /\ Floor(x) <= x
         /\ Ceil(x) \in Nat /\ x <= Ceil(x)
<1>1. /\ x % PageSize \in 0 .. PageSize - 1
      /\ x % PageSize <= x
  BY PagesAssumption
<1>2. (x + PageSize - 1) % PageSize \in 0 .. PageSize - 1
  BY PagesAssumption
<1> QED
  BY <1>1, <1>2, PagesAssumption DEF Floor, Ceil

\* The bytes of a slice are on its pages.
LEMMA BytesOnPages ==
  ASSUME NEW s \in Shapes
  PROVE  Bytes(s) \subseteq Span(s)
<1>1. s.offset \in Nat /\ s.size \in Nat
  BY PagesAssumption
<1>2. PageOffset(s) \in Nat /\ PageOffset(s) <= s.offset
  BY <1>1, Rounding DEF PageOffset
<1>3. /\ PageLength(s) \in Nat
      /\ s.offset - PageOffset(s) + s.size <= PageLength(s)
  BY <1>1, <1>2, Rounding DEF PageLength
<1> QED
  BY <1>1, <1>2, <1>3, PagesAssumption DEF Bytes, Span, Space

\* A slice within the block has its first byte there.
LEMMA FirstByte ==
  ASSUME TypeOK, ArgInv, NEW s \in slices
  PROVE  s.offset \in Span(s) /\ s.offset < size
<1>1. s.offset \in Nat /\ s.size \in Nat /\ s.size > 0 /\ s \in Shapes
  BY PagesAssumption DEF TypeOK
<1>2. s.offset < size
  BY <1>1 DEF TypeOK, ArgInv
<1>3. s.offset \in Bytes(s)
  BY <1>1, <1>2, PagesAssumption DEF TypeOK, Bytes, Space
<1> QED
  BY <1>1, <1>2, <1>3, BytesOnPages

\* The links of a slice depend on arg alone, and are finitely many.
LEMMA LinksFinite ==
  \A s \in Shapes : IsFiniteSet(LinksOf(s)) /\ Cardinality(LinksOf(s)) \in Nat
<1>1. \A s \in Shapes : LinksOf(s) \in SUBSET Links
  BY DEF LinksOf
<1> QED
  BY <1>1, PagesAssumption, FS_Subset, FS_CardinalityType

\* An argument more is one of its slice.
LEMMA LinkAdded ==
  ASSUME TypeOK, NEW l \in Links, NEW s \in Shapes, arg[l].shape \notin Shapes,
         arg' = [arg EXCEPT ![l] = [shape |-> s, at |-> "attached"]]
  PROVE  \A q \in Shapes :
           Cardinality(LinksOf(q)') =
             Cardinality(LinksOf(q)) + (IF q = s THEN 1 ELSE 0)
<1>1. LinksOf(s)' = LinksOf(s) \cup {l} /\ l \notin LinksOf(s)
  BY DEF TypeOK, LinksOf
<1>2. \A q \in Shapes \ {s} : LinksOf(q)' = LinksOf(q)
  BY DEF TypeOK, LinksOf
<1>3. Cardinality(LinksOf(s)') = Cardinality(LinksOf(s)) + 1
  BY <1>1, LinksFinite, FS_AddElement
<1> QED
  BY <1>2, <1>3, LinksFinite

\* An argument less is one of its slice.
LEMMA LinkRemoved ==
  ASSUME TypeOK, NEW l \in Links, NEW s \in Shapes, arg[l].shape = s,
         arg' = [arg EXCEPT ![l] = Unused]
  PROVE  /\ Cardinality(LinksOf(s)) > 0
         /\ \A q \in Shapes :
              Cardinality(LinksOf(q)') =
                Cardinality(LinksOf(q)) - (IF q = s THEN 1 ELSE 0)
<1>1. LinksOf(s)' = LinksOf(s) \ {l} /\ l \in LinksOf(s)
  BY PagesAssumption DEF TypeOK, LinksOf, Unused
<1>2. \A q \in Shapes \ {s} : LinksOf(q)' = LinksOf(q)
  BY PagesAssumption DEF TypeOK, LinksOf, Unused
<1>3. /\ Cardinality(LinksOf(s)') = Cardinality(LinksOf(s)) - 1
      /\ Cardinality(LinksOf(s)) # 0
  BY <1>1, LinksFinite, FS_RemoveElement, FS_EmptySet
<1> QED
  BY <1>2, <1>3, LinksFinite

\* A slice is made within the block.
LEMMA SliceBase ==
  ASSUME BaseInv, NEW s \in Shapes, Slice(s)
  PROVE  BaseInv'
<1> USE PagesAssumption DEF BaseInv, known, Slice
<1>1. TypeOK'
  BY DEF TypeOK
<1>2. ArgInv'
  BY DEF ArgInv
<1>3. CountInv'
  BY DEF CountInv, LinksOf
<1> QED
  BY <1>1, <1>2, <1>3

\* An argument more.
LEMMA AttachBase ==
  ASSUME BaseInv, NEW l \in Links, NEW s \in Shapes, Attach(l, s)
  PROVE  BaseInv'
<1> USE PagesAssumption DEF BaseInv, known, Attach
<1>1. TypeOK'
  <2>1. prot' \in [Space -> {"rw", "ro", "none"}]
    BY DEF TypeOK, Protected
  <2>2. nlinks' \in [Shapes -> Nat]
    BY DEF TypeOK
  <2>3. [shape |-> s, at |-> "attached"] \in Args
    BY DEF Args
  <2>4. arg' \in [Links -> Args]
    BY <2>3 DEF TypeOK, Args
  <2> QED
    BY <2>1, <2>2, <2>4 DEF TypeOK, Args
<1>2. ArgInv'
  BY DEF ArgInv
<1>3. CountInv'
  <2>1. arg[l].shape \notin Shapes
    BY DEF Unused
  <2> QED
    <3>1. \A q \in Shapes :
            nlinks'[q] = nlinks[q] + (IF q = s THEN 1 ELSE 0)
      BY DEF TypeOK
    <3>2. \A q \in Shapes :
            Cardinality(LinksOf(q)') =
              Cardinality(LinksOf(q)) + (IF q = s THEN 1 ELSE 0)
      BY <2>1, LinkAdded
    <3> QED
      BY <3>1, <3>2 DEF CountInv
<1> QED
  BY <1>1, <1>2, <1>3

\* An argument is sent with the version of a slice there is.
LEMMA SendBase ==
  ASSUME BaseInv, NEW l \in Links, Send(l)
  PROVE  BaseInv'
<1> USE PagesAssumption DEF BaseInv, known, Send
<1>1. TypeOK'
  <2>1. PICK s \in Shapes : s = arg[l].shape
    BY DEF TypeOK, ArgInv
  <2>2. [arg[l] EXCEPT !.at = "sent"] \in Args
    BY DEF TypeOK, Args
  <2>3. arg' = [arg EXCEPT ![l] = [arg[l] EXCEPT !.at = "sent"]]
    BY DEF TypeOK
  <2>4. arg' \in [Links -> Args]
    BY <2>2, <2>3 DEF TypeOK, Args
  <2>5. last' \in [Shapes -> 0 .. MaxVersion \cup {Unsent}]
    BY <2>1 DEF TypeOK
  <2>6. dirty' \in [Shapes -> BOOLEAN]
    BY <2>1 DEF TypeOK
  <2>7. bumps' \in [Shapes -> 0 .. MaxVersion + 1]
    BY <2>1 DEF TypeOK
  <2>8. UNCHANGED <<size, prot, slices, nlinks, version, store>>
    OBVIOUS
  <2> QED
    BY <2>4, <2>5, <2>6, <2>7, <2>8 DEF TypeOK, Args
<1>2. ArgInv'
  BY DEF ArgInv
<1>3. CountInv'
  BY DEF CountInv, LinksOf
<1> QED
  BY <1>1, <1>2, <1>3

\* An argument less: the count was positive.
LEMMA DetachBase ==
  ASSUME BaseInv, NEW l \in Links, Detach(l)
  PROVE  BaseInv'
<1> USE PagesAssumption DEF BaseInv, known, Detach, Release
<1>1. TypeOK'
  <2>1. PICK s \in Shapes : s = arg[l].shape
    BY DEF TypeOK, ArgInv
  <2>2. nlinks[s] > 0
    BY <2>1, LinkRemoved DEF CountInv
  <2>3. nlinks' \in [Shapes -> Nat]
    BY <2>1, <2>2 DEF TypeOK
  <2>4. Unused \in Args
    BY DEF Unused, Args
  <2>5. arg' \in [Links -> Args]
    BY <2>4 DEF TypeOK, Args
  <2> QED
    BY <2>3, <2>5 DEF TypeOK, Args
<1>2. ArgInv'
  BY DEF ArgInv, Unused
<1>3. CountInv'
  <2>1. PICK s \in Shapes : s = arg[l].shape
    BY DEF TypeOK, ArgInv
  <2> QED
    <3>1. \A q \in Shapes :
            nlinks'[q] = nlinks[q] - (IF q = s THEN 1 ELSE 0)
      BY <2>1 DEF TypeOK
    <3>2. \A q \in Shapes :
            Cardinality(LinksOf(q)') =
              Cardinality(LinksOf(q)) - (IF q = s THEN 1 ELSE 0)
      BY <2>1, LinkRemoved
    <3> QED
      BY <3>1, <3>2 DEF CountInv
<1> QED
  BY <1>1, <1>2, <1>3

\* A block grows to a size it may have, and its slices stay within it.
LEMMA GrowBase ==
  ASSUME BaseInv, NEW n \in Sizes, Grow(n)
  PROVE  BaseInv'
<1> USE PagesAssumption DEF BaseInv, known, Grow
<1>1. TypeOK'
  <2>1. n \in Nat /\ Ceil(n) <= Limit
    BY DEF TypeOK
  <2>2. Ceil(n) \in 0 .. Limit
    BY <2>1, Rounding
  <2>3. prot[0] \in {"rw", "ro", "none"} \/ Space = {}
    BY DEF TypeOK, Space
  <2>4. prot' \in [Space -> {"rw", "ro", "none"}]
    BY <2>3 DEF TypeOK
  <2> QED
    BY <2>2, <2>4 DEF TypeOK
<1>2. ArgInv'
  <2>1. n \in Nat /\ size' = Ceil(n) /\ size < n
    BY DEF TypeOK
  <2>2. size <= size' /\ size' \in Nat
    BY <2>1, Rounding DEF TypeOK
  <2>3. \A s \in slices : s.offset \in Nat /\ s.size \in Nat
    BY DEF TypeOK
  <2> QED
    BY <2>2, <2>3 DEF TypeOK, ArgInv, Unused
<1>3. CountInv'
  BY DEF CountInv, LinksOf
<1> QED
  BY <1>1, <1>2, <1>3

\* A store begins.
LEMMA BeginStoreBase ==
  ASSUME BaseInv, NEW t \in Threads, NEW a \in Space, BeginStore(t, a)
  PROVE  BaseInv'
<1> USE PagesAssumption DEF BaseInv, known, BeginStore
<1>1. TypeOK'
  BY DEF TypeOK
<1>2. ArgInv'
  BY DEF ArgInv
<1>3. CountInv'
  BY DEF CountInv, LinksOf
<1> QED
  BY <1>1, <1>2, <1>3

\* A store is made.
LEMMA StoreBase ==
  ASSUME BaseInv, NEW t \in Threads, Store(t)
  PROVE  BaseInv'
<1> USE PagesAssumption DEF BaseInv, known, Store
<1>1. TypeOK'
  BY DEF TypeOK, Idle
<1>2. ArgInv'
  BY DEF ArgInv
<1>3. CountInv'
  BY DEF CountInv, LinksOf
<1> QED
  BY <1>1, <1>2, <1>3

\* A store traps.
LEMMA TrapBase ==
  ASSUME BaseInv, NEW t \in Threads, Trap(t)
  PROVE  BaseInv'
<1> USE PagesAssumption DEF BaseInv, known, Trap, Goto
<1>1. TypeOK'
  <2>1. [store[t] EXCEPT !.at = "fault"] \in Stores
    BY DEF TypeOK, Stores
  <2>2. store' = [store EXCEPT ![t] = [store[t] EXCEPT !.at = "fault"]]
    BY DEF TypeOK
  <2> QED
    BY <2>1, <2>2 DEF TypeOK, Stores
<1>2. ArgInv'
  BY DEF ArgInv
<1>3. CountInv'
  BY DEF CountInv, LinksOf
<1> QED
  BY <1>1, <1>2, <1>3

\* A store is refused.
LEMMA AccessRefuseBase ==
  ASSUME BaseInv, NEW t \in Threads, AccessRefuse(t)
  PROVE  BaseInv'
<1> USE PagesAssumption DEF BaseInv, known, AccessRefuse
<1>1. TypeOK'
  BY DEF TypeOK, Idle
<1>2. ArgInv'
  BY DEF ArgInv
<1>3. CountInv'
  BY DEF CountInv, LinksOf
<1> QED
  BY <1>1, <1>2, <1>3

\* A store waits.
LEMMA AccessWaitBase ==
  ASSUME BaseInv, NEW t \in Threads, NEW s \in Shapes, AccessWait(t, s)
  PROVE  BaseInv'
<1> USE PagesAssumption DEF BaseInv, known, AccessWait
<1>1. TypeOK'
  <2>1. [store[t] EXCEPT !.at = "wait", !.on = s] \in Stores
    BY DEF TypeOK, Stores
  <2>2. store' = [store EXCEPT ![t] = [store[t] EXCEPT !.at = "wait", !.on = s]]
    BY DEF TypeOK
  <2> QED
    BY <2>1, <2>2 DEF TypeOK, Stores
<1>2. ArgInv'
  BY DEF ArgInv
<1>3. CountInv'
  BY DEF CountInv, LinksOf
<1> QED
  BY <1>1, <1>2, <1>3

\* A store is tried again.
LEMMA AccessWakeBase ==
  ASSUME BaseInv, NEW t \in Threads, AccessWake(t)
  PROVE  BaseInv'
<1> USE PagesAssumption DEF BaseInv, known, AccessWake
<1>1. TypeOK'
  <2>1. [store[t] EXCEPT !.at = "store", !.on = NoShape] \in Stores
    <3>1. store[t] \in Stores
      BY DEF TypeOK, Stores
    <3> QED
      BY <3>1 DEF Stores
  <2>2. store' = [store EXCEPT ![t] = [store[t] EXCEPT !.at = "store", !.on = NoShape]]
    BY DEF TypeOK
  <2> QED
    BY <2>1, <2>2 DEF TypeOK, Stores
<1>2. ArgInv'
  BY DEF ArgInv
<1>3. CountInv'
  BY DEF CountInv, LinksOf
<1> QED
  BY <1>1, <1>2, <1>3

\* The versions stepped stay within the counter.
LEMMA AccessUnprotectBase ==
  ASSUME BaseInv, NEW t \in Threads, AccessUnprotect(t)
  PROVE  BaseInv'
<1> USE PagesAssumption DEF BaseInv, known, AccessUnprotect, Goto
<1>1. TypeOK'
  <2>1. [store[t] EXCEPT !.at = "store"] \in Stores
    BY DEF TypeOK, Stores
  <2>2. store' = [store EXCEPT ![t] = [store[t] EXCEPT !.at = "store"]]
    BY DEF TypeOK
  <2>3. store' \in [Threads -> Stores]
    BY <2>1, <2>2 DEF TypeOK, Stores
  <2>4. prot' \in [Space -> {"rw", "ro", "none"}]
    BY DEF TypeOK, Protected
  <2>5. version' \in [Shapes -> 0 .. MaxVersion]
    <3>1. \A s \in Shapes : version[s] \in 0 .. MaxVersion
      BY DEF TypeOK
    <3>2. \A v \in 0 .. MaxVersion : Bump(v) \in 0 .. MaxVersion
      BY PagesAssumption DEF Bump
    <3> QED
      BY <3>1, <3>2
  <2>6. bumps' \in [Shapes -> 0 .. MaxVersion + 1]
    BY DEF TypeOK
  <2> QED
    BY <2>3, <2>4, <2>5, <2>6 DEF TypeOK, Stores
<1>2. ArgInv'
  BY DEF ArgInv
<1>3. CountInv'
  BY DEF CountInv, LinksOf
<1> QED
  BY <1>1, <1>2, <1>3

\* A slice that is watched is one the block has.
LEMMA WatchedIsSlice ==
  ASSUME BaseInv, NEW s \in Shapes, Watched(s)
  PROVE  s \in slices
<1> USE DEF BaseInv
<1>1. CASE nlinks[s] > 0
  <2>1. PICK l \in Links : arg[l].shape = s
    BY <1>1, FS_EmptySet DEF CountInv, LinksOf
  <2> QED
    BY <2>1, PagesAssumption DEF ArgInv, Unused
<1>2. CASE last[s] # Unsent
  BY <1>2 DEF ArgInv
<1> QED
  BY <1>1, <1>2 DEF Watched

\* An argument in use is counted by its slice.
LEMMA InFlight ==
  ASSUME BaseInv, NEW l \in Links, arg[l].at # "unused"
  PROVE  arg[l].shape \in Shapes /\ nlinks[arg[l].shape] > 0
<1>1. PICK s \in Shapes : s = arg[l].shape
  BY DEF BaseInv, TypeOK, ArgInv
<1>2. l \in LinksOf(s)
  BY <1>1 DEF LinksOf
<1>3. nlinks[s] > 0
  BY <1>2, LinksFinite, FS_EmptySet DEF BaseInv, CountInv
<1> QED
  BY <1>1, <1>3

\* A slice that differs from the copy has been stepped, and not all the way round.
LEMMA StaleStepped ==
  ASSUME BaseInv, ApartInv, NEW s \in Shapes,
         last[s] # Unsent, dirty[s], bumps[s] <= MaxVersion
  PROVE  version[s] # last[s]
<1>1. bumps[s] \in 1 .. MaxVersion /\ last[s] \in 0 .. MaxVersion
  BY PagesAssumption DEF BaseInv, TypeOK, ApartInv, DirtyInv
<1> QED
  BY <1>1, PagesAssumption DEF ApartInv, VersionInv

\* A new slice is watched by nobody.
LEMMA SliceApart ==
  ASSUME BaseInv, PagesApart, ApartInv, NEW s \in Shapes, Slice(s)
  PROVE  ApartInv'
<1> USE PagesAssumption DEF BaseInv, ApartInv, known, Slice
<1>1. ProtInv'
  BY DEF ProtInv, Watched
<1>2. VersionInv'
  BY DEF VersionInv
<1>3. DirtyInv'
  BY DEF DirtyInv
<1>4. CopyInv'
  BY DEF CopyInv
<1> QED
  BY <1>1, <1>2, <1>3, <1>4

\* What is put in flight is protected.
LEMMA AttachApart ==
  ASSUME BaseInv, PagesApart, ApartInv, NEW l \in Links, NEW s \in Shapes,
         Attach(l, s)
  PROVE  ApartInv'
<1> USE PagesAssumption DEF BaseInv, ApartInv, known, Attach
<1>1. ProtInv'
  <2>1. \A a \in Space : prot[a] = "ro" => prot'[a] = "ro"
    BY DEF Protected
  <2>2. \A a \in Span(s) : prot'[a] = "ro"
    BY DEF Protected, Span
  <2>3. \A q \in Shapes \ {s} : Watched(q)' => Watched(q)
    BY DEF TypeOK, Watched
  <2> QED
    BY <2>1, <2>2, <2>3 DEF ProtInv, Span
<1>2. VersionInv'
  BY DEF VersionInv
<1>3. DirtyInv'
  BY DEF DirtyInv
<1>4. CopyInv'
  BY DEF TypeOK, CopyInv
<1> QED
  BY <1>1, <1>2, <1>3, <1>4

\* What is sent is in flight, hence protected.
LEMMA SendApart ==
  ASSUME BaseInv, PagesApart, ApartInv, NEW l \in Links, Send(l)
  PROVE  ApartInv'
<1> USE PagesAssumption DEF BaseInv, ApartInv, known, Send
<1>1. ProtInv'
  <2>1. PICK s \in Shapes : s = arg[l].shape
    BY DEF TypeOK, ArgInv
  <2>2. nlinks[s] > 0
    BY <2>1, InFlight
  <2>3. \A q \in Shapes \ {s} : last'[q] = last[q] /\ bumps'[q] = bumps[q]
    BY <2>1 DEF TypeOK
  <2>4. UNCHANGED nlinks
    OBVIOUS
  <2>5. \A q \in Shapes : Watched(q)' => Watched(q)
    BY <2>2, <2>3, <2>4 DEF Watched
  <2>6. UNCHANGED prot
    OBVIOUS
  <2> QED
    BY <2>5, <2>6 DEF ProtInv
<1>2. VersionInv'
  BY DEF TypeOK, VersionInv
<1>3. DirtyInv'
  BY DEF TypeOK, DirtyInv
<1>4. CopyInv'
  <2>1. PICK s \in Shapes : s = arg[l].shape
    BY DEF TypeOK, ArgInv
  <2>2. \A k \in Links : arg'[k].shape = arg[k].shape
    BY DEF TypeOK
  <2>3. \A k \in Links \ {l} : arg'[k] = arg[k]
    BY DEF TypeOK
  <2>4. CASE dirty' = [dirty EXCEPT ![s] = FALSE] /\ bumps' = [bumps EXCEPT ![s] = 0]
    <3> SUFFICES ASSUME NEW k \in Links, arg'[k].at = "sent", arg'[k].shape # s,
                        bumps'[arg[k].shape] <= MaxVersion
                 PROVE  ~dirty'[arg[k].shape]
      BY <2>2, <2>4 DEF TypeOK, CopyInv
    <3> QED
      BY <2>1, <2>2, <2>3, <2>4 DEF TypeOK, CopyInv
  <2>5. CASE last[s] = version[s] /\ UNCHANGED <<dirty, bumps>>
    <3>1. s \in slices /\ last[s] # Unsent
      BY <2>1, <2>5 DEF TypeOK, ArgInv, Unsent
    <3>2. bumps[s] <= MaxVersion => ~dirty[s]
      BY <2>5, <3>1, StaleStepped
    <3> QED
      BY <2>1, <2>2, <2>3, <2>5, <3>2 DEF CopyInv
  <2> QED
    BY <2>1, <2>4, <2>5
<1> QED
  BY <1>1, <1>2, <1>3, <1>4

\* The pages of what is not in flight any more stay as they were.
LEMMA DetachApart ==
  ASSUME BaseInv, PagesApart, ApartInv, NEW l \in Links, Detach(l)
  PROVE  ApartInv'
<1> USE PagesAssumption DEF BaseInv, ApartInv, known, Detach, Release
<1>1. ProtInv'
  BY DEF TypeOK, ProtInv, Watched
<1>2. VersionInv'
  BY DEF VersionInv
<1>3. DirtyInv'
  BY DEF DirtyInv
<1>4. CopyInv'
  BY DEF TypeOK, CopyInv, Unused
<1> QED
  BY <1>1, <1>2, <1>3, <1>4

\* A block with a protected page grows by protected pages: one mapping has one
\* protection.
LEMMA GrowApart ==
  ASSUME BaseInv, PagesApart, ApartInv, NEW n \in Sizes, Grow(n)
  PROVE  ApartInv'
<1> USE PagesAssumption DEF BaseInv, ApartInv, known, Grow
<1>1. ProtInv'
  <2> SUFFICES ASSUME NEW s \in Shapes, Watched(s), NEW a \in Span(s)
               PROVE  prot'[a] = "ro"
    BY DEF ProtInv, Watched
  <2>1. a \in Space /\ prot[a] = "ro"
    BY DEF ProtInv, Span
  <2>2. s \in slices
    BY WatchedIsSlice
  <2>3. prot[s.offset] = "ro" /\ s.offset \in Space /\ s.offset < size
    BY <2>2, FirstByte DEF ProtInv, Span
  <2>4. prot[0] = "ro"
    BY <2>3
  <2> QED
    BY <2>1, <2>4
<1>2. VersionInv'
  BY DEF VersionInv
<1>3. DirtyInv'
  BY DEF DirtyInv
<1>4. CopyInv'
  BY DEF CopyInv
<1> QED
  BY <1>1, <1>2, <1>3, <1>4

\* A store begins.
LEMMA BeginStoreApart ==
  ASSUME BaseInv, PagesApart, ApartInv, NEW t \in Threads, NEW a \in Space,
         BeginStore(t, a)
  PROVE  ApartInv'
<1> USE PagesAssumption DEF BaseInv, ApartInv, known, BeginStore
<1>1. ProtInv'
  BY DEF ProtInv, Watched
<1>2. VersionInv'
  BY DEF VersionInv
<1>3. DirtyInv'
  BY DEF DirtyInv
<1>4. CopyInv'
  BY DEF CopyInv
<1> QED
  BY <1>1, <1>2, <1>3, <1>4

\* A store is made where no page is protected, so on no slice that is watched.
LEMMA StoreApart ==
  ASSUME BaseInv, PagesApart, ApartInv, NEW t \in Threads, Store(t)
  PROVE  ApartInv'
<1> USE PagesAssumption DEF BaseInv, ApartInv, known, Store
<1>1. ProtInv'
  BY DEF ProtInv, Watched
<1>2. VersionInv'
  BY DEF VersionInv
<1>3. DirtyInv'
  <2> SUFFICES ASSUME NEW s \in Shapes, last[s] # Unsent, dirty'[s]
               PROVE  bumps[s] > 0
    BY DEF DirtyInv
  <2>1. CASE dirty[s]
    BY <2>1 DEF DirtyInv
  <2>2. CASE store[t].addr \in Bytes(s)
    <3>1. store[t].addr \in Span(s) /\ prot[store[t].addr] # "ro"
      BY <2>2, BytesOnPages
    <3>2. bumps[s] # 0
      BY <3>1 DEF ProtInv, Watched
    <3> QED
      BY <3>2 DEF TypeOK
  <2> QED
    BY <2>1, <2>2 DEF TypeOK
<1>4. CopyInv'
  <2> SUFFICES ASSUME NEW k \in Links, arg[k].at = "sent",
                      bumps[arg[k].shape] <= MaxVersion
               PROVE  ~dirty'[arg[k].shape]
    BY DEF CopyInv
  <2>1. arg[k].shape \in Shapes /\ nlinks[arg[k].shape] > 0
    BY InFlight DEF TypeOK, ArgInv
  <2>2. store[t].addr \notin Bytes(arg[k].shape)
    BY <2>1, BytesOnPages DEF ProtInv, Watched
  <2> QED
    BY <2>1, <2>2 DEF CopyInv
<1> QED
  BY <1>1, <1>2, <1>3, <1>4

\* A store traps.
LEMMA TrapApart ==
  ASSUME BaseInv, PagesApart, ApartInv, NEW t \in Threads, Trap(t)
  PROVE  ApartInv'
<1> USE PagesAssumption DEF BaseInv, ApartInv, known, Trap, Goto
<1>1. ProtInv'
  BY DEF ProtInv, Watched
<1>2. VersionInv'
  BY DEF VersionInv
<1>3. DirtyInv'
  BY DEF DirtyInv
<1>4. CopyInv'
  BY DEF CopyInv
<1> QED
  BY <1>1, <1>2, <1>3, <1>4

\* A store is refused.
LEMMA AccessRefuseApart ==
  ASSUME BaseInv, PagesApart, ApartInv, NEW t \in Threads, AccessRefuse(t)
  PROVE  ApartInv'
<1> USE PagesAssumption DEF BaseInv, ApartInv, known, AccessRefuse
<1>1. ProtInv'
  BY DEF ProtInv, Watched
<1>2. VersionInv'
  BY DEF VersionInv
<1>3. DirtyInv'
  BY DEF DirtyInv
<1>4. CopyInv'
  BY DEF CopyInv
<1> QED
  BY <1>1, <1>2, <1>3, <1>4

\* A store waits.
LEMMA AccessWaitApart ==
  ASSUME BaseInv, PagesApart, ApartInv, NEW t \in Threads, NEW s \in Shapes,
         AccessWait(t, s)
  PROVE  ApartInv'
<1> USE PagesAssumption DEF BaseInv, ApartInv, known, AccessWait
<1>1. ProtInv'
  BY DEF ProtInv, Watched
<1>2. VersionInv'
  BY DEF VersionInv
<1>3. DirtyInv'
  BY DEF DirtyInv
<1>4. CopyInv'
  BY DEF CopyInv
<1> QED
  BY <1>1, <1>2, <1>3, <1>4

\* A store is tried again.
LEMMA AccessWakeApart ==
  ASSUME BaseInv, PagesApart, ApartInv, NEW t \in Threads, AccessWake(t)
  PROVE  ApartInv'
<1> USE PagesAssumption DEF BaseInv, ApartInv, known, AccessWake
<1>1. ProtInv'
  BY DEF ProtInv, Watched
<1>2. VersionInv'
  BY DEF VersionInv
<1>3. DirtyInv'
  BY DEF DirtyInv
<1>4. CopyInv'
  BY DEF CopyInv
<1> QED
  BY <1>1, <1>2, <1>3, <1>4

\* The pages given back are those of slices not in flight, whose versions are
\* all stepped: another slice has no byte there.
LEMMA AccessUnprotectApart ==
  ASSUME BaseInv, PagesApart, ApartInv, NEW t \in Threads, AccessUnprotect(t)
  PROVE  ApartInv'
<1> USE PagesAssumption DEF BaseInv, ApartInv
<1> DEFINE a == store[t].addr
           S == Covering(a)
<1>1. /\ UNCHANGED <<nlinks, last, dirty>>
      /\ prot' = Protected(S, "rw")
      /\ \A s \in Shapes :
           /\ version'[s] = IF s \in S THEN Bump(version[s]) ELSE version[s]
           /\ bumps'[s] = IF s \in S /\ bumps[s] <= MaxVersion
                          THEN bumps[s] + 1 ELSE bumps[s]
  BY DEF AccessUnprotect
<1>2. \A s \in S : nlinks[s] = 0 /\ s \in slices /\ s \in Shapes /\ a \in Span(s)
  BY DEF AccessUnprotect, Hit, Near, Covering, TypeOK
<1> HIDE DEF a, S
<1>3. ProtInv'
  <2> SUFFICES ASSUME NEW s \in Shapes, Watched(s)', NEW b \in Span(s)
               PROVE  prot'[b] = "ro"
    BY DEF ProtInv
  <2>1. s \notin S
    <3> SUFFICES ASSUME s \in S
                 PROVE  FALSE
      OBVIOUS
    <3>1. nlinks'[s] = 0
      BY <1>1, <1>2
    <3>2. bumps'[s] # 0
      BY <1>1 DEF TypeOK
    <3> QED
      BY <3>1, <3>2 DEF Watched
  <2>2. Watched(s)
    BY <1>1, <2>1 DEF Watched
  <2>3. prot[b] = "ro" /\ b \in Space
    BY <2>2 DEF ProtInv, Span
  <2>4. ASSUME NEW q \in S
        PROVE  b \notin Span(q)
    <3>1. Span(q) # Span(s)
      BY <1>2, <2>1, <2>2, WatchedIsSlice DEF S, Covering
    <3> QED
      BY <1>2, <3>1 DEF PagesApart
  <2> QED
    BY <1>1, <2>3, <2>4 DEF Protected
<1>4. VersionInv'
  <2> SUFFICES ASSUME NEW s \in Shapes, last[s] # Unsent, bumps'[s] <= MaxVersion
               PROVE  \/ version'[s] = last[s] + bumps'[s]
                      \/ version'[s] = last[s] + bumps'[s] - (MaxVersion + 1)
    BY <1>1 DEF VersionInv
  <2>1. /\ version[s] \in 0 .. MaxVersion /\ last[s] \in 0 .. MaxVersion
        /\ bumps[s] \in 0 .. MaxVersion + 1
    BY DEF TypeOK
  <2>2. CASE s \in S
    <3>1. bumps[s] <= MaxVersion /\ bumps'[s] = bumps[s] + 1
      BY <1>1, <2>1, <2>2
    <3>2. \/ version[s] = last[s] + bumps[s]
          \/ version[s] = last[s] + bumps[s] - (MaxVersion + 1)
      BY <3>1 DEF VersionInv
    <3>3. version'[s] = IF version[s] = MaxVersion THEN 0 ELSE version[s] + 1
      BY <1>1, <2>2 DEF Bump
    <3> QED
      BY <2>1, <3>1, <3>2, <3>3
  <2>3. CASE s \notin S
    BY <1>1, <2>3 DEF VersionInv
  <2> QED
    BY <2>2, <2>3
<1>5. DirtyInv'
  BY <1>1 DEF TypeOK, DirtyInv
<1>6. CopyInv'
  <2>1. UNCHANGED arg
    BY DEF AccessUnprotect
  <2>2. \A k \in Links : arg[k].at = "sent" => arg[k].shape \in Shapes \ S
    BY <1>2, InFlight DEF TypeOK, ArgInv
  <2> QED
    BY <1>1, <2>1, <2>2 DEF CopyInv
<1> QED
  BY <1>3, <1>4, <1>5, <1>6

\* A block is made without slices.
LEMMA InitBase ==
  ASSUME Init
  PROVE  BaseInv
<1> USE PagesAssumption DEF Init
<1>1. TypeOK
  <2>1. Ceil(InitSize) \in 0 .. Limit
    BY Rounding
  <2> QED
    BY <2>1 DEF TypeOK, Unused, Idle, Unsent
<1>2. ArgInv
  BY DEF ArgInv, Unused
<1>3. CountInv
  <2>1. \A s \in Shapes : LinksOf(s) = {}
    BY DEF LinksOf, Unused
  <2> QED
    BY <2>1, FS_EmptySet DEF CountInv
<1> QED
  BY <1>1, <1>2, <1>3 DEF BaseInv

\* No page is protected at first, and none has to be.
LEMMA InitApart ==
  ASSUME Init
  PROVE  ApartInv
BY DEF Init, ApartInv, ProtInv, VersionInv, DirtyInv, CopyInv, Watched, Unused

\* Every step preserves the first part of the invariant, whatever the slices.
LEMMA NextBase ==
  ASSUME BaseInv, [Next]_vars
  PROVE  BaseInv'
<1>1. ASSUME NEW t \in Threads, Continue(t)
      PROVE  BaseInv'
  BY <1>1, StoreBase, TrapBase, AccessRefuseBase, AccessWakeBase,
     AccessUnprotectBase, AccessWaitBase DEF Continue
<1>2. CASE UNCHANGED vars
  BY <1>2 DEF vars, known, BaseInv, TypeOK, ArgInv, CountInv, LinksOf
<1> QED
  BY <1>1, <1>2, SliceBase, SendBase, DetachBase, AttachBase, GrowBase,
     BeginStoreBase DEF Next

\* Every step preserves the second, if no two slices overlap.
LEMMA NextApart ==
  ASSUME BaseInv, PagesApart, ApartInv, [Next]_vars
  PROVE  ApartInv'
<1>1. ASSUME NEW t \in Threads, Continue(t)
      PROVE  ApartInv'
  BY <1>1, StoreApart, TrapApart, AccessRefuseApart, AccessWakeApart,
     AccessUnprotectApart, AccessWaitApart DEF Continue
<1>2. CASE UNCHANGED vars
  BY <1>2 DEF vars, known, ApartInv, ProtInv, VersionInv, DirtyInv, CopyInv,
     Watched
<1> QED
  BY <1>1, <1>2, SliceApart, SendApart, DetachApart, AttachApart, GrowApart,
     BeginStoreApart DEF Next

\* BaseInv holds in every reachable state.
THEOREM Invariance == Spec => []BaseInv
<1>1. Init => BaseInv
  BY InitBase
<1>2. BaseInv /\ [Next]_vars => BaseInv'
  BY NextBase
<1> QED
  BY <1>1, <1>2, PTL DEF Spec

\* Every variable keeps its type: in particular slice->nlinks is never lowered
\* below zero, and the block stays within its bounds.
THEOREM TypeCorrect == Spec => []TypeOK
<1>1. BaseInv => TypeOK
  BY DEF BaseInv
<1> QED
  BY <1>1, Invariance, PTL

\* ApartInv holds in every reachable state, if no two slices overlap.
THEOREM InvarianceApart == PagesApart => (Spec => []ApartInv)
<1> SUFFICES ASSUME PagesApart
             PROVE  Spec => []ApartInv
  OBVIOUS
<1>1. Init => ApartInv
  BY InitApart
<1>2. BaseInv /\ ApartInv /\ [Next]_vars => ApartInv'
  BY NextApart
<1> QED
  BY <1>1, <1>2, Invariance, PTL DEF Spec

\* From the __attach of an argument to its __detach no store to its pages goes
\* through, wherever else the application stores, and from its sending the other
\* side's copy is what the slice holds (as long as the counter has not gone all
\* the way round), for slices whose page ranges are equal or disjoint.
THEOREM AlwaysIntact == PagesApart => (Spec => []InFlightIntact)
<1> SUFFICES ASSUME PagesApart
             PROVE  Spec => []InFlightIntact
  OBVIOUS
<1>1. BaseInv /\ ApartInv => InFlightIntact
  <2> SUFFICES ASSUME BaseInv, ApartInv, NEW l \in Links, arg[l] # Unused
               PROVE  /\ \A a \in Span(arg[l].shape) : prot[a] = "ro"
                      /\ arg[l].at = "sent" /\ bumps[arg[l].shape] <= MaxVersion
                           => ~dirty[arg[l].shape]
    BY DEF InFlightIntact
  <2>1. arg[l].shape \in Shapes /\ nlinks[arg[l].shape] > 0
    BY InFlight DEF BaseInv, ArgInv
  <2>2. \A a \in Span(arg[l].shape) : prot[a] = "ro"
    BY <2>1 DEF ApartInv, ProtInv, Watched
  <2> QED
    BY <2>2 DEF ApartInv, CopyInv
<1> QED
  BY <1>1, Invariance, InvarianceApart, PTL

\* A slice that differs from the other side's copy has another version than the
\* copy, as long as the counter has not gone all the way round, for slices whose
\* page ranges are equal or disjoint.
THEOREM AlwaysCoherent == PagesApart => (Spec => []Coherent)
<1> SUFFICES ASSUME PagesApart
             PROVE  Spec => []Coherent
  OBVIOUS
<1>1. BaseInv /\ ApartInv => Coherent
  BY StaleStepped DEF Coherent
<1> QED
  BY <1>1, Invariance, InvarianceApart, PTL

=============================================================================
