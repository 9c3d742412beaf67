----------------------------- MODULE CubeProofs -----------------------------
(***************************************************************************)
(* Proofs about module Cube, for any number of threads, blocks, slices and *)
(* links: its type invariant, that no released block or slice is touched,  *)
(* and that the reference counts are exact.                                *)
(*                                                                         *)
(* The inductive invariant says who may dispose of a block.  A block the   *)
(* application owns is listed, hence mapped and live; a call that names an *)
(* owned block keeps inaccel_free away from it; one thread at most frees   *)
(* it; and the count of a block is that of its attached links, less one    *)
(* once it is unmapped, so a count of zero leaves no link.                 *)
(***************************************************************************)
EXTENDS Cube, TLAPS, FiniteSetTheorems

\* What a thread in a call is at, and the locks it holds there.
CallInv ==
  \A t \in Threads :
    /\ call[t].at = "idle" <=> call[t].op = "none"
    /\ call[t].at = "idle" => call[t].cube = NoCube
    /\ call[t].op = "slice" => call[t].arg \in Regions
    /\ call[t].op = "alloc" => call[t].at = "lock" /\ call[t].cube \in Cubes
    /\ call[t].op = "free" =>
         /\ call[t].at \in {"lock", "walk", "body"}
         /\ call[t].cube \in Cubes
    /\ call[t].op \in {"attach", "detach"} <=> call[t].at = "mutex"
    /\ call[t].at = "mutex" => call[t].arg \in Links
    /\ call[t].op = "fork" =>
         call[t].at \in {"lock", "walk"} /\ call[t].cube = NoCube
    /\ call[t].at \in {"wait", "woken"} =>
         /\ call[t].op = "access"
         /\ call[t].arg \in slices
         /\ call[t].arg.cube = call[t].cube

LockInv ==
  \A t \in Threads :
    /\ call[t].at = "walk" => it = t
    /\ call[t].at = "body" =>
         call[t].cube \in Cubes /\ mutex[call[t].cube] = t
    /\ call[t].op = "fork" => \A c \in call[t].walk : mutex[c] = t

\* Owned blocks are listed, listed ones live and mapped.  Who frees a block, or
\* has not published it yet, has it to itself.
OwnInv ==
  /\ owned \subseteq cubes
  /\ \A c \in cubes : mem[c] = "live" /\ c \in mapped
  /\ \A c \in Foreign : mem[c] # "none"
  /\ \A c \in mapped : mem[c] = "live"
  /\ \A t \in Threads :
       LET c == call[t].cube IN
       /\ c # NoCube => mem[c] = "live"
       /\ call[t].op \in {"access", "slice", "realloc", "attach"}
            => c \in owned \cup {NoCube}
       /\ call[t].op = "free" =>
            /\ c \notin owned
            /\ c \in mapped
            /\ c \in cubes <=> call[t].at # "body"
            /\ \A u \in Threads :
                 call[u].op = "free" /\ call[u].cube = c => u = t
       /\ call[t].op = "alloc" =>
            /\ c \notin cubes
            /\ c \notin Foreign
            /\ c \in mapped
            /\ \A u \in Threads : call[u].cube = c => u = t
            /\ \A s \in slices : s.cube # c

\* Links: attached ones name a slice of a live block of this process, and so
\* do those being attached, one thread each.
LinkInv ==
  /\ \A s \in slices : mem[s.cube] = "live"
  /\ \A l \in Links :
       /\ slot[l] # NoSlice => slot[l] \in slices /\ slot[l].cube \notin Foreign
       /\ l \in att => slot[l] # NoSlice
       /\ slot[l] # NoSlice /\ l \notin att =>
            \E t \in Threads : call[t].op = "attach" /\ call[t].arg = l
  /\ \A t \in Threads :
       /\ call[t].at = "mutex" =>
            slot[call[t].arg] # NoSlice /\ slot[call[t].arg].cube = call[t].cube
       /\ call[t].op = "attach" => call[t].arg \notin att
       /\ call[t].op = "detach" => call[t].arg \in att
       /\ \A u \in Threads :
            call[t].at = "mutex" /\ call[u].at = "mutex"
              /\ call[t].arg = call[u].arg => t = u

CountInv ==
  /\ \A c \in Cubes \ Foreign :
       /\ mem[c] = "live" =>
            nlinks[c] =
              Cardinality(LinksOf(c)) - (IF c \in mapped THEN 0 ELSE 1)
       /\ mem[c] = "none" => nlinks[c] = 0
  /\ \A s \in slices :
       s.cube \notin Foreign => slinks[s] = Cardinality(LinksOn(s))

IInv == TypeOK /\ CallInv /\ LockInv /\ OwnInv /\ LinkInv /\ CountInv


\* The links of a block, or of a slice, depend on slot and att alone.
LEMMA LinksFrame ==
  ASSUME UNCHANGED <<slot, att>>
  PROVE  /\ \A c \in Cubes : LinksOf(c)' = LinksOf(c)
         /\ \A s \in Slices : LinksOn(s)' = LinksOn(s)
BY DEF LinksOf, LinksOn

\* A link that is not attached is on no block and on no slice.
LEMMA SlotFrame ==
  ASSUME TypeOK, NEW l \in Links, l \notin att, NEW v,
         slot' = [slot EXCEPT ![l] = v], UNCHANGED att
  PROVE  /\ \A c \in Cubes : LinksOf(c)' = LinksOf(c)
         /\ \A s \in Slices : LinksOn(s)' = LinksOn(s)
BY DEF LinksOf, LinksOn, TypeOK

\* The links are finitely many, so their number is a natural number.
LEMMA LinksFinite ==
  ASSUME TypeOK
  PROVE  /\ \A c \in Cubes :
              IsFiniteSet(LinksOf(c)) /\ Cardinality(LinksOf(c)) \in Nat
         /\ \A s \in Slices :
              IsFiniteSet(LinksOn(s)) /\ Cardinality(LinksOn(s)) \in Nat
<1>1. \A S \in SUBSET Links : IsFiniteSet(S) /\ Cardinality(S) \in Nat
  BY CubeAssumption, FS_Subset, FS_CardinalityType
<1>2. \A c \in Cubes : LinksOf(c) \in SUBSET Links
  BY DEF LinksOf, TypeOK
<1>3. \A s \in Slices : LinksOn(s) \in SUBSET Links
  BY DEF LinksOn, TypeOK
<1> QED
  BY <1>1, <1>2, <1>3

\* inaccel_alloc maps a cube nobody knows yet.
LEMMA AllocMapInv ==
  ASSUME IInv, NEW t \in Threads, NEW c \in Cubes, AllocMap(t, c)
  PROVE  IInv'
<1> USE CubeAssumption DEF IInv, heap, AllocMap, Enter
<1>1. TypeOK'
  BY DEF TypeOK, Ops, Calls
<1>2. CallInv'
  BY DEF CallInv
<1>3. LockInv'
  BY DEF LockInv
<1>4. OwnInv'
  BY DEF TypeOK, CallInv, OwnInv, LinkInv, Idle
<1>5. LinkInv'
  BY DEF TypeOK, CallInv, LinkInv, Idle
<1>6. CountInv'
  <2>1. c \notin Foreign /\ nlinks[c] = 0
    BY DEF OwnInv, CountInv
  <2>2. LinksOf(c) = {}
    BY DEF LinksOf, LinkInv, TypeOK
  <2>3. Cardinality(LinksOf(c)') = 0
    BY <2>2, LinksFrame, FS_EmptySet
  <2>4. \A d \in Cubes \ {c} :
          mem'[d] = mem[d] /\ (d \in mapped' <=> d \in mapped)
    BY DEF TypeOK
  <2>5. mem'[c] = "live" /\ c \in mapped'
    BY DEF TypeOK
  <2> QED
    BY <2>1, <2>3, <2>4, <2>5, LinksFrame DEF CountInv, TypeOK
<1> QED
  BY <1>1, <1>2, <1>3, <1>4, <1>5, <1>6

\* inaccel_alloc gives up on a cube nobody knows yet.
LEMMA AllocMapFailsInv ==
  ASSUME IInv, NEW t \in Threads, NEW c \in Cubes, AllocMapFails(t, c)
  PROVE  IInv'
<1> USE CubeAssumption DEF IInv, heap, AllocMapFails
<1>1. TypeOK'
  BY DEF TypeOK, Calls
<1>2. CallInv'
  BY DEF CallInv
<1>3. LockInv'
  BY DEF LockInv
<1>4. OwnInv'
  BY DEF OwnInv
<1>5. LinkInv'
  BY DEF LinkInv
<1>6. CountInv'
  BY LinksFrame DEF TypeOK, CountInv
<1> QED
  BY <1>1, <1>2, <1>3, <1>4, <1>5, <1>6

\* inaccel_alloc lists its cube.
LEMMA AllocPublishInv ==
  ASSUME IInv, NEW t \in Threads, AllocPublish(t)
  PROVE  IInv'
<1> USE CubeAssumption DEF IInv, heap, AllocPublish, In, Leave
<1>1. TypeOK'
  BY DEF TypeOK, CallInv, Idle, Ops, Calls
<1>2. CallInv'
  BY DEF TypeOK, CallInv, Idle
<1>3. LockInv'
  BY DEF TypeOK, LockInv, Idle
<1>4. OwnInv'
  BY DEF TypeOK, OwnInv, Idle
<1>5. LinkInv'
  BY DEF TypeOK, LinkInv, Idle
<1>6. CountInv'
  BY LinksFrame DEF TypeOK, CountInv
<1> QED
  BY <1>1, <1>2, <1>3, <1>4, <1>5, <1>6

\* inaccel_alloc releases a cube nobody else has seen.
LEMMA AllocPublishFailsInv ==
  ASSUME IInv, NEW t \in Threads, AllocPublishFails(t)
  PROVE  IInv'
<1> USE CubeAssumption DEF IInv, heap, AllocPublishFails, In, Leave
<1>1. TypeOK'
  BY DEF TypeOK, Idle, Ops, Calls
<1>2. CallInv'
  BY DEF TypeOK, CallInv, Idle
<1>3. LockInv'
  BY DEF TypeOK, LockInv, Idle
<1>4. OwnInv'
  BY DEF TypeOK, OwnInv, Idle
<1>5. LinkInv'
  BY DEF TypeOK, CallInv, OwnInv, LinkInv, Idle, Slices, Calls
<1>6. CountInv'
  BY LinksFrame DEF TypeOK, CountInv
<1> QED
  BY <1>1, <1>2, <1>3, <1>4, <1>5, <1>6

\* A call that names an owned block keeps BeginFree away from it.
LEMMA BeginAccessInv ==
  ASSUME IInv, NEW t \in Threads,
         NEW c \in owned \cup {NoCube}, NEW a \in Addrs, BeginAccess(t, c, a)
  PROVE  IInv'
<1> USE CubeAssumption DEF IInv, heap, BeginAccess, Enter
<1>1. TypeOK'
  BY DEF TypeOK, Ops, Calls
<1>2. CallInv'
  BY DEF CallInv
<1>3. LockInv'
  BY DEF LockInv
<1>4. OwnInv'
  BY DEF TypeOK, OwnInv, Idle
<1>5. LinkInv'
  BY DEF TypeOK, CallInv, LinkInv, Idle
<1>6. CountInv'
  BY LinksFrame DEF TypeOK, CountInv
<1> QED
  BY <1>1, <1>2, <1>3, <1>4, <1>5, <1>6

\* A call that names an owned block keeps BeginFree away from it.
LEMMA BeginSliceInv ==
  ASSUME IInv, NEW t \in Threads,
         NEW c \in owned \cup {NoCube}, NEW r \in Regions, BeginSlice(t, c, r)
  PROVE  IInv'
<1> USE CubeAssumption DEF IInv, heap, BeginSlice, Enter
<1>1. TypeOK'
  BY DEF TypeOK, Ops, Calls
<1>2. CallInv'
  BY DEF CallInv
<1>3. LockInv'
  BY DEF LockInv
<1>4. OwnInv'
  BY DEF TypeOK, OwnInv, Idle
<1>5. LinkInv'
  BY DEF TypeOK, CallInv, LinkInv, Idle
<1>6. CountInv'
  BY LinksFrame DEF TypeOK, CountInv
<1> QED
  BY <1>1, <1>2, <1>3, <1>4, <1>5, <1>6

\* A call that names an owned block keeps BeginFree away from it.
LEMMA BeginReallocInv ==
  ASSUME IInv, NEW t \in Threads,
         NEW c \in owned \cup {NoCube}, BeginRealloc(t, c)
  PROVE  IInv'
<1> USE CubeAssumption DEF IInv, heap, BeginRealloc, Enter
<1>1. TypeOK'
  BY DEF TypeOK, Ops, Calls
<1>2. CallInv'
  BY DEF CallInv
<1>3. LockInv'
  BY DEF LockInv
<1>4. OwnInv'
  BY DEF TypeOK, OwnInv, Idle
<1>5. LinkInv'
  BY DEF TypeOK, CallInv, LinkInv, Idle
<1>6. CountInv'
  BY LinksFrame DEF TypeOK, CountInv
<1> QED
  BY <1>1, <1>2, <1>3, <1>4, <1>5, <1>6

\* One thread at most frees a block.
LEMMA BeginFreeInv ==
  ASSUME IInv, NEW t \in Threads, NEW c \in Cubes, BeginFree(t, c)
  PROVE  IInv'
<1> USE CubeAssumption DEF IInv, heap, BeginFree, Enter, Users
<1>1. TypeOK'
  BY DEF TypeOK, Ops, Calls
<1>2. CallInv'
  BY DEF CallInv
<1>3. LockInv'
  BY DEF LockInv
<1>4. OwnInv'
  BY DEF OwnInv
<1>5. LinkInv'
  BY DEF TypeOK, CallInv, LinkInv, Idle
<1>6. CountInv'
  BY LinksFrame DEF TypeOK, CountInv
<1> QED
  BY <1>1, <1>2, <1>3, <1>4, <1>5, <1>6

\* Who takes the global mutex is the only one that walks.
LEMMA LockItInv ==
  ASSUME IInv, NEW t \in Threads, LockIt(t)
  PROVE  IInv'
<1> USE CubeAssumption DEF IInv, heap, LockIt, Goto, WalkOps
<1>1. TypeOK'
  <2>1. call[t] \in Calls
    BY DEF TypeOK
  <2>2. [call[t] EXCEPT !.at = "walk"] \in Calls
    BY <2>1 DEF Calls
  <2>3. call' = [call EXCEPT ![t] = [call[t] EXCEPT !.at = "walk"]]
    BY <2>1 DEF Calls
  <2>4. call' \in [Threads -> Calls]
    BY <2>2, <2>3 DEF TypeOK
  <2> QED
    BY <2>4 DEF TypeOK
<1>2. CallInv'
  BY DEF CallInv
<1>3. LockInv'
  BY DEF LockInv
<1>4. OwnInv'
  BY DEF OwnInv
<1>5. LinkInv'
  BY DEF LinkInv
<1>6. CountInv'
  BY LinksFrame DEF TypeOK, CountInv
<1> QED
  BY <1>1, <1>2, <1>3, <1>4, <1>5, <1>6

\* A cube walked past is left as it was.
LEMMA WalkPastInv ==
  ASSUME IInv, NEW t \in Threads, NEW c \in Cubes, WalkPast(t, c)
  PROVE  IInv'
<1> USE CubeAssumption DEF IInv, heap, WalkPast, WalkOps
<1>1. TypeOK'
  <2>1. call[t] \in Calls /\ call[t].walk \cup {c} \in SUBSET Cubes
    BY DEF TypeOK, Calls
  <2>2. [call[t] EXCEPT !.walk = @ \cup {c}] \in Calls
    BY <2>1 DEF Calls
  <2> QED
    BY <2>1, <2>2 DEF TypeOK
<1>2. CallInv'
  BY DEF CallInv
<1>3. LockInv'
  BY DEF LockInv
<1>4. OwnInv'
  BY DEF OwnInv
<1>5. LinkInv'
  BY DEF LinkInv
<1>6. CountInv'
  BY LinksFrame DEF TypeOK, CountInv
<1> QED
  BY <1>1, <1>2, <1>3, <1>4, <1>5, <1>6

\* inaccel_free takes its cube off the list before it disposes of it.
LEMMA WalkHitInv ==
  ASSUME IInv, NEW t \in Threads, WalkHit(t)
  PROVE  IInv'
<1> USE CubeAssumption DEF IInv, heap, WalkHit, Lock, Goto, WalkOps
<1>1. TypeOK'
  <2>1. call[t] \in Calls
    BY DEF TypeOK
  <2>2. [call[t] EXCEPT !.at = "body"] \in Calls
    BY <2>1 DEF Calls
  <2>3. call' = [call EXCEPT ![t] = [call[t] EXCEPT !.at = "body"]]
    BY <2>1 DEF Calls
  <2>4. call' \in [Threads -> Calls]
    BY <2>2, <2>3 DEF TypeOK
  <2> QED
    BY <2>4 DEF TypeOK
<1>2. CallInv'
  BY DEF CallInv
<1>3. LockInv'
  BY DEF TypeOK, LockInv, Idle
<1>4. OwnInv'
  BY DEF TypeOK, OwnInv, Idle
<1>5. LinkInv'
  BY DEF LinkInv
<1>6. CountInv'
  BY LinksFrame DEF TypeOK, CountInv
<1> QED
  BY <1>1, <1>2, <1>3, <1>4, <1>5, <1>6

\* A lookup that finds nothing changes nothing.
LEMMA WalkEndInv ==
  ASSUME IInv, NEW t \in Threads, WalkEnd(t)
  PROVE  IInv'
<1> USE CubeAssumption DEF IInv, heap, WalkEnd, Leave, WalkOps
<1>1. TypeOK'
  BY DEF TypeOK, Idle, Ops, Calls
<1>2. CallInv'
  BY DEF TypeOK, CallInv, Idle
<1>3. LockInv'
  BY DEF TypeOK, LockInv, Idle
<1>4. OwnInv'
  BY DEF TypeOK, OwnInv, Idle
<1>5. LinkInv'
  BY DEF TypeOK, LinkInv, Idle
<1>6. CountInv'
  BY LinksFrame DEF TypeOK, CountInv
<1> QED
  BY <1>1, <1>2, <1>3, <1>4, <1>5, <1>6

\* A store that may go on changes nothing here.
LEMMA AccessReturnInv ==
  ASSUME IInv, NEW t \in Threads, AccessReturn(t)
  PROVE  IInv'
<1> USE CubeAssumption DEF IInv, heap, AccessReturn, In, Unlock, Leave
<1>1. TypeOK'
  BY DEF TypeOK, Idle, Ops, Calls
<1>2. CallInv'
  BY DEF TypeOK, CallInv, Idle
<1>3. LockInv'
  BY DEF TypeOK, LockInv, Idle
<1>4. OwnInv'
  BY DEF TypeOK, OwnInv, Idle
<1>5. LinkInv'
  BY DEF TypeOK, LinkInv, Idle
<1>6. CountInv'
  BY LinksFrame DEF TypeOK, CountInv
<1> QED
  BY <1>1, <1>2, <1>3, <1>4, <1>5, <1>6

\* A store waits on a slice of the block it was made to.
LEMMA AccessWaitInv ==
  ASSUME IInv, NEW t \in Threads, NEW s \in slices, AccessWait(t, s)
  PROVE  IInv'
<1> USE CubeAssumption DEF IInv, heap, AccessWait, In, Unlock, Near, SlicesOf
<1>0. /\ call[t].op = "access" /\ call[t].at = "body"
      /\ s \in Slices /\ s.cube = call[t].cube
      /\ call'[t] = [call[t] EXCEPT !.at = "wait", !.arg = s]
      /\ \A u \in Threads \ {t} : call'[u] = call[u]
  BY DEF TypeOK
<1>1. TypeOK'
  <2>1. call[t] \in Calls
    BY DEF TypeOK
  <2>2. [call[t] EXCEPT !.at = "wait", !.arg = s] \in Calls
    BY <1>0, <2>1 DEF Calls
  <2>3. call' = [call EXCEPT ![t] = [call[t] EXCEPT !.at = "wait", !.arg = s]]
    BY <2>1 DEF Calls, TypeOK
  <2>4. call' \in [Threads -> Calls]
    BY <2>2, <2>3 DEF TypeOK
  <2> QED
    BY <2>4 DEF TypeOK
<1>2. CallInv'
  BY DEF TypeOK, CallInv, Idle
<1>3. LockInv'
  BY DEF TypeOK, LockInv, Idle
<1>4. OwnInv'
  BY DEF TypeOK, OwnInv, Idle
<1>5. LinkInv'
  <2>1. /\ call'[t].op = "access" /\ call'[t].at = "wait"
        /\ UNCHANGED <<slices, slot, att, mem>>
    BY <1>0 DEF TypeOK, Calls
  <2>2. \A u \in Threads :
          call'[u].op \in {"attach", "detach"} \/ call'[u].at = "mutex"
            => u # t /\ call'[u] = call[u]
    BY <1>0, <2>1
  <2>3. \A l \in Links : slot[l] # NoSlice /\ l \notin att =>
          \E u \in Threads \ {t} : call[u].op = "attach" /\ call[u].arg = l
    BY <1>0 DEF LinkInv
  <2>4. /\ \A q \in slices' : mem'[q.cube] = "live"
        /\ \A l \in Links :
             /\ slot'[l] # NoSlice =>
                  slot'[l] \in slices' /\ slot'[l].cube \notin Foreign
             /\ l \in att' => slot'[l] # NoSlice
    BY <2>1 DEF LinkInv
  <2>5. \A l \in Links : slot'[l] # NoSlice /\ l \notin att' =>
          \E u \in Threads : call'[u].op = "attach" /\ call'[u].arg = l
    <3> SUFFICES ASSUME NEW l \in Links, slot'[l] # NoSlice, l \notin att'
                 PROVE  \E u \in Threads :
                          call'[u].op = "attach" /\ call'[u].arg = l
      OBVIOUS
    <3>0. slot[l] # NoSlice /\ l \notin att
      BY <2>1
    <3>1. PICK u \in Threads \ {t} :
            call[u].op = "attach" /\ call[u].arg = l
      BY <2>3, <3>0
    <3>2. call'[u] = call[u]
      BY <1>0
    <3> QED
      BY <3>1, <3>2
  <2>6. \A u \in Threads :
          /\ call'[u].at = "mutex" =>
               slot'[call'[u].arg] # NoSlice
                 /\ slot'[call'[u].arg].cube = call'[u].cube
          /\ call'[u].op = "attach" => call'[u].arg \notin att'
          /\ call'[u].op = "detach" => call'[u].arg \in att'
    <3>1. UNCHANGED <<slot, att>>
      BY <2>1
    <3>2. \A u \in Threads :
            /\ call[u].at = "mutex" =>
                 slot[call[u].arg] # NoSlice
                   /\ slot[call[u].arg].cube = call[u].cube
            /\ call[u].op = "attach" => call[u].arg \notin att
            /\ call[u].op = "detach" => call[u].arg \in att
      BY DEF LinkInv
    <3>3. \A u \in Threads :
            call'[u].at = "mutex" \/ call'[u].op = "attach"
              \/ call'[u].op = "detach" => call'[u] = call[u]
      BY <2>2
    <3> QED
      BY ONLY <3>1, <3>2, <3>3
  <2>7. \A u, w \in Threads :
          call'[u].at = "mutex" /\ call'[w].at = "mutex"
            /\ call'[u].arg = call'[w].arg => u = w
    BY <2>2 DEF LinkInv
  <2> QED
    BY <2>4, <2>5, <2>6, <2>7 DEF LinkInv
<1>6. CountInv'
  BY LinksFrame DEF TypeOK, CountInv
<1> QED
  BY <1>1, <1>2, <1>3, <1>4, <1>5, <1>6

\* A store woken returns or waits again on the same slice.
LEMMA AccessWakeInv ==
  ASSUME IInv, NEW t \in Threads, AccessWake(t)
  PROVE  IInv'
<1> USE CubeAssumption DEF IInv
<1>1. /\ call[t].op = "access" /\ call[t].at = "woken"
      /\ UNCHANGED <<it, cubes, mutex, heap, nlinks, slices, slinks, owned,
                     slot, att>>
  BY DEF AccessWake, In
<1>2. \/ call' = [call EXCEPT ![t] = Idle]
      \/ call' = [call EXCEPT ![t].at = "wait"]
  BY DEF AccessWake, Goto, Leave
<1>3. /\ call' \in [Threads -> Calls]
      /\ \A u \in Threads \ {t} : call'[u] = call[u]
      /\ \/ call'[t] = Idle
         \/ /\ call'[t].op = "access" /\ call'[t].at = "wait"
            /\ call'[t].cube = call[t].cube /\ call'[t].arg = call[t].arg
  <2>1. CASE call' = [call EXCEPT ![t] = Idle]
    BY <2>1 DEF TypeOK, Calls, Idle, Ops
  <2>2. CASE call' = [call EXCEPT ![t].at = "wait"]
    <3>1. call[t] \in Calls /\ t \in DOMAIN call
      BY DEF TypeOK
    <3>2. /\ [call[t] EXCEPT !.at = "wait"] \in Calls
          /\ [call[t] EXCEPT !.at = "wait"].op = "access"
          /\ [call[t] EXCEPT !.at = "wait"].at = "wait"
          /\ [call[t] EXCEPT !.at = "wait"].cube = call[t].cube
          /\ [call[t] EXCEPT !.at = "wait"].arg = call[t].arg
      BY <1>1, <3>1 DEF Calls
    <3> QED
      BY <2>2, <3>1, <3>2 DEF TypeOK
  <2> QED
    BY <1>2, <2>1, <2>2
<1>4. TypeOK'
  BY <1>1, <1>3 DEF TypeOK, heap
<1>5. CallInv'
  BY <1>1, <1>3 DEF CallInv, Idle
<1>6. LockInv'
  BY <1>1, <1>3 DEF LockInv, Idle
<1>7. OwnInv'
  <2>1. CASE call'[t] = Idle
    BY <1>1, <1>3, <2>1 DEF CallInv, OwnInv, Idle, heap
  <2>2. CASE call'[t] # Idle
    <3>1. \A u \in Threads :
            /\ call'[u].op = call[u].op /\ call'[u].cube = call[u].cube
            /\ call[u].op = "free" => call'[u].at = call[u].at
      BY <1>1, <1>3, <2>2
    <3> QED
      BY <1>1, <3>1 DEF OwnInv, heap
  <2> QED
    BY <2>1, <2>2
<1>8. LinkInv'
  BY <1>1, <1>3 DEF LinkInv, Idle, heap
<1>9. CountInv'
  BY <1>1, LinksFrame DEF TypeOK, CountInv, heap
<1> QED
  BY <1>4, <1>5, <1>6, <1>7, <1>8, <1>9

\* A slice made is one of a live block, with no link on it.
LEMMA SliceReturnInv ==
  ASSUME IInv, NEW t \in Threads, SliceReturn(t)
  PROVE  IInv'
<1> USE CubeAssumption DEF IInv, heap, SliceReturn, In, Unlock, Leave
<1>0. PICK s \in Slices :
         s = [cube |-> call[t].cube, region |-> call[t].arg]
  BY DEF CallInv, LockInv, Slices
<1>1. TypeOK'
  <2>1. CASE UNCHANGED <<slices, slinks>>
    BY <2>1 DEF TypeOK, Idle, Ops, Calls
  <2>2. CASE /\ s \notin slices /\ slices' = slices \cup {s}
             /\ slinks' = [slinks EXCEPT ![s] = 0]
    BY <2>2 DEF TypeOK, Idle, Ops, Calls
  <2> QED
    BY <1>0, <2>1, <2>2
<1>2. CallInv'
  BY DEF TypeOK, CallInv, Idle
<1>3. LockInv'
  BY DEF TypeOK, LockInv, Idle
<1>4. OwnInv'
  BY DEF TypeOK, OwnInv, Idle
<1>5. LinkInv'
  <2>1. CASE UNCHANGED <<slices, slinks>>
    BY <2>1 DEF TypeOK, CallInv, OwnInv, LinkInv, Idle, Slices, Calls
  <2>2. CASE /\ s \notin slices /\ slices' = slices \cup {s}
             /\ slinks' = [slinks EXCEPT ![s] = 0]
    <3>1. mem[s.cube] = "live"
      BY <1>0 DEF OwnInv, CallInv, LockInv
    <3> QED
      BY <2>2, <3>1 DEF TypeOK, CallInv, LinkInv, Idle
  <2> QED
    BY <1>0, <2>1, <2>2
<1>6. CountInv'
  <2>1. CASE UNCHANGED <<slices, slinks>>
    BY <2>1, LinksFrame DEF CountInv, TypeOK
  <2>2. CASE /\ s \notin slices /\ slices' = slices \cup {s}
             /\ slinks' = [slinks EXCEPT ![s] = 0]
    <3>1. LinksOn(s) = {}
      BY <2>2 DEF LinksOn, LinkInv, TypeOK
    <3>2. Cardinality(LinksOn(s)') = 0
      BY <3>1, LinksFrame, FS_EmptySet
    <3>3. slinks'[s] = 0 /\ \A q \in slices : slinks'[q] = slinks[q]
      BY <2>2 DEF TypeOK
    <3> QED
      BY <2>2, <3>2, <3>3, LinksFrame DEF CountInv, TypeOK
  <2> QED
    BY <1>0, <2>1, <2>2
<1> QED
  BY <1>1, <1>2, <1>3, <1>4, <1>5, <1>6

\* A failed __slice changes nothing but the call.
LEMMA SliceFailsInv ==
  ASSUME IInv, NEW t \in Threads, SliceFails(t)
  PROVE  IInv'
<1> USE CubeAssumption DEF IInv, heap, SliceFails, In, Leave
<1>1. TypeOK'
  BY DEF TypeOK, Idle, Ops, Calls
<1>2. CallInv'
  BY DEF TypeOK, CallInv, Idle
<1>3. LockInv'
  BY DEF TypeOK, LockInv, Idle
<1>4. OwnInv'
  BY DEF TypeOK, OwnInv, Idle
<1>5. LinkInv'
  BY DEF TypeOK, LinkInv, Idle
<1>6. CountInv'
  BY LinksFrame DEF TypeOK, CountInv
<1> QED
  BY <1>1, <1>2, <1>3, <1>4, <1>5, <1>6

\* inaccel_realloc changes nothing here.
LEMMA ReallocReturnInv ==
  ASSUME IInv, NEW t \in Threads, ReallocReturn(t)
  PROVE  IInv'
<1> USE CubeAssumption DEF IInv, heap, ReallocReturn, In, Unlock, Leave
<1>1. TypeOK'
  BY DEF TypeOK, Idle, Ops, Calls
<1>2. CallInv'
  BY DEF TypeOK, CallInv, Idle
<1>3. LockInv'
  BY DEF TypeOK, LockInv, Idle
<1>4. OwnInv'
  BY DEF TypeOK, OwnInv, Idle
<1>5. LinkInv'
  BY DEF TypeOK, LinkInv, Idle
<1>6. CountInv'
  BY LinksFrame DEF TypeOK, CountInv
<1> QED
  BY <1>1, <1>2, <1>3, <1>4, <1>5, <1>6

\* inaccel_free disposes only of a block that no link and no thread names;
\* else it leaves a count less by one.
LEMMA FreeBodyInv ==
  ASSUME IInv, NEW t \in Threads, FreeBody(t)
  PROVE  IInv'
<1> DEFINE c == call[t].cube
<1> USE CubeAssumption DEF IInv
<1>1. /\ call[t].op = "free" /\ call[t].at = "body"
      /\ mapped' = mapped \ {c}
      /\ nlinks' = IF c \in Foreign THEN nlinks
                   ELSE [nlinks EXCEPT ![c] = @ - 1]
      /\ mutex' = [mutex EXCEPT ![c] = NoThread]
      /\ call' = [call EXCEPT ![t] = Idle]
      /\ UNCHANGED <<it, cubes, slinks, owned, slot, att>>
  BY DEF FreeBody, In, Unlock, Leave
<1>2. \/ /\ c \in Foreign \/ nlinks[c] = 0
         /\ files' \subseteq files
         /\ slices' = {s \in slices : s.cube # c}
         /\ mem' = [mem EXCEPT ![c] = "freed"]
      \/ /\ c \notin Foreign
         /\ UNCHANGED <<files, slices, mem>>
  BY DEF FreeBody, LastReference, Dispose, Unlink, SlicesOf, Defer
<1>3. /\ c \in Cubes /\ c # NoCube /\ mutex[c] = t /\ mem[c] = "live"
      /\ c \notin owned /\ c \notin cubes /\ c \in mapped /\ nlinks[c] \in Int
  BY <1>1 DEF TypeOK, CallInv, LockInv, OwnInv
<1>4. \A u \in Threads \ {t} : call[u].cube = c => call[u].op = "detach"
  BY <1>1, <1>3 DEF TypeOK, CallInv, OwnInv, Calls, Ops
<1>5. ASSUME c \in Foreign \/ nlinks[c] = 0
      PROVE  /\ \A u \in Threads \ {t} : call[u].cube # c
             /\ \A l \in Links : slot[l] # NoSlice => slot[l].cube # c
  <2>1. \A l \in att : slot[l].cube # c
    <3>1. CASE c \in Foreign
      BY <3>1 DEF LinkInv, TypeOK
    <3>2. CASE c \notin Foreign
      <4>1. Cardinality(LinksOf(c)) = 0
        BY <1>3, <1>5, <3>2, LinksFinite DEF CountInv
      <4>2. LinksOf(c) = {}
        BY <1>3, <4>1, LinksFinite, FS_EmptySet
      <4> QED
        BY <4>2 DEF LinksOf
    <3> QED
      BY <3>1, <3>2
  <2>2. \A u \in Threads \ {t} : call[u].cube # c
    BY <1>4, <2>1 DEF CallInv, LinkInv
  <2>3. \A l \in Links \ att : slot[l] # NoSlice => slot[l].cube # c
    <3> SUFFICES ASSUME NEW l \in Links \ att, slot[l] # NoSlice
                 PROVE  slot[l].cube # c
      OBVIOUS
    <3>1. PICK u \in Threads : call[u].op = "attach" /\ call[u].arg = l
      BY DEF LinkInv
    <3>2. slot[l].cube = call[u].cube /\ u # t
      BY <1>1, <3>1 DEF LinkInv, CallInv
    <3> QED
      BY <2>2, <3>2
  <2> QED
    BY <2>1, <2>2, <2>3
<1> HIDE DEF c
<1>6. TypeOK'
  <2>1. slices' \subseteq slices
    BY <1>2
  <2> QED
    BY <1>1, <1>2, <1>3, <2>1 DEF TypeOK, Idle, Ops, Calls
<1>7. CallInv'
  <2>1. \A u \in Threads \ {t} :
          call[u].at \in {"wait", "woken"} => call[u].arg \in slices'
    BY <1>2, <1>5 DEF CallInv
  <2> QED
    BY <1>1, <2>1 DEF TypeOK, CallInv, Idle
<1>8. LockInv'
  <2>1. \A u \in Threads \ {t} : call[u].at = "body" => call[u].cube # c
    BY <1>1, <1>3 DEF LockInv
  <2>2. \A u \in Threads \ {t} :
          call[u].op = "fork" => c \notin call[u].walk
    BY <1>3 DEF LockInv
  <2> QED
    BY <1>1, <1>3, <2>1, <2>2 DEF TypeOK, CallInv, LockInv, Idle
<1>9. OwnInv'
  <2>1. \A u \in Threads \ {t} :
          call[u].cube # NoCube => mem'[call[u].cube] = "live"
    <3>1. CASE UNCHANGED mem
      BY <3>1 DEF OwnInv
    <3>2. CASE /\ c \in Foreign \/ nlinks[c] = 0
               /\ mem' = [mem EXCEPT ![c] = "freed"]
      BY <1>5, <3>2 DEF OwnInv, TypeOK, Calls
    <3> QED
      BY <1>2, <3>1, <3>2
  <2>2. \A d \in Cubes \ {c} : mem'[d] = mem[d]
    BY <1>2 DEF TypeOK
  <2>3. mem'[c] # "none" /\ slices' \subseteq slices
    BY <1>2, <1>3 DEF TypeOK
  <2> QED
    BY <1>1, <1>3, <1>4, <2>1, <2>2, <2>3 DEF TypeOK, CallInv, OwnInv, Idle
<1>10. LinkInv'
  <2>1. \A s \in slices' : s \in slices /\ mem'[s.cube] = "live"
    BY <1>2 DEF LinkInv, TypeOK, Slices
  <2>2. \A l \in Links : slot[l] # NoSlice => slot[l] \in slices'
    BY <1>2, <1>5 DEF LinkInv
  <2> QED
    BY <1>1, <2>1, <2>2 DEF TypeOK, CallInv, LinkInv, Idle
<1>11. CountInv'
  <2>1. \A d \in Cubes \ {c} : mem'[d] = mem[d] /\ nlinks'[d] = nlinks[d]
    BY <1>1, <1>2 DEF TypeOK
  <2>2. slices' \subseteq slices
    BY <1>2
  <2>3. c \notin Foreign /\ mem'[c] = "live" =>
          nlinks'[c] = Cardinality(LinksOf(c)) - 1
    BY <1>1, <1>2, <1>3, LinksFinite DEF TypeOK, CountInv
  <2>4. mem'[c] # "none"
    BY <1>2, <1>3 DEF TypeOK
  <2> QED
    BY <1>1, <1>3, <2>1, <2>2, <2>3, <2>4, LinksFrame DEF TypeOK, CountInv
<1> QED
  BY <1>6, <1>7, <1>8, <1>9, <1>10, <1>11

\* A link is made on a slice of an owned block, by one thread.
LEMMA AttachBeginInv ==
  ASSUME IInv, NEW t \in Threads, NEW l \in Links, NEW s \in slices,
         s.cube \in owned, AttachBegin(t, l, s)
  PROVE  IInv'
<1> USE CubeAssumption DEF IInv, heap, AttachBegin, Enter
<1>1. TypeOK'
  BY DEF TypeOK, Ops, Calls
<1>2. CallInv'
  BY DEF CallInv
<1>3. LockInv'
  BY DEF LockInv
<1>4. OwnInv'
  BY DEF OwnInv
<1>5. LinkInv'
  BY DEF TypeOK, CallInv, LinkInv, Idle
<1>6. CountInv'
  <2>1. l \notin att
    BY DEF LinkInv
  <2> QED
    BY <2>1, SlotFrame DEF TypeOK, CountInv
<1> QED
  BY <1>1, <1>2, <1>3, <1>4, <1>5, <1>6

\* A link attached is counted on its block and on its slice.
LEMMA AttachInv ==
  ASSUME IInv, NEW t \in Threads, Attach(t)
  PROVE  IInv'
<1> USE CubeAssumption DEF IInv, heap, Attach, In, Leave, Link
<1>p. PICK l, s, c : l = call[t].arg /\ s = slot[l] /\ c = s.cube
  OBVIOUS
<1>0. /\ l \in Links /\ l \notin att /\ s \in slices /\ s \in Slices
      /\ c = call[t].cube /\ c \in Cubes \ Foreign
      /\ nlinks[c] \in Int /\ slinks[s] \in Nat
  <2>1. l \in Links /\ l \notin att /\ s # NoSlice /\ c = call[t].cube
    BY <1>p DEF CallInv, LinkInv
  <2>2. s \in slices /\ c \notin Foreign
    BY <1>p, <2>1 DEF LinkInv
  <2> QED
    BY <1>p, <2>1, <2>2 DEF TypeOK, Slices
<1>1. TypeOK'
  BY <1>p, <1>0 DEF TypeOK, Idle, Ops, Calls
<1>2. CallInv'
  BY DEF TypeOK, CallInv, Idle
<1>3. LockInv'
  BY DEF TypeOK, LockInv, Idle
<1>4. OwnInv'
  BY DEF TypeOK, OwnInv, Idle
<1>5. LinkInv'
  BY DEF TypeOK, CallInv, LinkInv, Idle
<1>6. CountInv'
  <2>1. /\ \A d \in Cubes : LinksOf(d)' =
             IF d = c THEN LinksOf(d) \cup {l} ELSE LinksOf(d)
        /\ \A q \in Slices : LinksOn(q)' =
             IF q = s THEN LinksOn(q) \cup {l} ELSE LinksOn(q)
        /\ l \notin LinksOf(c) /\ l \notin LinksOn(s)
    BY <1>p, <1>0 DEF LinksOf, LinksOn
  <2>2. /\ Cardinality(LinksOf(c) \cup {l}) = Cardinality(LinksOf(c)) + 1
        /\ Cardinality(LinksOn(s) \cup {l}) = Cardinality(LinksOn(s)) + 1
    BY <1>0, <2>1, LinksFinite, FS_AddElement
  <2>3. \A d \in Cubes \ Foreign :
          /\ mem'[d] = "live" =>
               nlinks'[d] =
                 Cardinality(LinksOf(d)') - (IF d \in mapped' THEN 0 ELSE 1)
          /\ mem'[d] = "none" => nlinks'[d] = 0
    <3>1. mem[c] = "live" /\ mem' = mem /\ mapped' = mapped
      BY <1>p, <1>0 DEF LinkInv
    <3>2. /\ nlinks'[c] = nlinks[c] + 1
          /\ \A d \in Cubes \ {c} : nlinks'[d] = nlinks[d]
      BY <1>p, <1>0 DEF TypeOK
    <3>3. nlinks[c] =
            Cardinality(LinksOf(c)) - (IF c \in mapped THEN 0 ELSE 1)
      BY <1>0, <3>1 DEF CountInv
    <3>4. nlinks'[c] =
            Cardinality(LinksOf(c)') - (IF c \in mapped THEN 0 ELSE 1)
      <4>1. Cardinality(LinksOf(c)') = Cardinality(LinksOf(c)) + 1
        BY <1>0, <2>1, <2>2
      <4>2. Cardinality(LinksOf(c)) \in Nat
        BY <1>0, LinksFinite
      <4> QED
        BY <3>2, <3>3, <4>1, <4>2
    <3> QED
      <4>1. ASSUME NEW d \in (Cubes \ Foreign) \ {c}
            PROVE  /\ mem[d] = "live" =>
                        nlinks'[d] = Cardinality(LinksOf(d)')
                                       - (IF d \in mapped THEN 0 ELSE 1)
                   /\ mem[d] = "none" => nlinks'[d] = 0
        BY <2>1, <3>2 DEF CountInv
      <4> QED
        BY <1>0, <3>1, <3>4, <4>1
  <2>4. \A q \in slices' :
          q.cube \notin Foreign => slinks'[q] = Cardinality(LinksOn(q)')
    <3>1. /\ slinks'[s] = slinks[s] + 1 /\ slices' = slices
          /\ \A q \in Slices \ {s} : slinks'[q] = slinks[q]
      BY <1>p, <1>0 DEF TypeOK
    <3>2. slinks[s] = Cardinality(LinksOn(s))
      BY <1>p, <1>0 DEF CountInv
    <3>3. slinks'[s] = Cardinality(LinksOn(s)')
      BY <1>0, <2>1, <2>2, <3>1, <3>2, LinksFinite
    <3> QED
      BY <1>0, <2>1, <3>1, <3>3 DEF CountInv, TypeOK
  <2> QED
    BY <2>3, <2>4 DEF CountInv
<1> QED
  BY <1>1, <1>2, <1>3, <1>4, <1>5, <1>6

\* A link that is not attached is counted nowhere.
LEMMA AttachFailsInv ==
  ASSUME IInv, NEW t \in Threads, AttachFails(t)
  PROVE  IInv'
<1> USE CubeAssumption DEF IInv, heap, AttachFails, In, Leave
<1>1. TypeOK'
  BY DEF TypeOK, Idle, Ops, Calls
<1>2. CallInv'
  BY DEF TypeOK, CallInv, Idle
<1>3. LockInv'
  BY DEF TypeOK, LockInv, Idle
<1>4. OwnInv'
  BY DEF TypeOK, OwnInv, Idle
<1>5. LinkInv'
  BY DEF TypeOK, LinkInv, Idle
<1>6. CountInv'
  <2>1. call[t].arg \in Links /\ call[t].arg \notin att
    BY DEF CallInv, LinkInv
  <2> QED
    BY <2>1, SlotFrame DEF TypeOK, CountInv
<1> QED
  BY <1>1, <1>2, <1>3, <1>4, <1>5, <1>6

\* A link is detached by one thread.
LEMMA DetachBeginInv ==
  ASSUME IInv, NEW t \in Threads, NEW l \in Links, DetachBegin(t, l)
  PROVE  IInv'
<1> USE CubeAssumption DEF IInv, heap, DetachBegin, Enter
<1>1. TypeOK'
  <2>1. slot[l] \in Slices /\ slot[l].cube \in Cubes
    BY DEF TypeOK, LinkInv, Slices
  <2> QED
    BY <2>1 DEF TypeOK, Ops, Calls
<1>2. CallInv'
  BY DEF CallInv
<1>3. LockInv'
  BY DEF LockInv
<1>4. OwnInv'
  BY DEF TypeOK, CallInv, OwnInv, LinkInv, Idle
<1>5. LinkInv'
  BY DEF TypeOK, CallInv, LinkInv, Idle
<1>6. CountInv'
  BY LinksFrame DEF TypeOK, CountInv
<1> QED
  BY <1>1, <1>2, <1>3, <1>4, <1>5, <1>6

\* __detach disposes only of a block freed before whose last link this is,
\* and that no thread names.
LEMMA DetachInv ==
  ASSUME IInv, NEW t \in Threads, Detach(t)
  PROVE  IInv'
<1> USE CubeAssumption DEF IInv
<1>0. PICK l, s, c : l = call[t].arg /\ s = slot[l] /\ c = s.cube
  OBVIOUS
<1>1. /\ call[t].op = "detach" /\ call[t].at = "mutex"
      /\ mutex[c] = NoThread
      /\ slinks' = [slinks EXCEPT ![s] = @ - 1]
      /\ nlinks' = [nlinks EXCEPT ![c] = @ - 1]
      /\ att' = att \ {l}
      /\ slot' = [slot EXCEPT ![l] = NoSlice]
      /\ call' = Broadcast(s, [call EXCEPT ![t] = Idle])
      /\ UNCHANGED <<it, cubes, mutex, mapped, owned>>
  BY <1>0 DEF Detach, In
<1>2. \/ /\ nlinks[c] = 0
         /\ files' \subseteq files
         /\ slices' = {q \in slices : q.cube # c}
         /\ mem' = [mem EXCEPT ![c] = "freed"]
      \/ UNCHANGED <<files, slices, mem>>
  BY <1>0 DEF Detach, LastReference, Dispose, Unlink, SlicesOf, Defer
<1>3. /\ l \in Links /\ l \in att /\ s # NoSlice /\ s \in slices
      /\ s \in Slices /\ c = call[t].cube /\ c \in Cubes \ Foreign
      /\ c # NoCube /\ mem[c] = "live"
      /\ nlinks[c] \in Int /\ slinks[s] \in Nat
  <2>1. l \in Links /\ l \in att /\ s # NoSlice /\ c = call[t].cube
    BY <1>0, <1>1 DEF CallInv, LinkInv
  <2>2. s \in slices /\ c \notin Foreign
    <3>1. slot[l] \in slices /\ slot[l].cube \notin Foreign
      BY <1>0, <2>1 DEF LinkInv
    <3> QED
      BY <1>0, <3>1
  <2> QED
    <3>1. s \in Slices /\ c \in Cubes
      BY <1>0, <2>2 DEF TypeOK, Slices
    <3>2. mem[c] = "live"
      BY <1>0, <2>2 DEF LinkInv
    <3>3. nlinks[c] \in Int /\ slinks[s] \in Nat /\ c # NoCube
      BY <3>1 DEF TypeOK
    <3> QED
      BY <2>1, <2>2, <3>1, <3>2, <3>3
<1>4. /\ l \in LinksOf(c) /\ l \in LinksOn(s)
      /\ \A d \in Cubes : LinksOf(d)' = LinksOf(d) \ {l}
      /\ \A q \in Slices : LinksOn(q)' = LinksOn(q) \ {l}
  BY <1>0, <1>1, <1>3 DEF LinksOf, LinksOn, TypeOK
<1>5. /\ Cardinality(LinksOf(c) \ {l}) = Cardinality(LinksOf(c)) - 1
      /\ Cardinality(LinksOn(s) \ {l}) = Cardinality(LinksOn(s)) - 1
      /\ Cardinality(LinksOf(c)) \in Nat /\ Cardinality(LinksOn(s)) \in Nat
      /\ Cardinality(LinksOf(c) \ {l}) \in Nat
      /\ Cardinality(LinksOn(s) \ {l}) \in Nat
  BY <1>3, <1>4, LinksFinite, FS_RemoveElement, FS_CardinalityType
<1>6. /\ nlinks[c] = Cardinality(LinksOf(c)) - (IF c \in mapped THEN 0 ELSE 1)
      /\ slinks[s] = Cardinality(LinksOn(s))
  BY <1>0, <1>3 DEF CountInv
<1>7. ASSUME nlinks[c] = 0
      PROVE  /\ c \notin mapped /\ c \notin cubes /\ c \notin owned
             /\ \A u \in Threads \ {t} : call[u].cube # c
             /\ \A k \in Links \ {l} : slot[k] # NoSlice => slot[k].cube # c
  <2>1. c \notin mapped /\ Cardinality(LinksOf(c) \ {l}) = 0
    BY <1>5, <1>6, <1>7
  <2>2. c \notin cubes /\ c \notin owned
    BY <2>1 DEF OwnInv
  <2>3. LinksOf(c) \ {l} = {}
    BY <1>3, <1>4, <2>1, LinksFinite, FS_EmptySet, FS_RemoveElement
  <2>4. \A k \in att \ {l} : slot[k].cube # c
    BY <2>3 DEF LinksOf
  <2>5. \A u \in Threads \ {t} : call[u].cube # c
    <3>1. \A u \in Threads \ {t} : call[u].op # "detach" => call[u].cube # c
      BY <1>3, <2>1, <2>2 DEF TypeOK, CallInv, OwnInv, Calls, Ops
    <3>2. \A u \in Threads \ {t} : call[u].op = "detach" => call[u].cube # c
      BY <1>0, <1>1, <2>4 DEF CallInv, LinkInv
    <3> QED
      BY <3>1, <3>2
  <2>6. \A k \in Links \ att : slot[k] # NoSlice => slot[k].cube # c
    <3> SUFFICES ASSUME NEW k \in Links \ att, slot[k] # NoSlice
                 PROVE  slot[k].cube # c
      OBVIOUS
    <3>1. PICK u \in Threads : call[u].op = "attach" /\ call[u].arg = k
      BY DEF LinkInv
    <3>2. slot[k].cube = call[u].cube /\ u # t
      BY <1>1, <3>1 DEF LinkInv, CallInv
    <3> QED
      BY <2>5, <3>2
  <2> QED
    BY <2>1, <2>2, <2>4, <2>5, <2>6
<1>8. /\ call' \in [Threads -> Calls]
      /\ call'[t] = Idle
      /\ \A u \in Threads \ {t} :
           /\ call'[u].op = call[u].op /\ call'[u].cube = call[u].cube
           /\ call'[u].arg = call[u].arg /\ call'[u].walk = call[u].walk
           /\ \/ call'[u].at = call[u].at
              \/ call[u].at = "wait" /\ call'[u].at = "woken"
  BY <1>1 DEF TypeOK, Broadcast, Idle, Calls, Ops
<1>9. /\ slices' \subseteq slices
      /\ \A d \in Cubes \ {c} : mem'[d] = mem[d]
      /\ mem'[c] # "none"
  BY <1>2, <1>3 DEF TypeOK
<1>10. TypeOK'
  <2>1. slinks[s] - 1 \in Nat
    BY <1>5, <1>6
  <2>2. slinks' \in [Slices -> Nat] /\ nlinks' \in [Cubes -> Int]
    BY <1>1, <1>3, <2>1 DEF TypeOK
  <2>3. mem' \in [Cubes -> {"none", "live", "freed"}] /\ files' \subseteq Cubes
    BY <1>2 DEF TypeOK
  <2> QED
    BY <1>1, <1>8, <1>9, <2>2, <2>3 DEF TypeOK
<1>11. CallInv'
  <2>1. \A u \in Threads \ {t} :
          call[u].at \in {"wait", "woken"} => call[u].arg \in slices'
    BY <1>2, <1>7 DEF CallInv
  <2> QED
    BY <1>8, <2>1 DEF CallInv, Idle
<1>12. LockInv'
  <2>1. \A u \in Threads : call'[u].at \in {"walk", "body"} =>
          u # t /\ call[u].at = call'[u].at
    BY <1>8 DEF Idle
  <2>2. \A u \in Threads : call'[u].op = "fork" =>
          u # t /\ call[u].op = "fork"
    BY <1>8 DEF Idle
  <2>3. UNCHANGED <<it, mutex>>
    BY <1>1
  <2> QED
    BY <1>8, <2>1, <2>2, <2>3 DEF LockInv
<1>13. OwnInv'
  <2>1. \A u \in Threads \ {t} :
          call[u].cube # NoCube => mem'[call[u].cube] = "live"
    <3>1. CASE UNCHANGED mem
      BY <3>1 DEF OwnInv
    <3>2. CASE nlinks[c] = 0 /\ mem' = [mem EXCEPT ![c] = "freed"]
      BY <1>7, <3>2 DEF OwnInv, TypeOK, Calls
    <3> QED
      BY <1>2, <3>1, <3>2
  <2>2. c \in mapped \/ c \in cubes => mem'[c] = "live"
    BY <1>2, <1>3, <1>7
  <2>3. \A u \in Threads : call'[u].op # "none" => u # t
    BY <1>8 DEF Idle
  <2>4. \A u \in Threads \ {t} :
          call'[u].op = "free" => (call'[u].at = "body" <=> call[u].at = "body")
    BY <1>8 DEF CallInv
  <2>5. /\ owned' \subseteq cubes'
        /\ \A d \in cubes' : mem'[d] = "live" /\ d \in mapped'
        /\ \A d \in Foreign : mem'[d] # "none"
        /\ \A d \in mapped' : mem'[d] = "live"
    BY <1>1, <1>3, <1>9, <2>2 DEF OwnInv, TypeOK
  <2>6. ASSUME NEW u \in Threads, call'[u].cube # NoCube
        PROVE  mem'[call'[u].cube] = "live"
    BY <1>8, <2>1, <2>6 DEF Idle
  <2>7. ASSUME NEW u \in Threads,
               call'[u].op \in {"access", "slice", "realloc", "attach"}
        PROVE  call'[u].cube \in owned' \cup {NoCube}
    BY <1>1, <1>8, <2>3, <2>7 DEF OwnInv
  <2>8. ASSUME NEW u \in Threads, call'[u].op = "free"
        PROVE  /\ call'[u].cube \notin owned'
               /\ call'[u].cube \in mapped'
               /\ call'[u].cube \in cubes' <=> call'[u].at # "body"
               /\ \A w \in Threads :
                    call'[w].op = "free" /\ call'[w].cube = call'[u].cube
                      => w = u
    <3>1. /\ u # t /\ call[u].op = "free" /\ call'[u].cube = call[u].cube
          /\ call'[u].at = "body" <=> call[u].at = "body"
      BY <1>8, <2>3, <2>4, <2>8
    <3>2. \A w \in Threads :
            call'[w].op = "free" => w # t /\ call[w].op = "free"
                                      /\ call'[w].cube = call[w].cube
      BY <1>8, <2>3
    <3>3. /\ call[u].cube \notin owned
          /\ call[u].cube \in mapped
          /\ call[u].cube \in cubes <=> call[u].at # "body"
          /\ \A w \in Threads :
               call[w].op = "free" /\ call[w].cube = call[u].cube => w = u
      BY <3>1 DEF OwnInv
    <3> QED
      BY <1>1, <3>1, <3>2, <3>3
  <2>9. ASSUME NEW u \in Threads, call'[u].op = "alloc"
        PROVE  /\ call'[u].cube \notin cubes' \cup Foreign
               /\ call'[u].cube \in mapped'
               /\ \A w \in Threads : call'[w].cube = call'[u].cube => w = u
               /\ \A q \in slices' : q.cube # call'[u].cube
    <3>1. u # t /\ call[u].op = "alloc" /\ call'[u].cube = call[u].cube
      BY <1>8, <2>3, <2>9
    <3>2. call[u].cube # NoCube
      BY <3>1 DEF CallInv
    <3>3. \A w \in Threads : call'[w].cube = call[u].cube => w = u
      <4>1. call'[t].cube # call[u].cube
        BY <1>8, <3>2 DEF Idle
      <4>2. \A w \in Threads : call[w].cube = call[u].cube => w = u
        BY <3>1 DEF OwnInv
      <4> QED
        BY <1>8, <4>1, <4>2
    <3>4. /\ call[u].cube \notin cubes \cup Foreign
          /\ call[u].cube \in mapped
          /\ \A q \in slices : q.cube # call[u].cube
      BY <3>1 DEF OwnInv
    <3> QED
      BY <1>1, <1>9, <3>1, <3>3, <3>4
  <2> QED
    BY <2>5, <2>6, <2>7, <2>8, <2>9 DEF OwnInv
<1>14. LinkInv'
  <2>1. \A q \in slices' : q \in slices /\ mem'[q.cube] = "live"
    BY <1>2, <1>3 DEF LinkInv, TypeOK, Slices
  <2>2. /\ slot'[l] = NoSlice
        /\ \A k \in Links \ {l} :
             slot'[k] = slot[k] /\ (k \in att' <=> k \in att)
    BY <1>1, <1>3 DEF TypeOK
  <2>3. \A k \in Links \ {l} : slot[k] # NoSlice => slot[k] \in slices'
    BY <1>2, <1>7 DEF LinkInv
  <2>4. \A u \in Threads : call'[u].at = "mutex" =>
          u # t /\ call[u].at = "mutex" /\ call[u].arg \in Links \ {l}
    <3>1. \A u \in Threads : call'[u].at = "mutex" =>
            u # t /\ call[u].at = "mutex"
      BY <1>8 DEF Idle
    <3>2. \A u \in Threads \ {t} : call[u].at = "mutex" =>
            call[u].arg \in Links /\ call[u].arg # l
      BY <1>0, <1>1 DEF CallInv, LinkInv
    <3> QED
      BY <3>1, <3>2
  <2>5. \A k \in Links : slot'[k] # NoSlice /\ k \notin att' =>
          \E u \in Threads : call'[u].op = "attach" /\ call'[u].arg = k
    <3> SUFFICES ASSUME NEW k \in Links, slot'[k] # NoSlice, k \notin att'
                 PROVE  \E u \in Threads :
                          call'[u].op = "attach" /\ call'[u].arg = k
      OBVIOUS
    <3>1. k # l /\ slot[k] # NoSlice /\ k \notin att
      BY <2>2
    <3>2. PICK u \in Threads : call[u].op = "attach" /\ call[u].arg = k
      BY <3>1 DEF LinkInv
    <3>3. u # t
      BY <1>1, <3>2
    <3> QED
      BY <1>8, <3>2, <3>3
  <2>6. \A u \in Threads :
          call'[u].op \in {"attach", "detach"} => call'[u].at = "mutex"
    BY <1>11 DEF CallInv
  <2>7. \A u \in Threads : call'[u].at = "mutex" =>
          slot'[call'[u].arg] # NoSlice
            /\ slot'[call'[u].arg].cube = call'[u].cube
    BY <1>8, <2>2, <2>4 DEF LinkInv
  <2>8. \A u \in Threads :
          /\ call'[u].op = "attach" => call'[u].arg \notin att'
          /\ call'[u].op = "detach" => call'[u].arg \in att'
    <3>1. \A u \in Threads : call'[u].op \in {"attach", "detach"} =>
            /\ call'[u].op = call[u].op /\ call'[u].arg = call[u].arg
            /\ call[u].arg \in Links \ {l}
      BY <1>8, <2>4, <2>6
    <3> QED
      BY <2>2, <3>1 DEF LinkInv
  <2>9. \A u, w \in Threads :
          call'[u].at = "mutex" /\ call'[w].at = "mutex"
            /\ call'[u].arg = call'[w].arg => u = w
    BY <1>8, <2>4 DEF LinkInv
  <2>10. \A k \in Links :
           /\ slot'[k] # NoSlice =>
                slot'[k] \in slices' /\ slot'[k].cube \notin Foreign
           /\ k \in att' => slot'[k] # NoSlice
    BY <1>1, <1>3, <2>2, <2>3 DEF LinkInv
  <2> QED
    BY <2>1, <2>5, <2>7, <2>8, <2>9, <2>10 DEF LinkInv
<1>15. CountInv'
  <2>1. \A d \in Cubes \ {c} :
          nlinks'[d] = nlinks[d] /\ LinksOf(d)' = LinksOf(d)
    BY <1>0, <1>1, <1>3, <1>4 DEF TypeOK, LinksOf
  <2>2. \A q \in Slices \ {s} :
          slinks'[q] = slinks[q] /\ LinksOn(q)' = LinksOn(q)
    BY <1>0, <1>1, <1>3, <1>4 DEF TypeOK, LinksOn
  <2>3. nlinks'[c] =
          Cardinality(LinksOf(c)') - (IF c \in mapped THEN 0 ELSE 1)
    <3>1. nlinks'[c] = nlinks[c] - 1
      BY <1>1, <1>3 DEF TypeOK
    <3>2. Cardinality(LinksOf(c)') = Cardinality(LinksOf(c)) - 1
      BY <1>3, <1>4, <1>5
    <3> QED
      BY <1>5, <1>6, <3>1, <3>2
  <2>4. slinks'[s] = Cardinality(LinksOn(s)')
    BY <1>1, <1>3, <1>4, <1>5, <1>6 DEF TypeOK
  <2> QED
    BY <1>1, <1>3, <1>9, <2>1, <2>2, <2>3, <2>4 DEF TypeOK, CountInv
<1> QED
  BY <1>10, <1>11, <1>12, <1>13, <1>14, <1>15

\* fork names no block.
LEMMA ForkBeginInv ==
  ASSUME IInv, NEW t \in Threads, ForkBegin(t)
  PROVE  IInv'
<1> USE CubeAssumption DEF IInv, heap, ForkBegin, Enter
<1>1. TypeOK'
  BY DEF TypeOK, Ops, Calls
<1>2. CallInv'
  BY DEF CallInv
<1>3. LockInv'
  BY DEF LockInv
<1>4. OwnInv'
  BY DEF TypeOK, OwnInv, Idle
<1>5. LinkInv'
  BY DEF TypeOK, CallInv, LinkInv, Idle
<1>6. CountInv'
  BY LinksFrame DEF TypeOK, CountInv
<1> QED
  BY <1>1, <1>2, <1>3, <1>4, <1>5, <1>6

\* fork holds the mutex of every cube it has walked over.
LEMMA ForkLockInv ==
  ASSUME IInv, NEW t \in Threads, NEW c \in Cubes, ForkLock(t, c)
  PROVE  IInv'
<1> USE CubeAssumption DEF IInv, heap, ForkLock, In, Lock
<1>1. TypeOK'
  <2>1. call[t] \in Calls /\ call[t].walk \cup {c} \in SUBSET Cubes
    BY DEF TypeOK, Calls
  <2>2. [call[t] EXCEPT !.walk = @ \cup {c}] \in Calls
    BY <2>1 DEF Calls
  <2> QED
    BY <2>1, <2>2 DEF TypeOK
<1>2. CallInv'
  BY DEF CallInv
<1>3. LockInv'
  BY DEF TypeOK, LockInv, Idle
<1>4. OwnInv'
  BY DEF OwnInv
<1>5. LinkInv'
  BY DEF LinkInv
<1>6. CountInv'
  BY LinksFrame DEF TypeOK, CountInv
<1> QED
  BY <1>1, <1>2, <1>3, <1>4, <1>5, <1>6

\* fork gives back all it took.
LEMMA ForkReturnInv ==
  ASSUME IInv, NEW t \in Threads, ForkReturn(t)
  PROVE  IInv'
<1> USE CubeAssumption DEF IInv, heap, ForkReturn, In, Leave
<1>1. TypeOK'
  BY DEF TypeOK, Idle, Ops, Calls
<1>2. CallInv'
  BY DEF TypeOK, CallInv, Idle
<1>3. LockInv'
  <2>1. \A u \in Threads \ {t} : call'[u] = call[u]
    BY DEF TypeOK
  <2>2. \A c \in cubes : mutex[c] = t
    BY DEF LockInv
  <2>3. \A u \in Threads \ {t}, c \in Cubes :
          mutex[c] = u => mutex'[c] = u
    BY <2>2 DEF TypeOK
  <2>4. call'[t] = Idle
    BY DEF TypeOK
  <2>5. \A u \in Threads \ {t} : call[u].at # "walk"
    BY DEF LockInv
  <2>6. \A u \in Threads : call[u].walk \subseteq Cubes
    BY DEF TypeOK, Calls
  <2> QED
    BY <2>1, <2>3, <2>4, <2>5, <2>6 DEF LockInv, Idle
<1>4. OwnInv'
  BY DEF TypeOK, OwnInv, Idle
<1>5. LinkInv'
  BY DEF TypeOK, LinkInv, Idle
<1>6. CountInv'
  BY LinksFrame DEF TypeOK, CountInv
<1> QED
  BY <1>1, <1>2, <1>3, <1>4, <1>5, <1>6

\* A process starts with no link, and with the blocks its parent had, if any.
LEMMA InitInv ==
  ASSUME Init
  PROVE  IInv
<1> USE CubeAssumption DEF Init
<1>1. TypeOK
  <2>1. ASSUME NEW c \in Cubes
        PROVE  nlinks[c] \in Int
    <3> DEFINE S == {s \in slices : s.cube = c /\ slinks[s] = 1}
    <3>1. IsFiniteSet(S) /\ Cardinality(S) \in Nat
      BY FS_Subset, FS_CardinalityType
    <3>2. nlinks[c] = Cardinality(S)
      OBVIOUS
    <3> QED
      BY <3>1, <3>2
  <2>2. nlinks \in [Cubes -> Int]
    BY <2>1
  <2> QED
    BY <2>2 DEF TypeOK, Idle, Ops, Calls, Slices
<1>2. CallInv
  BY DEF CallInv, Idle
<1>3. LockInv
  BY DEF LockInv, Idle
<1>4. OwnInv
  BY DEF OwnInv, Idle
<1>5. LinkInv
  BY DEF LinkInv, Idle, Slices
<1>6. CountInv
  BY FS_EmptySet DEF CountInv
<1> QED
  BY <1>1, <1>2, <1>3, <1>4, <1>5, <1>6 DEF IInv

\* Every step preserves the invariant: one lemma per action, above.
LEMMA NextInv ==
  ASSUME IInv, [Next]_vars
  PROVE  IInv'
<1>1. ASSUME NEW t \in Threads, Begin(t)
      PROVE  IInv'
  BY <1>1, AllocMapInv, AllocMapFailsInv, BeginFreeInv, BeginAccessInv,
     BeginSliceInv, BeginReallocInv, AttachBeginInv, ForkBeginInv
     DEF Begin
<1>2. ASSUME NEW t \in Threads, Complete(t)
      PROVE  IInv'
  BY <1>2, DetachBeginInv DEF Complete
<1>3. ASSUME NEW t \in Threads, Continue(t)
      PROVE  IInv'
  BY <1>3, AllocPublishInv, AllocPublishFailsInv, LockItInv, WalkHitInv,
     WalkEndInv, WalkPastInv, ForkLockInv, AccessReturnInv, AccessWakeInv,
     AccessWaitInv, SliceReturnInv, SliceFailsInv, ReallocReturnInv,
     FreeBodyInv, AttachInv, AttachFailsInv, DetachInv, ForkReturnInv
     DEF Continue
<1>4. CASE UNCHANGED vars
  BY <1>4, LinksFrame
     DEF vars, heap, IInv, TypeOK, CallInv, LockInv, OwnInv, LinkInv, CountInv
<1> QED
  BY <1>1, <1>2, <1>3, <1>4, CubeAssumption DEF Next

\* IInv holds in every reachable state.
THEOREM Invariance == Spec => []IInv
<1>1. Init => IInv
  BY InitInv
<1>2. IInv /\ [Next]_vars => IInv'
  BY NextInv
<1> QED
  BY <1>1, <1>2, PTL DEF Spec

\* Every variable of cube.c keeps its type: in particular slice->nlinks, an int
\* that __detach lowers without a test, never goes below zero.
THEOREM TypeCorrect == Spec => []TypeOK
<1>1. IInv => TypeOK
  BY DEF IInv
<1> QED
  BY <1>1, Invariance, PTL

\* No call of cube.c, and no completion still to come, reaches a cube_t or a
\* slice_t that inaccel_free or __detach has released, and pages whose
\* protection a call changes are mapped, for any interleaving of the calls.
THEOREM NeverUsedAfterFree == Spec => []NoUseAfterFree
<1>1. IInv => NoUseAfterFree
  <2> SUFFICES ASSUME IInv
               PROVE  NoUseAfterFree
    OBVIOUS
  <2> USE CubeAssumption DEF IInv
  <2>1. \A c \in cubes : mem[c] = "live" /\ c \in mapped
    BY DEF OwnInv
  <2>2. ASSUME NEW t \in Threads,
               call[t].at \in {"body", "mutex", "wait", "woken"}
        PROVE  mem[call[t].cube] = "live"
    <3>1. call[t].cube # NoCube
      <4>1. CASE call[t].at = "body"
        BY <4>1 DEF LockInv
      <4>2. CASE call[t].at = "mutex"
        BY <4>2 DEF LinkInv, CallInv, TypeOK, Slices
      <4>3. CASE call[t].at \in {"wait", "woken"}
        BY <4>3 DEF CallInv, TypeOK, Slices
      <4> QED
        BY <2>2, <4>1, <4>2, <4>3
    <3> QED
      BY <3>1 DEF OwnInv
  <2>3. \A t \in Threads :
          call[t].at \in {"wait", "woken"} => call[t].arg \in slices
    BY DEF CallInv
  <2>4. ASSUME NEW t \in Threads, call[t].op # "detach",
               call[t].at \in {"body", "mutex"}
        PROVE  call[t].cube \in mapped
    <3>1. call[t].op \in {"access", "slice", "realloc", "free", "attach"}
      BY <2>4 DEF CallInv, TypeOK, Calls, Ops
    <3>2. call[t].cube # NoCube
      <4>1. CASE call[t].at = "body"
        BY <4>1 DEF LockInv
      <4>2. CASE call[t].at = "mutex"
        BY <4>2 DEF LinkInv, CallInv, TypeOK, Slices
      <4> QED
        BY <2>4, <4>1, <4>2
    <3> QED
      BY <3>1, <3>2 DEF OwnInv
  <2>5. \A l \in Links :
          slot[l] # NoSlice => slot[l] \in slices /\ mem[slot[l].cube] = "live"
    BY DEF LinkInv
  <2> QED
    BY <2>1, <2>2, <2>3, <2>4, <2>5 DEF NoUseAfterFree
<1> QED
  BY <1>1, Invariance, PTL

\* The counts cube->nlinks and slice->nlinks, from which inaccel_free and
\* __detach decide who releases a block, are exact while the block lives.
THEOREM CountsExact == Spec => []ReferencesCounted
<1>1. IInv => ReferencesCounted
  BY DEF IInv, CountInv, ReferencesCounted
<1> QED
  BY <1>1, Invariance, PTL

\* Only inaccel_free with nothing attached, or the last __detach, releases a
\* published block: at that step it is neither listed, owned nor mapped, and
\* no link stays attached to it.
THEOREM ReleasedOnce == Spec => DisposedOnce
<1>1. IInv' /\ TypeOK =>
        \A c \in Cubes :
          mem[c] = "live" /\ mem'[c] = "freed" =>
            /\ c \notin cubes' /\ c \notin owned' /\ c \notin mapped'
            /\ \A l \in att' : slot'[l].cube # c
  BY DEF IInv, OwnInv, LinkInv, TypeOK
<1> QED
  BY <1>1, Invariance, TypeCorrect, PTL DEF DisposedOnce

\* A sleeping thread's slice is in flight: __access goes to sleep, or back to
\* sleep, with the mutex held at which it saw the count, and the one step that
\* lowers a count wakes all that sleep on the slice.
LEMMA WakeInv ==
  ASSUME IInv, NoLostWakeup, [Next]_vars
  PROVE  NoLostWakeup'
<1> USE CubeAssumption DEF InFlight
<1>1. ASSUME NEW t \in Threads, AccessWake(t)
      PROVE  NoLostWakeup'
  <2>1. CASE InFlight(call[t].arg)
    BY <1>1, <2>1 DEF AccessWake, Goto, NoLostWakeup, IInv, TypeOK, Calls
  <2>2. CASE ~InFlight(call[t].arg)
    BY <1>1, <2>2 DEF AccessWake, Leave, NoLostWakeup, IInv, TypeOK, Idle
  <2> QED
    BY <2>1, <2>2
<1>2. ASSUME NEW t \in Threads, NEW s \in slices, AccessWait(t, s)
      PROVE  NoLostWakeup'
  <2>1. slinks[s] > 0
    BY <1>2 DEF AccessWait, Near
  <2>2. /\ call'[t].arg = s /\ UNCHANGED slinks
        /\ \A u \in Threads \ {t} : call'[u] = call[u]
    BY <1>2 DEF AccessWait, IInv, TypeOK, Calls
  <2> QED
    BY <2>1, <2>2 DEF NoLostWakeup
<1>3. ASSUME NEW t \in Threads, SliceReturn(t)
      PROVE  NoLostWakeup'
  <2>1. /\ call'[t] = Idle
        /\ \A u \in Threads \ {t} : call'[u] = call[u]
    BY <1>3 DEF SliceReturn, Leave, IInv, TypeOK
  <2>2. \A q \in slices : slinks'[q] = slinks[q]
    BY <1>3 DEF SliceReturn, IInv, TypeOK
  <2>3. \A u \in Threads : call[u].at = "wait" => call[u].arg \in slices
    BY DEF IInv, CallInv
  <2> QED
    BY <2>1, <2>2, <2>3 DEF NoLostWakeup, Idle
<1>4. ASSUME NEW t \in Threads, Attach(t)
      PROVE  NoLostWakeup'
  <2>1. /\ call'[t] = Idle
        /\ \A u \in Threads \ {t} : call'[u] = call[u]
    BY <1>4 DEF Attach, Leave, IInv, TypeOK
  <2>2. \A q \in Slices : slinks[q] > 0 => slinks'[q] > 0
    BY <1>4 DEF Attach, Link, IInv, TypeOK
  <2>3. \A u \in Threads : call[u].at = "wait" => call[u].arg \in Slices
    BY DEF IInv, CallInv, TypeOK
  <2> QED
    BY <2>1, <2>2, <2>3 DEF NoLostWakeup, Idle
<1>5. ASSUME NEW t \in Threads, Detach(t)
      PROVE  NoLostWakeup'
  <2>1. PICK s : s = slot[call[t].arg]
    OBVIOUS
  <2>2. \A u \in Threads : call'[u].at = "wait" =>
          /\ call[u].at = "wait" /\ call'[u].arg = call[u].arg
          /\ call[u].arg # s
    BY <1>5, <2>1 DEF Detach, Broadcast, IInv, TypeOK, Calls, Idle
  <2>3. \A q \in Slices \ {s} : slinks'[q] = slinks[q]
    BY <1>5, <2>1 DEF Detach, IInv, TypeOK
  <2>4. \A u \in Threads : call[u].at = "wait" => call[u].arg \in Slices
    BY DEF IInv, CallInv, TypeOK
  <2> QED
    BY <2>2, <2>3, <2>4 DEF NoLostWakeup
<1>6. ASSUME UNCHANGED slinks,
             \A u \in Threads : call'[u].at = "wait" => call'[u] = call[u]
      PROVE  NoLostWakeup'
  BY <1>6 DEF NoLostWakeup
<1>7. ASSUME NEW t \in Threads, Begin(t)
      PROVE  NoLostWakeup'
  <2>1. UNCHANGED slinks
    BY <1>7 DEF Begin, AllocMap, AllocMapFails, BeginFree, BeginAccess,
                BeginSlice, BeginRealloc, AttachBegin, ForkBegin
  <2>2. \A u \in Threads : call'[u].at = "wait" => call'[u] = call[u]
    BY <1>7 DEF Begin, AllocMap, AllocMapFails, BeginFree, BeginAccess,
                BeginSlice, BeginRealloc, AttachBegin, ForkBegin, Enter,
                IInv, TypeOK
  <2> QED
    BY <1>6, <2>1, <2>2
<1>8. ASSUME NEW t \in Threads, Complete(t)
      PROVE  NoLostWakeup'
  BY <1>6, <1>8 DEF Complete, DetachBegin, Enter, IInv, TypeOK
<1>9. ASSUME NEW t \in Threads,
             \/ AllocPublish(t) \/ AllocPublishFails(t)
             \/ WalkEnd(t) \/ AccessReturn(t) \/ SliceFails(t)
             \/ ReallocReturn(t) \/ FreeBody(t) \/ AttachFails(t)
             \/ ForkReturn(t)
      PROVE  NoLostWakeup'
  <2>1. UNCHANGED slinks /\ call' = [call EXCEPT ![t] = Idle]
    BY <1>9 DEF AllocPublish, AllocPublishFails, WalkEnd, AccessReturn,
                SliceFails, ReallocReturn, FreeBody, AttachFails, ForkReturn,
                Leave
  <2> QED
    BY <1>6, <2>1 DEF IInv, TypeOK, Idle
<1>10. ASSUME NEW t \in Threads,
              \/ LockIt(t) \/ WalkHit(t)
              \/ \E c \in Cubes : WalkPast(t, c) \/ ForkLock(t, c)
       PROVE  NoLostWakeup'
  <2>1. /\ UNCHANGED slinks
        /\ call'[t].at # "wait"
        /\ \A u \in Threads \ {t} : call'[u] = call[u]
    BY <1>10 DEF LockIt, WalkHit, WalkPast, ForkLock, Goto, In,
                 IInv, TypeOK, Calls
  <2> QED
    BY <1>6, <2>1
<1>11. CASE UNCHANGED vars
  BY <1>11 DEF vars, NoLostWakeup
<1>12. ASSUME NEW t \in Threads, Continue(t)
       PROVE  NoLostWakeup'
  BY <1>1, <1>2, <1>3, <1>4, <1>5, <1>9, <1>10, <1>12 DEF Continue
<1> QED
  BY <1>7, <1>8, <1>11, <1>12 DEF Next

\* No thread sleeps in __access on a slice that is not in flight: the
\* completion that ends the flight wakes it, however the two interleave.
THEOREM NeverLostWakeup == Spec => []NoLostWakeup
<1>1. Init => NoLostWakeup
  BY DEF Init, NoLostWakeup, Idle
<1>2. IInv /\ NoLostWakeup /\ [Next]_vars => NoLostWakeup'
  BY WakeInv
<1> QED
  BY <1>1, <1>2, Invariance, PTL DEF Spec

\* Every live block has its backing file: only its disposal unlinks it, and
\* that of an inherited block leaves the file to the parent.
THEOREM AlwaysBacked == Spec => []BackedWhileLive
<1>1. Init => BackedWhileLive
  BY DEF Init, BackedWhileLive
<1>2. IInv /\ BackedWhileLive /\ [Next]_vars => BackedWhileLive'
  <2> SUFFICES ASSUME IInv, BackedWhileLive, [Next]_vars
               PROVE  BackedWhileLive'
    OBVIOUS
  <2> USE CubeAssumption
  <2>1. ASSUME NEW t \in Threads, Begin(t)
        PROVE  BackedWhileLive'
    <3>1. ASSUME NEW c \in Cubes, AllocMap(t, c) \/ AllocMapFails(t, c)
          PROVE  BackedWhileLive'
      BY <3>1 DEF AllocMap, AllocMapFails, BackedWhileLive, IInv, TypeOK
    <3>2. CASE UNCHANGED heap
      BY <3>2 DEF heap, BackedWhileLive
    <3> QED
      BY <2>1, <3>1, <3>2
         DEF Begin, BeginFree, BeginAccess, BeginSlice, BeginRealloc,
             AttachBegin, ForkBegin
  <2>2. ASSUME NEW t \in Threads, Complete(t)
        PROVE  BackedWhileLive'
    BY <2>2 DEF Complete, DetachBegin, heap, BackedWhileLive
  <2>3. ASSUME NEW t \in Threads, Continue(t)
        PROVE  BackedWhileLive'
    <3>1. CASE AllocPublishFails(t)
      BY <3>1 DEF AllocPublishFails, In, BackedWhileLive, IInv, TypeOK, OwnInv,
                  CallInv
    <3>2. ASSUME NEW c \in Cubes, Dispose(c)
          PROVE  BackedWhileLive'
      BY <3>2 DEF Dispose, Unlink, BackedWhileLive, IInv, TypeOK
    <3>3. CASE FreeBody(t)
      <4>1. call[t].cube \in Cubes
        BY <3>3 DEF FreeBody, In, IInv, CallInv
      <4>2. Dispose(call[t].cube) \/ UNCHANGED <<mem, files>>
        BY <3>3 DEF FreeBody, Defer
      <4> QED
        BY <3>2, <4>1, <4>2 DEF BackedWhileLive
    <3>4. CASE Detach(t)
      <4>1. slot[call[t].arg].cube \in Cubes
        BY <3>4 DEF Detach, In, IInv, TypeOK, Slices, CallInv, LinkInv
      <4>2. Dispose(slot[call[t].arg].cube) \/ UNCHANGED <<mem, files>>
        BY <3>4 DEF Detach, Defer
      <4> QED
        BY <3>2, <4>1, <4>2 DEF BackedWhileLive
    <3>5. CASE UNCHANGED heap
      BY <3>5 DEF heap, BackedWhileLive
    <3> QED
      BY <2>3, <3>1, <3>3, <3>4, <3>5
         DEF Continue, AllocPublish, LockIt, WalkHit, WalkEnd, WalkPast,
             ForkLock, AccessReturn, AccessWake, AccessWait, SliceReturn,
             SliceFails, ReallocReturn, Attach, AttachFails, ForkReturn
  <2>4. CASE UNCHANGED vars
    BY <2>4 DEF vars, heap, BackedWhileLive
  <2> QED
    BY <2>1, <2>2, <2>3, <2>4 DEF Next
<1> QED
  BY <1>1, <1>2, Invariance, PTL DEF Spec

-----------------------------------------------------------------------------
(* The locks: SomeoneRuns.                                                 *)

\* Whoever has a lock is where the code has taken it and not yet given it back:
\* the global mutex in a walk, the mutex of a block at that block or in fork.
\* (The converse is LockInv.)
LocksInv ==
  /\ it # NoThread => call[it].at = "walk"
  /\ \A c \in Cubes :
       LET u == mutex[c] IN
       u # NoThread =>
         \/ call[u].at = "body" /\ call[u].cube = c
         \/ call[u].op = "fork" /\ call[u].at = "walk" /\ c \in call[u].walk

\* A step that takes and gives back no lock, of a thread that has none.
LEMMA LocksFrame ==
  ASSUME TypeOK, LocksInv, UNCHANGED <<it, mutex>>,
         \A u \in Threads :
           call[u].at \in {"body", "walk"} =>
             /\ call'[u].at = call[u].at /\ call'[u].op = call[u].op
             /\ call'[u].cube = call[u].cube /\ call[u].walk \subseteq call'[u].walk
  PROVE  LocksInv'
BY DEF LocksInv, TypeOK

\* A thread that has a block's mutex and no other gives it back.
LEMMA UnlockFrame ==
  ASSUME IInv, LocksInv, NEW t \in Threads, call[t].at = "body",
         Unlock(call[t].cube), UNCHANGED it,
         \A u \in Threads \ {t} : call'[u] = call[u]
  PROVE  LocksInv'
<1>1. call[t].cube \in Cubes /\ it # t
  BY CubeAssumption DEF IInv, LockInv, LocksInv
<1>2. it # NoThread => it \in Threads \ {t}
  BY <1>1 DEF IInv, TypeOK
<1>3. \A c \in Cubes : mutex'[c] # NoThread =>
        mutex'[c] = mutex[c] /\ c # call[t].cube /\ mutex[c] \in Threads \ {t}
  BY <1>1 DEF Unlock, LocksInv, IInv, TypeOK
<1> QED
  BY <1>2, <1>3 DEF LocksInv

\* The first and the last steps of calls, attach and detach: no lock is held
\* before or after.
LEMMA LocksBegin ==
  ASSUME IInv, LocksInv, NEW t \in Threads, Begin(t) \/ Complete(t)
  PROVE  LocksInv'
<1>1. UNCHANGED <<it, mutex>>
  BY DEF Begin, Complete, AllocMap, AllocMapFails, BeginFree, BeginAccess,
         BeginSlice, BeginRealloc, AttachBegin, ForkBegin, DetachBegin
<1>2. /\ call[t].at = "idle"
      /\ \A u \in Threads \ {t} : call'[u] = call[u]
  BY DEF Begin, Complete, AllocMap, AllocMapFails, BeginFree, BeginAccess,
         BeginSlice, BeginRealloc, AttachBegin, ForkBegin, DetachBegin, Enter,
         IInv, TypeOK
<1> QED
  BY <1>1, <1>2, LocksFrame DEF IInv

\* The same of those that hold no lock in between.
LEMMA LocksElsewhere ==
  ASSUME IInv, LocksInv, NEW t \in Threads,
         \/ AllocPublish(t) \/ AllocPublishFails(t) \/ Attach(t)
         \/ AttachFails(t) \/ Detach(t) \/ AccessWake(t)
  PROVE  LocksInv'
<1>1. UNCHANGED <<it, mutex>>
  BY DEF AllocPublish, AllocPublishFails, Attach, AttachFails, Detach,
         AccessWake
<1>2. call[t].at \in {"lock", "mutex", "woken"}
  BY DEF AllocPublish, AllocPublishFails, Attach, AttachFails, Detach,
         AccessWake, In
<1>3. \A u \in Threads \ {t} :
        call[u].at # "wait" => call'[u] = call[u]
  BY DEF AllocPublish, AllocPublishFails, Attach, AttachFails, Detach,
         AccessWake, Leave, Goto, Broadcast, IInv, TypeOK
<1> QED
  BY <1>1, <1>2, <1>3, LocksFrame DEF IInv

\* The walk over the list, and fork.
LEMMA LocksWalk ==
  ASSUME IInv, LocksInv, NEW t \in Threads,
         \/ LockIt(t) \/ WalkHit(t) \/ WalkEnd(t) \/ ForkReturn(t)
         \/ \E c \in Cubes : WalkPast(t, c) \/ ForkLock(t, c)
  PROVE  LocksInv'
<1> USE CubeAssumption
<1>1. CASE LockIt(t)
  <2>1. /\ it' = t /\ UNCHANGED mutex
        /\ call[t].at = "lock" /\ call'[t].at = "walk"
        /\ \A u \in Threads \ {t} : call'[u] = call[u]
    BY <1>1 DEF LockIt, Goto, IInv, TypeOK, Calls
  <2> QED
    BY <2>1 DEF LocksInv, IInv, TypeOK
<1>2. CASE WalkHit(t)
  <2> DEFINE c == call[t].cube
  <2>1. /\ it' = NoThread /\ mutex' = [mutex EXCEPT ![c] = t]
        /\ call[t].op # "fork" /\ call[t].at = "walk" /\ c \in Cubes
        /\ call'[t].at = "body" /\ call'[t].cube = c
        /\ \A u \in Threads \ {t} : call'[u] = call[u]
    BY <1>2 DEF WalkHit, WalkOps, Lock, Goto, IInv, TypeOK, Calls
  <2> QED
    BY <2>1 DEF LocksInv, IInv, TypeOK
<1>3. CASE WalkEnd(t)
  <2>1. /\ it' = NoThread /\ UNCHANGED mutex
        /\ call[t].op # "fork" /\ call[t].at = "walk"
        /\ \A u \in Threads \ {t} : call'[u] = call[u]
    BY <1>3 DEF WalkEnd, WalkOps, Leave, IInv, TypeOK
  <2> QED
    BY <2>1 DEF LocksInv, IInv, TypeOK
<1>4. CASE ForkReturn(t)
  <2>1. /\ it' = NoThread /\ call[t].at = "walk" /\ cubes = call[t].walk
        /\ \A c \in Cubes : mutex'[c] = IF c \in cubes THEN NoThread ELSE mutex[c]
        /\ \A u \in Threads \ {t} : call'[u] = call[u]
    BY <1>4 DEF ForkReturn, In, Leave, IInv, TypeOK
  <2> QED
    BY <2>1 DEF LocksInv, IInv, TypeOK
<1>5. ASSUME NEW c \in Cubes, WalkPast(t, c)
      PROVE  LocksInv'
  <2>1. /\ UNCHANGED <<it, mutex>>
        /\ call'[t] = [call[t] EXCEPT !.walk = @ \cup {c}]
        /\ \A u \in Threads \ {t} : call'[u] = call[u]
    BY <1>5 DEF WalkPast, IInv, TypeOK
  <2>2. /\ call'[t].at = call[t].at /\ call'[t].op = call[t].op
        /\ call'[t].cube = call[t].cube /\ call[t].walk \subseteq call'[t].walk
    BY <2>1 DEF IInv, TypeOK, Calls
  <2> QED
    BY <2>1, <2>2, LocksFrame DEF IInv
<1>6. ASSUME NEW c \in Cubes, ForkLock(t, c)
      PROVE  LocksInv'
  <2>1. /\ UNCHANGED it /\ mutex' = [mutex EXCEPT ![c] = t]
        /\ call[t].op = "fork" /\ call[t].at = "walk"
        /\ call'[t] = [call[t] EXCEPT !.walk = @ \cup {c}]
        /\ \A u \in Threads \ {t} : call'[u] = call[u]
    BY <1>6 DEF ForkLock, In, Lock, IInv, TypeOK
  <2>2. /\ call'[t].at = "walk" /\ call'[t].op = "fork"
        /\ call'[t].walk = call[t].walk \cup {c}
    BY <2>1 DEF IInv, TypeOK, Calls
  <2> QED
    BY <2>1, <2>2 DEF LocksInv, IInv, TypeOK
<1> QED
  BY <1>1, <1>2, <1>3, <1>4, <1>5, <1>6

\* The calls that end at a block give its mutex back, unless __slice fails.
LEMMA LocksBody ==
  ASSUME IInv, LocksInv, NEW t \in Threads,
         \/ AccessReturn(t) \/ SliceReturn(t) \/ ReallocReturn(t) \/ FreeBody(t)
         \/ \E s \in slices : AccessWait(t, s)
  PROVE  LocksInv'
<1>1. call[t].at = "body" /\ Unlock(call[t].cube) /\ UNCHANGED it
  BY DEF AccessReturn, SliceReturn, ReallocReturn, FreeBody, AccessWait, In
<1>2. \A u \in Threads \ {t} : call'[u] = call[u]
  BY DEF AccessReturn, SliceReturn, ReallocReturn, FreeBody, AccessWait, Leave,
         IInv, TypeOK
<1> QED
  BY <1>1, <1>2, UnlockFrame

\* Every step leaves each lock with a thread that is about to give it back.
LEMMA LocksKept ==
  ASSUME IInv, LocksInv, ~SliceAllocFails, [Next]_vars
  PROVE  LocksInv'
<1>1. CASE UNCHANGED vars
  BY <1>1 DEF vars, LocksInv
<1>2. ASSUME NEW t \in Threads, Begin(t) \/ Complete(t)
      PROVE  LocksInv'
  BY <1>2, LocksBegin
<1>3. ASSUME NEW t \in Threads, Continue(t)
      PROVE  LocksInv'
  <2>1. ~SliceFails(t)
    BY DEF SliceFails
  <2> QED
    BY <1>3, <2>1, LocksElsewhere, LocksWalk, LocksBody DEF Continue
<1> QED
  BY <1>1, <1>2, <1>3, CubeAssumption DEF Next

\* Whoever is at a block can go on and gives its mutex back; if nobody is, the
\* only mutexes held are those fork has walked over, and whoever is in the walk
\* finds the others free; if nobody is there either, no lock is held at all.
LEMMA LocksFree ==
  ASSUME IInv, LocksInv
  PROVE  SomeoneRuns
<1> SUFFICES ASSUME NEW t \in Threads, call[t].at \notin {"idle", "wait"}
             PROVE  \E u \in Threads : Runs(u)
  BY DEF SomeoneRuns
<1>1. CASE \E u \in Threads : call[u].at = "body"
  BY <1>1 DEF Runs
<1>2. CASE /\ \A u \in Threads : call[u].at # "body"
           /\ \E u \in Threads : call[u].at = "walk"
  <2>1. PICK u \in Threads : call[u].at = "walk"
    BY <1>2
  <2>2. \A v \in Threads : call[v].at = "walk" => v = u
    BY <2>1 DEF IInv, LockInv
  <2>3. \A c \in Cubes \ call[u].walk : mutex[c] = NoThread
    BY <1>2, <2>2 DEF LocksInv, IInv, TypeOK
  <2> QED
    BY <2>1, <2>3 DEF Runs, IInv, TypeOK
<1>3. CASE \A u \in Threads : call[u].at \notin {"body", "walk"}
  <2>1. it = NoThread /\ \A c \in Cubes : mutex[c] = NoThread
    BY <1>3 DEF LocksInv, IInv, TypeOK
  <2>2. call[t].at \in {"mutex", "woken"} => call[t].cube \in Cubes
    BY DEF IInv, TypeOK, CallInv, LinkInv, Slices
  <2> QED
    BY <1>3, <2>1, <2>2 DEF Runs
<1> QED
  BY <1>1, <1>2, <1>3

\* No deadlock between the global mutex and those of the blocks, with any number
\* of threads and blocks, where __slice does not keep a mutex when it fails.
THEOREM NeverDeadlocked ==
  ASSUME ~SliceAllocFails
  PROVE  Spec => []SomeoneRuns
<1>1. Init => LocksInv
  BY DEF Init, LocksInv
<1>2. IInv /\ LocksInv /\ [Next]_vars => LocksInv'
  BY LocksKept
<1>3. IInv /\ LocksInv => SomeoneRuns
  BY LocksFree
<1> QED
  BY <1>1, <1>2, <1>3, Invariance, PTL DEF Spec
=============================================================================
