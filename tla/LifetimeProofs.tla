--------------------------- MODULE LifetimeProofs ---------------------------
(***************************************************************************)
(* Proof that Cube implements Lifetime, for any number of threads, blocks, *)
(* slices and links: a block is disposed of in the step that ends its last *)
(* use, whichever of inaccel_free and __detach that is.                    *)
(*                                                                         *)
(* The argument rests on the inductive invariant of CubeProofs: a listed   *)
(* block is live and mapped, so that the state of a block depends on mem,  *)
(* mapped and the call that is making it; and the count of a block is that *)
(* of its attached links, less one once it is unmapped, so that the test   *)
(* of the count is the test for the last use.                              *)
(***************************************************************************)
EXTENDS CubeLifetime, CubeProofs

\* The state of a block, by what is left of it.
LEMMA States ==
  ASSUME IInv, NEW c \in Cubes
  PROVE  /\ mem[c] = "freed" => StateOf(c) = "gone"
         /\ mem[c] = "none" => StateOf(c) = "none"
         /\ mem[c] = "live" /\ Unpublished(c) => StateOf(c) = "none"
         /\ mem[c] = "live" /\ ~Unpublished(c) =>
              StateOf(c) = IF c \in mapped THEN "owned" ELSE "freed"
<1>1. c \in cubes => mem[c] = "live" /\ c \in mapped /\ ~Unpublished(c)
  BY DEF IInv, OwnInv, Unpublished, In
<1>2. CASE c \in cubes
  BY <1>1, <1>2 DEF StateOf
<1>3. CASE c \notin cubes
  <2>1. mem[c] = "freed" => StateOf(c) = "gone"
    <3>1. Unpublished(c) => mem[c] = "live"
      BY CubeAssumption DEF IInv, OwnInv, Unpublished, In
    <3> QED
      BY <1>3, <3>1 DEF StateOf
  <2>2. mem[c] = "none" => StateOf(c) = "none"
    BY <1>3 DEF StateOf
  <2>3. mem[c] = "live" /\ Unpublished(c) => StateOf(c) = "none"
    BY <1>3 DEF StateOf
  <2>4. mem[c] = "live" /\ ~Unpublished(c) /\ c \in mapped => StateOf(c) = "owned"
    BY <1>3 DEF StateOf
  <2>5. mem[c] = "live" /\ ~Unpublished(c) /\ c \notin mapped => StateOf(c) = "freed"
    BY <1>3 DEF StateOf
  <2> QED
    BY <2>1, <2>2, <2>3, <2>4, <2>5
<1> QED
  BY <1>2, <1>3

\* The same in the next state.
LEMMA StatesNext ==
  IInv' => \A c \in Cubes :
    /\ mem'[c] = "freed" => StateOf(c)' = "gone"
    /\ mem'[c] = "none" => StateOf(c)' = "none"
    /\ mem'[c] = "live" /\ Unpublished(c)' => StateOf(c)' = "none"
    /\ mem'[c] = "live" /\ ~Unpublished(c)' =>
         StateOf(c)' = IF c \in mapped' THEN "owned" ELSE "freed"
<1>1. IInv => \A c \in Cubes :
        /\ mem[c] = "freed" => StateOf(c) = "gone"
        /\ mem[c] = "none" => StateOf(c) = "none"
        /\ mem[c] = "live" /\ Unpublished(c) => StateOf(c) = "none"
        /\ mem[c] = "live" /\ ~Unpublished(c) =>
             StateOf(c) = IF c \in mapped THEN "owned" ELSE "freed"
  BY States
<1>2. (IInv => \A c \in Cubes :
        /\ mem[c] = "freed" => StateOf(c) = "gone"
        /\ mem[c] = "none" => StateOf(c) = "none"
        /\ mem[c] = "live" /\ Unpublished(c) => StateOf(c) = "none"
        /\ mem[c] = "live" /\ ~Unpublished(c) =>
             StateOf(c) = IF c \in mapped THEN "owned" ELSE "freed")'
  BY <1>1, PTL
<1> QED
  BY <1>2

\* A block that is neither made, unmapped nor released keeps its state.
LEMMA StateFrame ==
  ASSUME IInv, IInv', NEW c \in Cubes,
         mem'[c] = mem[c], c \in mapped' <=> c \in mapped,
         Unpublished(c)' <=> Unpublished(c)
  PROVE  StateOf(c)' = StateOf(c)
<1>1. mem[c] \in {"none", "live", "freed"}
  BY DEF IInv, TypeOK
<1> QED
  BY <1>1, States, StatesNext

\* Only the call that makes a block says whether it is published.
LEMMA UnpublishedFrame ==
  ASSUME NEW t \in Threads, NEW c, call[t].cube = c => call[t].op # "alloc",
         call'[t].cube = c => call'[t].op # "alloc",
         \A u \in Threads \ {t} :
           /\ call'[u].op = call[u].op /\ call'[u].cube = call[u].cube
           /\ call[u].op = "alloc" => call'[u].at = call[u].at
  PROVE  Unpublished(c)' <=> Unpublished(c)
BY DEF Unpublished, In

\* A step that makes, unmaps and releases nothing, and moves no argument.
LEMMA StutterLife ==
  ASSUME IInv, IInv', NEW t \in Threads,
         UNCHANGED <<mem, mapped>>, call[t].op # "alloc", call'[t].op # "alloc",
         \A u \in Threads \ {t} : call'[u] = call[u],
         \A c \in Cubes : LinksOf(c)' = LinksOf(c)
  PROVE  UNCHANGED Life!lifetime
<1>1. \A c \in Cubes : StateOf(c)' = StateOf(c)
  BY UnpublishedFrame, StateFrame
<1> QED
  BY <1>1 DEF Life!lifetime

\* The block that t is making is not listed, not on loan, and in no other call.
Making(t, c) ==
  /\ c \in Cubes /\ call[t].cube = c /\ call[t].op = "alloc"
  /\ mem[c] = "live" /\ c \notin cubes /\ LinksOf(c) = {}
  /\ \A u \in Threads \ {t} : call[u].cube # c

\* inaccel_alloc, between the mapping of a block and its listing, is at one.
LEMMA MakingBlock ==
  ASSUME IInv, NEW t \in Threads, In(t, "alloc", "lock")
  PROVE  Making(t, call[t].cube) /\ StateOf(call[t].cube) = "none"
<1>1. PICK c \in Cubes : c = call[t].cube
  BY DEF IInv, CallInv, In
<1>2. Making(t, c)
  BY <1>1, CubeAssumption DEF IInv, OwnInv, LinkInv, In, Making, LinksOf, TypeOK
<1>3. Unpublished(c)
  BY <1>1 DEF Unpublished
<1> QED
  BY <1>1, <1>2, <1>3, States DEF Making

\* inaccel_alloc makes a block where it lists it, or gives up.
LEMMA AllocLife ==
  ASSUME IInv, IInv', NEW t \in Threads,
         AllocPublish(t) \/ AllocPublishFails(t)
  PROVE  Life!Make(call[t].cube)
<1>1. PICK c \in Cubes : c = call[t].cube /\ Making(t, c) /\ StateOf(c) = "none"
  BY MakingBlock DEF AllocPublish, AllocPublishFails, Making
<1>2. /\ call'[t].op = "none" /\ \A u \in Threads \ {t} : call'[u] = call[u]
      /\ UNCHANGED <<slot, att>>
      /\ \A d \in Cubes \ {c} :
           mem'[d] = mem[d] /\ (d \in mapped' <=> d \in mapped)
  BY <1>1 DEF AllocPublish, AllocPublishFails, Leave, heap, Idle, IInv, TypeOK
<1>3. \A d \in Cubes \ {c} : StateOf(d)' = StateOf(d)
  BY <1>1, <1>2, UnpublishedFrame, StateFrame
<1>4. StateOf(c)' = "owned" \/ StateOf(c)' = "gone"
  <2>1. CASE AllocPublish(t)
    BY <1>1, <2>1 DEF AllocPublish, StateOf
  <2>2. CASE AllocPublishFails(t)
    BY <1>1, <2>2, StatesNext DEF AllocPublishFails, IInv, TypeOK
  <2> QED
    BY <2>1, <2>2
<1>5. \A d \in Cubes : LinksOf(d)' = LinksOf(d)
  BY <1>2, LinksFrame
<1> QED
  BY <1>1, <1>3, <1>4, <1>5 DEF Life!Make, Life!Become

\* inaccel_alloc begins: nobody knows the block.
LEMMA AllocMapLife ==
  ASSUME IInv, IInv', NEW t \in Threads, NEW c \in Cubes, AllocMap(t, c)
  PROVE  UNCHANGED Life!lifetime
<1>1. /\ call[t].op = "none"
      /\ call'[t].op = "alloc" /\ call'[t].at = "lock" /\ call'[t].cube = c
      /\ \A u \in Threads \ {t} : call'[u] = call[u]
      /\ mem[c] = "none" /\ mem'[c] = "live"
      /\ \A d \in Cubes \ {c} :
           mem'[d] = mem[d] /\ (d \in mapped' <=> d \in mapped)
  BY DEF AllocMap, Enter, IInv, TypeOK, CallInv
<1>2. \A d \in Cubes \ {c} : StateOf(d)' = StateOf(d)
  BY <1>1, UnpublishedFrame, StateFrame
<1>3. StateOf(c) = "none"
  BY <1>1, States
<1>4. StateOf(c)' = "none"
  BY <1>1, StatesNext DEF Unpublished, In
<1>5. \A d \in Cubes : LinksOf(d)' = LinksOf(d)
  BY LinksFrame DEF AllocMap
<1> QED
  BY <1>2, <1>3, <1>4, <1>5 DEF Life!lifetime

\* inaccel_alloc fails before anybody knows the block.
LEMMA AllocMapFailsLife ==
  ASSUME IInv, IInv', NEW t \in Threads, NEW c \in Cubes, AllocMapFails(t, c)
  PROVE  Life!Make(c)
<1>1. /\ UNCHANGED <<call, mapped>>
      /\ mem[c] = "none" /\ mem'[c] = "freed"
      /\ \A d \in Cubes \ {c} : mem'[d] = mem[d]
  BY DEF AllocMapFails, IInv, TypeOK
<1>2. \A d \in Cubes : Unpublished(d)' <=> Unpublished(d)
  BY <1>1 DEF Unpublished, In
<1>3. \A d \in Cubes \ {c} : StateOf(d)' = StateOf(d)
  BY <1>1, <1>2, StateFrame
<1>4. StateOf(c) = "none" /\ StateOf(c)' = "gone"
  BY <1>1, States, StatesNext
<1>5. \A d \in Cubes : LinksOf(d)' = LinksOf(d)
  BY LinksFrame DEF AllocMapFails
<1> QED
  BY <1>3, <1>4, <1>5 DEF Life!Make, Life!Become

\* inaccel_free disposes of a block just when it is not on loan.
LEMMA FreeLife ==
  ASSUME IInv, IInv', NEW t \in Threads, FreeBody(t)
  PROVE  Life!Free(call[t].cube)
<1>1. PICK c \in Cubes : c = call[t].cube
  BY DEF FreeBody, In, IInv, CallInv
<1>2. c \in mapped /\ mem[c] = "live" /\ ~Unpublished(c)
  BY <1>1, CubeAssumption DEF FreeBody, In, IInv, TypeOK, CallInv, OwnInv,
                              Unpublished
<1>3. StateOf(c) = "owned"
  BY <1>2, States
<1>4. c \in Foreign \/ LastReference(c) <=> LinksOf(c) = {}
  <2>1. c \in Foreign => LinksOf(c) = {}
    BY DEF IInv, TypeOK, LinkInv, LinksOf
  <2>2. c \notin Foreign => nlinks[c] = Cardinality(LinksOf(c)) - 0
    BY <1>2 DEF IInv, CountInv
  <2>3. Cardinality(LinksOf(c)) \in Nat
    BY LinksFinite DEF IInv
  <2>4. Cardinality(LinksOf(c)) = 0 <=> LinksOf(c) = {}
    BY LinksFinite, FS_EmptySet DEF IInv
  <2> QED
    BY <2>1, <2>2, <2>3, <2>4 DEF LastReference
<1>5. /\ mem' = IF LinksOf(c) = {} THEN [mem EXCEPT ![c] = "freed"] ELSE mem
      /\ mapped' = mapped \ {c}
      /\ call'[t].op = "none" /\ call[t].op = "free"
      /\ \A u \in Threads \ {t} : call'[u] = call[u]
      /\ UNCHANGED <<slot, att>>
  BY <1>1, <1>4
     DEF FreeBody, In, Dispose, Defer, Leave, Idle, IInv, TypeOK
<1>6. \A d \in Cubes \ {c} : StateOf(d)' = StateOf(d)
  <2>1. \A d \in Cubes \ {c} :
          mem'[d] = mem[d] /\ (d \in mapped' <=> d \in mapped)
    BY <1>5 DEF IInv, TypeOK
  <2> QED
    BY <1>5, <2>1, UnpublishedFrame, StateFrame
<1>7. ~Unpublished(c)'
  BY <1>2, <1>5, UnpublishedFrame
<1>8. StateOf(c)' = IF LinksOf(c) = {} THEN "gone" ELSE "freed"
  BY <1>2, <1>5, <1>7, StatesNext DEF IInv, TypeOK
<1>9. \A d \in Cubes : LinksOf(d)' = LinksOf(d)
  BY <1>5, LinksFrame
<1> QED
  BY <1>1, <1>3, <1>6, <1>8, <1>9 DEF Life!Free, Life!Become

\* __attach lends a block the application has.
LEMMA AttachLife ==
  ASSUME IInv, IInv', NEW t \in Threads, Attach(t)
  PROVE  Life!Lend(call[t].cube, call[t].arg)
<1>1. PICK c, l : c = call[t].cube /\ l = call[t].arg
  OBVIOUS
<1>2. /\ l \in Links \ att /\ slot[l] \in slices /\ slot[l].cube = c
      /\ c \in Cubes /\ c \in owned
  BY <1>1, CubeAssumption
     DEF Attach, In, IInv, TypeOK, CallInv, OwnInv, LinkInv, Slices
<1>3. c \in cubes /\ StateOf(c) = "owned"
  BY <1>2 DEF IInv, OwnInv, StateOf
<1>4. \A d \in Cubes : l \notin LinksOf(d)
  BY <1>2 DEF LinksOf
<1>5. /\ UNCHANGED <<mem, mapped, slot>> /\ att' = att \cup {l}
      /\ call'[t].op = "none" /\ call[t].op = "attach"
      /\ \A u \in Threads \ {t} : call'[u] = call[u]
  BY <1>1 DEF Attach, In, Leave, heap, Idle, IInv, TypeOK
<1>6. \A d \in Cubes : StateOf(d)' = StateOf(d)
  BY <1>5, UnpublishedFrame, StateFrame
<1>7. \A d \in Cubes :
        LinksOf(d)' = IF d = c THEN LinksOf(d) \cup {l} ELSE LinksOf(d)
  BY <1>2, <1>5 DEF LinksOf
<1> QED
  BY <1>1, <1>2, <1>3, <1>4, <1>6, <1>7 DEF Life!Lend

\* __detach disposes of a freed block just when nothing else is on loan.
LEMMA DetachLife ==
  ASSUME IInv, IInv', NEW t \in Threads, Detach(t)
  PROVE  Life!Return(call[t].cube, call[t].arg)
<1>1. PICK c, l : c = call[t].cube /\ l = call[t].arg
  OBVIOUS
<1>2. /\ l \in Links /\ l \in att /\ slot[l] \in slices /\ slot[l].cube = c
      /\ c \in Cubes \ Foreign /\ mem[c] = "live"
  <2>1. call[t].op = "detach" /\ call[t].at = "mutex"
    BY DEF Detach, In
  <2>2. l \in Links
    BY <1>1, <2>1 DEF IInv, CallInv
  <2>3. l \in att /\ slot[l] # NoSlice /\ slot[l].cube = c
    BY <1>1, <2>1 DEF IInv, LinkInv
  <2>4. slot[l] \in slices /\ c \notin Foreign /\ mem[c] = "live"
    BY <2>2, <2>3 DEF IInv, LinkInv
  <2>5. c \in Cubes
    BY <2>3, <2>4 DEF IInv, TypeOK, Slices
  <2> QED
    BY <2>2, <2>3, <2>4, <2>5
<1>3. l \in LinksOf(c)
  BY <1>2 DEF LinksOf
<1>4. /\ call'[t].op = "none" /\ call[t].op = "detach"
      /\ \A u \in Threads \ {t} :
           /\ call'[u].op = call[u].op /\ call'[u].cube = call[u].cube
           /\ call[u].op = "alloc" => call'[u].at = call[u].at
  <2>1. \A u \in Threads : call[u].op = "alloc" => call[u].at # "wait"
    BY DEF IInv, CallInv
  <2> QED
    BY <2>1 DEF Detach, In, Broadcast, Idle, IInv, TypeOK, Calls
<1>5. \A d \in Cubes : Unpublished(d)' <=> Unpublished(d)
  BY <1>4, UnpublishedFrame
<1>6. ~Unpublished(c)
  BY <1>2 DEF Unpublished, In, IInv, OwnInv
<1>7. \A d \in Cubes :
        LinksOf(d)' = IF d = c THEN LinksOf(d) \ {l} ELSE LinksOf(d)
  <2>1. att' = att \ {l} /\ slot' = [slot EXCEPT ![l] = NoSlice]
    BY <1>1 DEF Detach
  <2> QED
    BY <1>2, <2>1 DEF LinksOf, IInv, TypeOK
<1>8. LastReference(c) <=> c \notin mapped /\ LinksOf(c) = {l}
  <2>1. /\ IsFiniteSet(LinksOf(c)) /\ Cardinality(LinksOf(c)) \in Nat
        /\ nlinks[c] = Cardinality(LinksOf(c)) - (IF c \in mapped THEN 0 ELSE 1)
    BY <1>2, LinksFinite DEF IInv, CountInv
  <2>2. /\ Cardinality(LinksOf(c) \ {l}) = Cardinality(LinksOf(c)) - 1
        /\ IsFiniteSet(LinksOf(c) \ {l})
    BY <1>3, <2>1, FS_RemoveElement
  <2>3. Cardinality(LinksOf(c) \ {l}) = 0 <=> LinksOf(c) \ {l} = {}
    BY <2>2, FS_EmptySet
  <2>4. LinksOf(c) \ {l} = {} <=> LinksOf(c) = {l}
    BY <1>3
  <2>5. Cardinality(LinksOf(c)) # 0
    BY <1>3, <2>1, FS_EmptySet
  <2> QED
    BY <2>1, <2>2, <2>3, <2>4, <2>5 DEF LastReference
<1>9. /\ mem' = IF LastReference(c) THEN [mem EXCEPT ![c] = "freed"] ELSE mem
      /\ mapped' = mapped
  BY <1>1, <1>2 DEF Detach, Dispose, Defer
<1>10. \A d \in Cubes \ {c} : StateOf(d)' = StateOf(d)
  BY <1>5, <1>9, StateFrame DEF IInv, TypeOK
<1>11. StateOf(c) = IF c \in mapped THEN "owned" ELSE "freed"
  BY <1>2, <1>6, States
<1>12. StateOf(c)' = IF LastReference(c) THEN "gone" ELSE StateOf(c)
  BY <1>2, <1>5, <1>6, <1>9, <1>11, StatesNext DEF IInv, TypeOK
<1> QED
  BY <1>1, <1>2, <1>3, <1>7, <1>8, <1>10, <1>11, <1>12
     DEF Life!Return, Life!Become

\* What a call starts with is no step of a block, except where inaccel_alloc
\* fails at once.
LEMMA BeginLife ==
  ASSUME IInv, IInv', NEW t \in Threads, Begin(t)
  PROVE  Life!Next \/ UNCHANGED Life!lifetime
<1>1. ASSUME NEW c \in Cubes, AllocMap(t, c) \/ AllocMapFails(t, c)
      PROVE  Life!Next \/ UNCHANGED Life!lifetime
  BY <1>1, AllocMapLife, AllocMapFailsLife DEF Life!Next
<1>2. ASSUME NEW l \in Links, NEW s \in slices, AttachBegin(t, l, s)
      PROVE  UNCHANGED Life!lifetime
  <2>1. l \notin att
    BY <1>2 DEF AttachBegin, IInv, LinkInv
  <2>2. \A c \in Cubes : LinksOf(c)' = LinksOf(c)
    BY <1>2, <2>1, SlotFrame DEF AttachBegin, IInv
  <2>3. /\ call[t].op # "alloc" /\ call'[t].op # "alloc"
        /\ \A u \in Threads \ {t} : call'[u] = call[u]
    BY <1>2 DEF AttachBegin, Enter, IInv, TypeOK, CallInv
  <2> QED
    BY <1>2, <2>2, <2>3, StutterLife DEF AttachBegin, heap
<1>3. ASSUME UNCHANGED <<heap, slot, att>>,
             NEW op \in Ops \ {"alloc"}, NEW at, NEW c, NEW x,
             Enter(t, op, at, c, x)
      PROVE  UNCHANGED Life!lifetime
  <2>1. /\ call[t].op # "alloc" /\ call'[t].op # "alloc"
        /\ \A u \in Threads \ {t} : call'[u] = call[u]
    BY <1>3 DEF Enter, IInv, TypeOK, CallInv
  <2> QED
    BY <1>3, <2>1, LinksFrame, StutterLife DEF heap
<1> QED
  BY <1>1, <1>2, <1>3
     DEF Begin, BeginFree, BeginAccess, BeginSlice, BeginRealloc, ForkBegin, Ops

\* Of the steps of a call, a block is made, freed, lent and returned in one each.
LEMMA ContinueLife ==
  ASSUME IInv, IInv', NEW t \in Threads, Continue(t)
  PROVE  Life!Next \/ UNCHANGED Life!lifetime
<1>1. CASE AllocPublish(t) \/ AllocPublishFails(t)
  BY <1>1, AllocLife, MakingBlock
     DEF AllocPublish, AllocPublishFails, Making, Life!Next
<1>2. CASE FreeBody(t)
  BY <1>2, FreeLife DEF FreeBody, In, IInv, CallInv, Life!Next
<1>3. CASE Attach(t) \/ Detach(t)
  <2>1. call[t].arg \in Links /\ call[t].cube \in Cubes
    BY <1>3, CubeAssumption
       DEF Attach, Detach, In, IInv, TypeOK, CallInv, LinkInv, Slices
  <2> QED
    BY <1>3, <2>1, AttachLife, DetachLife DEF Life!Next
<1>4. CASE AttachFails(t)
  <2>1. /\ call[t].op = "attach" /\ call'[t].op = "none"
        /\ \A u \in Threads \ {t} : call'[u] = call[u]
    BY <1>4 DEF AttachFails, In, Leave, Idle, IInv, TypeOK
  <2>2. \A c \in Cubes : LinksOf(c)' = LinksOf(c)
    BY <1>4, <2>1, SlotFrame DEF AttachFails, In, IInv, CallInv, LinkInv
  <2> QED
    BY <1>4, <2>1, <2>2, StutterLife DEF AttachFails, heap
<1>5. ASSUME UNCHANGED <<heap, slot, att>>,
             call[t].op # "alloc", call'[t].op # "alloc",
             \A u \in Threads \ {t} : call'[u] = call[u]
      PROVE  UNCHANGED Life!lifetime
  BY <1>5, LinksFrame, StutterLife DEF heap
<1>6. CASE LockIt(t) \/ WalkHit(t)
  <2>1. /\ call[t].op # "alloc" /\ call'[t].op = call[t].op
        /\ \A u \in Threads \ {t} : call'[u] = call[u]
    BY <1>6 DEF LockIt, WalkHit, Goto, WalkOps, IInv, TypeOK, Calls
  <2> QED
    BY <1>5, <1>6, <2>1 DEF LockIt, WalkHit
<1>7. ASSUME NEW c \in Cubes, WalkPast(t, c) \/ ForkLock(t, c)
      PROVE  UNCHANGED Life!lifetime
  <2>1. /\ call[t].op # "alloc" /\ call'[t].op = call[t].op
        /\ \A u \in Threads \ {t} : call'[u] = call[u]
    BY <1>7 DEF WalkPast, ForkLock, In, WalkOps, IInv, TypeOK, Calls
  <2> QED
    BY <1>5, <1>7, <2>1 DEF WalkPast, ForkLock
<1>8. CASE \/ WalkEnd(t) \/ AccessReturn(t) \/ SliceReturn(t) \/ SliceFails(t)
           \/ ReallocReturn(t) \/ ForkReturn(t)
  <2>1. Leave(t) /\ call[t].op # "alloc"
    BY <1>8 DEF WalkEnd, AccessReturn, SliceReturn, SliceFails, ReallocReturn,
                ForkReturn, In, WalkOps
  <2>2. /\ call'[t].op # "alloc"
        /\ \A u \in Threads \ {t} : call'[u] = call[u]
    BY <2>1 DEF Leave, Idle, IInv, TypeOK
  <2> QED
    BY <1>5, <1>8, <2>1, <2>2
       DEF WalkEnd, AccessReturn, SliceReturn, SliceFails, ReallocReturn,
           ForkReturn
<1>9. ASSUME AccessWake(t) \/ \E s \in slices : AccessWait(t, s)
      PROVE  UNCHANGED Life!lifetime
  <2>1. /\ call[t].op = "access" /\ call'[t].op \in {"access", "none"}
        /\ \A u \in Threads \ {t} : call'[u] = call[u]
    BY <1>9 DEF AccessWake, AccessWait, Goto, Leave, In, Idle, IInv, TypeOK, Calls
  <2> QED
    BY <1>5, <1>9, <2>1 DEF AccessWake, AccessWait
<1> QED
  BY <1>1, <1>2, <1>3, <1>4, <1>6, <1>7, <1>8, <1>9 DEF Continue

\* The blocks of the library are those of Lifetime, for any interleaving of the
\* calls and of the completions: none is disposed of with an argument in flight,
\* forgotten once nobody uses it, lent when it was freed, or brought back.
THEOREM CubeImplementsLifetime == Spec => ImplementsLifetime
<1>1. Init => Life!Init
  <2> SUFFICES ASSUME Init
               PROVE  Life!Init
    OBVIOUS
  <2>1. \A c \in Cubes : StateOf(c) \in {"none", "owned"}
    BY DEF Init, StateOf
  <2>2. \A c \in Cubes : LinksOf(c) = {}
    BY DEF Init, LinksOf
  <2> QED
    BY <2>1, <2>2 DEF Life!Init
<1>2. IInv /\ IInv' /\ [Next]_vars => [Life!Next]_(Life!lifetime)
  <2> SUFFICES ASSUME IInv, IInv', [Next]_vars
               PROVE  Life!Next \/ UNCHANGED Life!lifetime
    OBVIOUS
  <2>1. ASSUME NEW t \in Threads, Complete(t)
        PROVE  UNCHANGED Life!lifetime
    <3>1. /\ UNCHANGED <<heap, slot, att>>
          /\ call[t].op = "none" /\ call'[t].op = "detach"
          /\ \A u \in Threads \ {t} : call'[u] = call[u]
      BY <2>1 DEF Complete, DetachBegin, Enter, IInv, TypeOK, CallInv
    <3> QED
      BY <3>1, LinksFrame, StutterLife DEF heap
  <2>2. CASE UNCHANGED vars
    <3>1. \A c \in Cubes : Unpublished(c)' <=> Unpublished(c)
      BY <2>2 DEF vars, Unpublished, In
    <3>2. \A c \in Cubes : StateOf(c)' = StateOf(c)
      BY <2>2, <3>1, StateFrame DEF vars, heap
    <3> QED
      BY <2>2, <3>2, LinksFrame DEF vars, Life!lifetime
  <2> QED
    BY <2>1, <2>2, BeginLife, ContinueLife, CubeAssumption DEF Next
<1> QED
  BY <1>1, <1>2, Invariance, PTL DEF Spec, ImplementsLifetime, Life!Spec

=============================================================================
