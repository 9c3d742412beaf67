---------------------------- MODULE CoralProofs ----------------------------
(***************************************************************************)
(* Proofs about module Coral, for any number of threads, waiters, blocks,  *)
(* responses and arguments: rpc.cpp and cube.c together are still each     *)
(* what module Rpc and module Cube say, and the arrays of a call are the   *)
(* accelerator's for just as long as it may work on them.                  *)
(*                                                                         *)
(* The theorems about the parts are used as they stand, at the state of    *)
(* the part.  What the composition adds to their invariants is who is in   *)
(* which call: a thread that attaches is in a submission with an argument  *)
(* left, one that detaches is at a response with one left, and the link    *)
(* was made for that response.  That is what makes the links of a response *)
(* as many as rpc.cpp believes.  And requests name slices of blocks the    *)
(* application still has, so that what is attached is there.               *)
(***************************************************************************)
EXTENDS Coral, FiniteSetTheorems, SequenceTheorems, TLAPS

CP == INSTANCE CubeProofs WITH
  Threads <- Threads \cup Waiters, Foreign <- {}, SliceAllocFails <- FALSE

RP == INSTANCE RpcProofs WITH
  it <- qit, mem <- rmem, owned <- rowned, mutex <- rmutex, call <- rcall,
  held <- [r \in Responses |-> Cardinality(ArraysOf(r))],
  Arrays <- 0 .. MaxArgs, Forked <- FALSE

-----------------------------------------------------------------------------
(* The parts, and what is proved of them.                                  *)

\* What the parts assume of their constants.
LEMMA PartsAssumed == CP!CubeAssumption /\ RP!RpcAssumption
<1>1. CP!IsFiniteSet(Links)
  BY CoralAssumption DEF CP!IsFiniteSet, IsFiniteSet
<1>2. CP!Slices = [cube : Cubes, region : Regions]
  BY DEF CP!Slices
<1>3. 0 .. MaxArgs \subseteq Nat
  BY CoralAssumption
<1> QED
  BY <1>1, <1>2, <1>3, CoralAssumption DEF CP!CubeAssumption, RP!RpcAssumption

\* The count of a set is the same one wherever it is taken.
LEMMA SameCount ==
  ASSUME NEW S
  PROVE  CP!Cardinality(S) = Cardinality(S)
BY DEF CP!Cardinality, Cardinality

\* Cube as Coral has it is the Cube the proofs are about.
LEMMA SameCube ==
  /\ C!Init <=> CP!Init
  /\ C!Next <=> CP!Next
  /\ UNCHANGED C!vars <=> UNCHANGED CP!vars
<1>1. C!Init <=> CP!Init
  BY DEF
       C!Init, CP!Init, C!Slices, CP!Slices, C!Idle, CP!Idle, C!Cardinality,
       CP!Cardinality, C!IsFiniteSet, CP!IsFiniteSet
<1>2. UNCHANGED C!vars <=> UNCHANGED CP!vars
  BY DEF
       C!vars, CP!vars, C!heap, CP!heap
<1>3. \A t : C!Begin(t) <=> CP!Begin(t)
  BY DEF
       C!Begin, CP!Begin, C!AllocMap, CP!AllocMap, C!AllocMapFails,
       CP!AllocMapFails, C!BeginFree, CP!BeginFree, C!Users, CP!Users,
       C!BeginAccess, CP!BeginAccess, C!BeginSlice, CP!BeginSlice,
       C!BeginRealloc, CP!BeginRealloc, C!AttachBegin, CP!AttachBegin,
       C!ForkBegin, CP!ForkBegin, C!heap, CP!heap, C!Enter, CP!Enter
<1>4. \A t : C!Complete(t) <=> CP!Complete(t)
  BY DEF
       C!Complete, CP!Complete, C!DetachBegin, CP!DetachBegin, C!heap, CP!heap,
       C!Enter, CP!Enter
<1>5. \A t : C!AllocPublish(t) <=> CP!AllocPublish(t)
  BY DEF
       C!AllocPublish, CP!AllocPublish, C!In, CP!In, C!Leave, CP!Leave, C!Idle,
       CP!Idle, C!heap, CP!heap
<1>6. \A t : C!AllocPublishFails(t) <=> CP!AllocPublishFails(t)
  BY DEF
       C!AllocPublishFails, CP!AllocPublishFails, C!In, CP!In, C!Leave,
       CP!Leave, C!Idle, CP!Idle
<1>7. \A t : C!LockIt(t) <=> CP!LockIt(t)
  BY DEF
       C!LockIt, CP!LockIt, C!WalkOps, CP!WalkOps, C!Goto, CP!Goto, C!heap,
       CP!heap
<1>8. \A t : C!WalkHit(t) <=> CP!WalkHit(t)
  BY DEF
       C!WalkHit, CP!WalkHit, C!WalkOps, CP!WalkOps, C!Lock, CP!Lock, C!Goto,
       CP!Goto, C!heap, CP!heap
<1>9. \A t : C!WalkEnd(t) <=> CP!WalkEnd(t)
  BY DEF
       C!WalkEnd, CP!WalkEnd, C!WalkOps, CP!WalkOps, C!Leave, CP!Leave, C!Idle,
       CP!Idle, C!heap, CP!heap
<1>10. \A t : C!AccessReturn(t) <=> CP!AccessReturn(t)
  BY DEF
       C!AccessReturn, CP!AccessReturn, C!In, CP!In, C!Hit, CP!Hit, C!Near,
       CP!Near, C!SlicesOf, CP!SlicesOf, C!InFlight, CP!InFlight, C!Unlock,
       CP!Unlock, C!Leave, CP!Leave, C!Idle, CP!Idle, C!heap, CP!heap
<1>11. \A t : C!AccessWake(t) <=> CP!AccessWake(t)
  BY DEF
       C!AccessWake, CP!AccessWake, C!In, CP!In, C!InFlight, CP!InFlight,
       C!Goto, CP!Goto, C!Leave, CP!Leave, C!Idle, CP!Idle, C!heap, CP!heap
<1>12. \A t : C!SliceReturn(t) <=> CP!SliceReturn(t)
  BY DEF
       C!SliceReturn, CP!SliceReturn, C!In, CP!In, C!Unlock, CP!Unlock,
       C!Leave, CP!Leave, C!Idle, CP!Idle, C!heap, CP!heap
<1>13. \A t : C!SliceFails(t) <=> CP!SliceFails(t)
  BY DEF
       C!SliceFails, CP!SliceFails, C!In, CP!In, C!Leave, CP!Leave, C!Idle,
       CP!Idle, C!heap, CP!heap
<1>14. \A t : C!ReallocReturn(t) <=> CP!ReallocReturn(t)
  BY DEF
       C!ReallocReturn, CP!ReallocReturn, C!In, CP!In, C!Unlock, CP!Unlock,
       C!Leave, CP!Leave, C!Idle, CP!Idle, C!heap, CP!heap
<1>15. \A t : C!FreeBody(t) <=> CP!FreeBody(t)
  BY DEF
       C!FreeBody, CP!FreeBody, C!In, CP!In, C!LastReference, CP!LastReference,
       C!Dispose, CP!Dispose, C!Defer, CP!Defer, C!Unlink, CP!Unlink,
       C!SlicesOf, CP!SlicesOf, C!Unlock, CP!Unlock, C!Leave, CP!Leave, C!Idle,
       CP!Idle
<1>16. \A t : C!Attach(t) <=> CP!Attach(t)
  BY DEF
       C!Attach, CP!Attach, C!In, CP!In, C!Link, CP!Link, C!Leave, CP!Leave,
       C!Idle, CP!Idle, C!heap, CP!heap
<1>17. \A t : C!AttachFails(t) <=> CP!AttachFails(t)
  BY DEF
       C!AttachFails, CP!AttachFails, C!In, CP!In, C!Leave, CP!Leave, C!Idle,
       CP!Idle, C!heap, CP!heap
<1>18. \A t : C!Detach(t) <=> CP!Detach(t)
  BY DEF
       C!Detach, CP!Detach, C!In, CP!In, C!LastReference, CP!LastReference,
       C!Dispose, CP!Dispose, C!Defer, CP!Defer, C!Unlink, CP!Unlink,
       C!SlicesOf, CP!SlicesOf, C!Broadcast, CP!Broadcast, C!Idle, CP!Idle
<1>19. \A t : C!ForkReturn(t) <=> CP!ForkReturn(t)
  BY DEF
       C!ForkReturn, CP!ForkReturn, C!In, CP!In, C!Leave, CP!Leave, C!Idle,
       CP!Idle, C!heap, CP!heap
<1>20. \A t, x : C!WalkPast(t, x) <=> CP!WalkPast(t, x)
  BY DEF
       C!WalkPast, CP!WalkPast, C!WalkOps, CP!WalkOps, C!heap, CP!heap
<1>21. \A t, x : C!ForkLock(t, x) <=> CP!ForkLock(t, x)
  BY DEF
       C!ForkLock, CP!ForkLock, C!In, CP!In, C!Lock, CP!Lock, C!heap, CP!heap
<1>22. \A t, x : C!AccessWait(t, x) <=> CP!AccessWait(t, x)
  BY DEF
       C!AccessWait, CP!AccessWait, C!In, CP!In, C!Hit, CP!Hit, C!Near,
       CP!Near, C!SlicesOf, CP!SlicesOf, C!InFlight, CP!InFlight, C!Unlock,
       CP!Unlock, C!heap, CP!heap
<1>23. \A t : C!Continue(t) <=> CP!Continue(t)
  BY <1>5, <1>6, <1>7, <1>8, <1>9, <1>10, <1>11, <1>12, <1>13, <1>14,
     <1>15, <1>16, <1>17, <1>18, <1>19, <1>20, <1>21, <1>22
     DEF C!Continue, CP!Continue
<1> QED
  BY <1>1, <1>2, <1>3, <1>4, <1>23 DEF C!Next, CP!Next

\* And so is Rpc.
LEMMA SameRpc ==
  /\ R!Init <=> RP!Init
  /\ R!Next <=> RP!Next
  /\ UNCHANGED R!vars <=> UNCHANGED RP!vars
<1>1. R!Init <=> RP!Init
  BY DEF
       R!Init, RP!Init, R!Idle, RP!Idle, R!Resting, RP!Resting
<1>2. UNCHANGED R!vars <=> UNCHANGED RP!vars
  BY DEF
       R!vars, RP!vars, R!queue, RP!queue, R!resp, RP!resp, R!grpc, RP!grpc
<1>3. \A r : R!Create(r) <=> RP!Create(r)
  BY DEF
       R!Create, RP!Create, R!queue, RP!queue, R!grpc, RP!grpc
<1>4. \A r : R!Release(r) <=> RP!Release(r)
  BY DEF
       R!Release, RP!Release, R!ReleaseNow, RP!ReleaseNow, R!InUse, RP!InUse,
       R!Broadcast, RP!Broadcast, R!queue, RP!queue, R!grpc, RP!grpc
<1>5. \A r : R!Answer(r) <=> RP!Answer(r)
  BY DEF
       R!Answer, RP!Answer, R!queue, RP!queue, R!resp, RP!resp
<1>6. \A t : R!Begin(t) <=> RP!Begin(t)
  BY DEF
       R!Begin, RP!Begin, R!BeginSubmit, RP!BeginSubmit, R!BeginWait,
       RP!BeginWait, R!InUse, RP!InUse, R!Idle, RP!Idle, R!queue, RP!queue,
       R!resp, RP!resp, R!grpc, RP!grpc
<1>7. \A t : R!Continue(t) <=> RP!Continue(t)
  BY DEF
       R!Continue, RP!Continue, R!In, RP!In, R!Goto, RP!Goto, R!Return,
       RP!Return, R!Idle, RP!Idle, R!Fail, RP!Fail, R!Hold, RP!Hold, R!Started,
       RP!Started, R!Attach, RP!Attach, R!AttachFails, RP!AttachFails, R!Copy,
       RP!Copy, R!Throw, RP!Throw, R!Queue, RP!Queue, R!DaemonFails,
       RP!DaemonFails, R!QueueThrows, RP!QueueThrows, R!Start, RP!Start,
       R!Test, RP!Test, R!WaitReturn, RP!WaitReturn, R!Expire, RP!Expire,
       R!WaitTimesOut, RP!WaitTimesOut, R!queue, RP!queue, R!resp, RP!resp,
       R!grpc, RP!grpc
<1>8. \A w : R!Serve(w) <=> RP!Serve(w)
  BY DEF
       R!Serve, RP!Serve, R!Take, RP!Take, R!LockResponse, RP!LockResponse,
       R!Detach, RP!Detach, R!Complete, RP!Complete, R!Detached, RP!Detached,
       R!Abandoned, RP!Abandoned, R!Served, RP!Served, R!Resting, RP!Resting,
       R!Broadcast, RP!Broadcast, R!queue, RP!queue, R!resp, RP!resp, R!grpc,
       RP!grpc
<1> QED
  BY <1>1, <1>2, <1>3, <1>4, <1>5, <1>6, <1>7, <1>8
     DEF R!Next, RP!Next

\* The invariant of Cube is kept by what is a step of Cube.
LEMMA CubeKept ==
  ASSUME CP!IInv, C!Next \/ UNCHANGED C!vars
  PROVE  CP!IInv'
BY SameCube, PartsAssumed, CP!NextInv

\* The invariant of Rpc is kept by what is a step of Rpc.
LEMMA RpcKept ==
  ASSUME RP!IInv, R!Next \/ UNCHANGED R!vars
  PROVE  RP!IInv'
BY SameRpc, PartsAssumed, RP!NextInv

-----------------------------------------------------------------------------
(* What the composition adds.                                              *)

\* A request names slices that are there, of blocks the application has, and has
\* room for the one that is being looked up.  A submission has its arguments.
ArgsInv ==
  /\ args \in [Threads -> Seq(C!Slices)]
  /\ \A t \in Threads :
       /\ Len(args[t]) <= MaxArgs
       /\ \A i \in 1 .. Len(args[t]) :
            args[t][i] \in slices /\ args[t][i].cube \in owned
       /\ call[t].op = "slice" => Len(args[t]) < MaxArgs /\ call[t].cube \in owned
       /\ rcall[t].op = "submit" => rcall[t].arrays = Len(args[t])

\* A link is made for a response, by the submitter it has or for the waiter that
\* is at it.
LoanInv ==
  /\ of \in [Links -> Responses \cup {NoResponse}]
  /\ \A l \in Links : of[l] = NoResponse <=> slot[l] = NoSlice
  /\ \A t \in Threads :
       /\ call[t].op # "detach"
       /\ call[t].op # "none" /\ rcall[t].op # "none" => call[t].op = "attach"
       /\ call[t].op = "attach" =>
            /\ rcall[t].at = "attach"
            /\ rcall[t].left > 0
            /\ of[call[t].arg] = rcall[t].resp
  /\ \A w \in Waiters :
       /\ call[w].op \in {"none", "detach"}
       /\ call[w].op = "detach" =>
            /\ work[w].at = "detach"
            /\ work[w].left > 0
            /\ of[call[w].arg] = work[w].resp

IInv == CP!IInv /\ RP!IInv /\ ArgsInv /\ LoanInv

\* What the composition uses of the invariant of Cube.
LEMMA CubeFacts ==
  ASSUME CP!IInv
  PROVE  /\ call \in [Threads \cup Waiters -> C!Calls]
         /\ slices \subseteq C!Slices
         /\ slot \in [Links -> C!Slices \cup {NoSlice}]
         /\ att \subseteq Links
         /\ \A l \in att : slot[l] # NoSlice
         /\ \A l \in Links : slot[l] # NoSlice /\ l \notin att =>
              \E t \in Threads \cup Waiters :
                call[t].op = "attach" /\ call[t].arg = l
         /\ \A t \in Threads \cup Waiters :
              /\ call[t].op = "attach" => call[t].arg \in Links \ att
              /\ call[t].op = "detach" => call[t].arg \in att
              /\ call[t].op = "attach" => slot[call[t].arg] # NoSlice
              /\ call[t].op = "slice" => call[t].arg \in Regions
              /\ call[t].op = "none" <=> call[t].at = "idle"
              /\ \A u \in Threads \cup Waiters :
                   call[t].op \in {"attach", "detach"}
                     /\ call[u].op \in {"attach", "detach"}
                     /\ call[t].arg = call[u].arg => t = u
<1>1. CP!Slices = C!Slices /\ CP!Calls = C!Calls
  BY DEF CP!Slices, C!Slices, CP!Calls, C!Calls, CP!Ops, C!Ops
<1> QED
  BY <1>1 DEF CP!IInv, CP!TypeOK, CP!CallInv, CP!LinkInv

\* A block the application has is live.
LEMMA OwnedLive == CP!IInv => \A c \in owned : mem[c] = "live"
BY DEF CP!IInv, CP!OwnInv

\* Also in the next state.
LEMMA OwnedLiveNext == CP!IInv' => \A c \in owned' : mem'[c] = "live"
<1>1. (CP!IInv => \A c \in owned : mem[c] = "live")'
  BY OwnedLive, PTL
<1> QED
  BY <1>1

\* What it uses of the invariant of Rpc.
LEMMA RpcFacts ==
  ASSUME RP!IInv
  PROVE  /\ rcall \in [Threads -> RP!Calls]
         /\ work \in [Waiters -> RP!Works]
         /\ rowned \subseteq Responses
         /\ \A t \in Threads :
              /\ rcall[t].op = "none" => rcall[t] = R!Idle
              /\ rcall[t].op = "none" <=> rcall[t].at = "idle"
              /\ rcall[t].op = "submit" <=>
                   rcall[t].at \in {"attach", "queue", "start"}
              /\ rcall[t].op # "none" => rcall[t].resp \in Responses
              /\ rcall[t].op = "submit" => rcall[t].left <= rcall[t].arrays
         /\ \A w \in Waiters :
              work[w].at = "detach" => work[w].resp \in Responses
<1>1. RP!Idle = R!Idle
  BY DEF RP!Idle, R!Idle
<1>2. ASSUME NEW t \in Threads, rcall[t].op = "submit"
      PROVE  rcall[t].left <= rcall[t].arrays
  <2>1. PICK r \in Responses : r = rcall[t].resp
    BY <1>2 DEF RP!IInv, RP!TypeOK, RP!CallInv
  <2>2. Cardinality(ArraysOf(r)) \in Nat
    BY DEF RP!IInv, RP!TypeOK
  <2>3. Cardinality(ArraysOf(r)) + rcall[t].left = rcall[t].arrays
    BY <1>2, <2>1 DEF RP!IInv, RP!HeldInv
  <2>4. rcall[t].left \in Nat /\ rcall[t].arrays \in Nat
    BY DEF RP!IInv, RP!TypeOK
  <2> QED
    BY <2>2, <2>3, <2>4
<1> QED
  BY <1>1, <1>2
     DEF RP!IInv, RP!TypeOK, RP!CallInv, RP!PlaceInv, RP!Calls, RP!Works

-----------------------------------------------------------------------------
(* Every step is one of Cube, one of Rpc, or one of both.                  *)

CubeDoes == C!Next \/ UNCHANGED C!vars
RpcDoes == R!Next \/ UNCHANGED R!vars

\* What leaves a part alone is a stuttering step of it.
LEMMA CubeStutters ==
  ASSUME UNCHANGED cube
  PROVE  CubeDoes
BY DEF cube, C!vars, C!heap, CubeDoes

\* And so with Rpc, if the arrays of the responses are left alone too.
LEMMA RpcStutters ==
  ASSUME UNCHANGED rpc, \A r \in Responses : ArraysOf(r)' = ArraysOf(r)
  PROVE  RpcDoes
<1>1. \A r \in Responses : Cardinality(ArraysOf(r)') = Cardinality(ArraysOf(r))
  OBVIOUS
<1> QED
  BY <1>1 DEF rpc, R!vars, R!queue, R!resp, R!grpc, RpcDoes

\* The arrays of a response depend on att and of.
LEMMA ArraysFrame ==
  ASSUME UNCHANGED <<att, of>>
  PROVE  \A r \in Responses : ArraysOf(r)' = ArraysOf(r)
BY DEF ArraysOf

\* A call that is neither __attach nor __detach attaches and detaches nothing.
LEMMA ProceedFrame ==
  ASSUME NEW t, Proceed(t)
  PROVE  C!Continue(t) /\ UNCHANGED <<slot, att>>
BY DEF Proceed, C!Continue, C!AllocPublish, C!AllocPublishFails, C!LockIt,
       C!WalkHit, C!WalkEnd, C!WalkPast, C!ForkLock, C!AccessReturn,
       C!AccessWake, C!AccessWait, C!SliceReturn, C!SliceFails,
       C!ReallocReturn, C!FreeBody, C!Attach, C!AttachFails, C!Detach,
       C!ForkReturn, C!In

\* The calls on the memory.
LEMMA MemoryParts ==
  ASSUME IInv, NEW t \in Threads,
         UseMemory(t) \/ BeginArray(t) \/ Array(t) \/ NewRequest(t) \/ Proceed(t)
  PROVE  CubeDoes /\ RpcDoes
<1>1. UNCHANGED <<rpc, of>>
  BY DEF UseMemory, BeginArray, Array, NewRequest, Proceed
<1>2. UNCHANGED att /\ CubeDoes
  <2>1. t \in (Threads \cup Waiters) \ Waiters
    BY CoralAssumption
  <2>2. CASE UseMemory(t)
    BY <2>1, <2>2
       DEF UseMemory, C!AllocMap, C!AllocMapFails, C!BeginFree, C!BeginAccess,
           C!Begin, C!Next, CubeDoes
  <2>3. CASE BeginArray(t)
    BY <2>1, <2>3 DEF BeginArray, C!BeginSlice, C!Begin, C!Next, CubeDoes
  <2>4. CASE Array(t)
    BY <2>4 DEF Array, C!SliceReturn, C!Continue, C!Next, CubeDoes
  <2>5. CASE NewRequest(t)
    BY <2>5, CubeStutters DEF NewRequest, cube
  <2>6. CASE Proceed(t)
    BY <2>6, ProceedFrame DEF C!Next, CubeDoes
  <2> QED
    BY <2>2, <2>3, <2>4, <2>5, <2>6
<1> QED
  BY <1>1, <1>2, ArraysFrame, RpcStutters

\* The calls on responses.
LEMMA ResponseParts ==
  ASSUME IInv,
         \/ \E t \in Threads : BeginCall(t) \/ Reply(t)
         \/ \E r \in Responses : Manage(r) \/ Answer(r)
         \/ \E w \in Waiters : Finish(w) \/ \E r \in Responses : Take(w, r)
  PROVE  CubeDoes /\ RpcDoes
<1>1. CubeDoes
  BY CubeStutters DEF BeginCall, Reply, Manage, Answer, Finish, Take
<1>2. ASSUME NEW t \in Threads, BeginCall(t)
      PROVE  RpcDoes
  <2>1. Len(args[t]) \in 0 .. MaxArgs
    BY LenProperties, CoralAssumption DEF IInv, ArgsInv
  <2> QED
    BY <1>2, <2>1 DEF BeginCall, R!Begin, R!Next, RpcDoes
<1>3. ASSUME NEW t \in Threads, Reply(t)
      PROVE  RpcDoes
  BY <1>3 DEF Reply, R!Continue, R!Next, RpcDoes
<1>4. ASSUME NEW r \in Responses, Manage(r) \/ Answer(r)
      PROVE  RpcDoes
  BY <1>4 DEF Manage, Answer, R!Next, RpcDoes
<1>5. ASSUME NEW w \in Waiters, Finish(w) \/ \E r \in Responses : Take(w, r)
      PROVE  RpcDoes
  BY <1>5 DEF Finish, Take, R!Serve, R!Next, RpcDoes
<1> QED
  BY <1>1, <1>2, <1>3, <1>4, <1>5

\* inaccel_submit passes to __attach a slice that is there, of a block the
\* application has.
LEMMA NextArgument ==
  ASSUME IInv, NEW t \in Threads, rcall[t].at = "attach", rcall[t].left > 0,
         NEW s, s = args[t][rcall[t].arrays - rcall[t].left + 1]
  PROVE  s \in slices /\ s.cube \in owned
<1>1. /\ rcall[t].arrays = Len(args[t]) /\ rcall[t].left <= rcall[t].arrays
      /\ rcall[t].left > 0
  BY RpcFacts DEF IInv, ArgsInv
<1>2. rcall[t].left \in Nat /\ rcall[t].arrays \in Nat
  BY RpcFacts DEF IInv, RP!Calls
<1>3. rcall[t].arrays - rcall[t].left + 1 \in 1 .. Len(args[t])
  BY <1>1, <1>2
<1> QED
  BY <1>3 DEF IInv, ArgsInv

\* inaccel_submit calls __attach.
LEMMA CallAttachParts ==
  ASSUME IInv, NEW t \in Threads, CallAttach(t)
  PROVE  CubeDoes /\ RpcDoes
<1> DEFINE s == args[t][rcall[t].arrays - rcall[t].left + 1]
<1>1. PICK l \in Links :
        C!AttachBegin(t, l, s) /\ of' = [of EXCEPT ![l] = rcall[t].resp]
  BY DEF CallAttach
<1>2. s \in slices /\ s.cube \in owned
  BY NextArgument DEF CallAttach, R!In
<1>3. CubeDoes
  <2>1. t \in (Threads \cup Waiters) \ Waiters
    BY CoralAssumption
  <2> QED
    BY <1>1, <1>2, <2>1 DEF C!Begin, C!Next, CubeDoes
<1>4. \A r \in Responses : ArraysOf(r)' = ArraysOf(r)
  <2>1. l \notin att /\ att' = att
    BY <1>1, CubeFacts DEF C!AttachBegin, IInv
  <2> QED
    BY <1>1, <2>1, CubeFacts DEF ArraysOf, IInv, LoanInv
<1>5. RpcDoes
  BY <1>4, RpcStutters DEF CallAttach
<1> QED
  BY <1>3, <1>5

\* __attach and what inaccel_submit makes of its result; a waiter and __detach.
LEMMA BothParts ==
  ASSUME IInv,
         \/ \E t \in Threads : Attach(t) \/ AttachFails(t)
         \/ \E w \in Waiters : CallDetach(w) \/ Detach(w)
  PROVE  CubeDoes /\ RpcDoes
<1>1. ASSUME NEW t \in Threads, Attach(t) \/ AttachFails(t)
      PROVE  CubeDoes /\ RpcDoes
  BY <1>1 DEF Attach, AttachFails, C!Continue, C!Next, CubeDoes, R!Continue,
              R!Next, RpcDoes
<1>2. ASSUME NEW w \in Waiters, Detach(w)
      PROVE  CubeDoes /\ RpcDoes
  BY <1>2 DEF Detach, C!Continue, C!Next, CubeDoes, R!Serve, R!Next, RpcDoes
<1>3. ASSUME NEW w \in Waiters, CallDetach(w)
      PROVE  CubeDoes /\ RpcDoes
  <2>1. PICK l \in Links : C!DetachBegin(w, l)
    BY <1>3, CubeFacts DEF CallDetach, ArraysOf, IInv
  <2>2. CubeDoes /\ UNCHANGED att
    BY <2>1 DEF C!DetachBegin, C!Complete, C!Next, CubeDoes
  <2> QED
    BY <1>3, <2>2, ArraysFrame, RpcStutters DEF CallDetach
<1> QED
  BY <1>1, <1>2, <1>3

\* Every step of Coral is a step of Cube or leaves it alone, and so with Rpc.
LEMMA PartsStep ==
  ASSUME IInv, [Next]_vars
  PROVE  CubeDoes /\ RpcDoes
<1>1. CASE UNCHANGED vars
  BY <1>1, CubeStutters, ArraysFrame, RpcStutters DEF vars, cube
<1>2. CASE Next
  BY <1>2, MemoryParts, ResponseParts, CallAttachParts, BothParts
     DEF Next, Begin, Continue, Serve
<1> QED
  BY <1>1, <1>2

-----------------------------------------------------------------------------
(* The steps keep what the composition adds.                               *)

\* A slice of a block that is still the application's is not disposed of: what
\* is, is dead in the next state.
LEMMA SlicesKept ==
  ASSUME IInv, CP!IInv',
         \/ slices \subseteq slices'
         \/ \E c \in Cubes : mem'[c] # "live" /\ slices' = slices \ C!SlicesOf(c)
  PROVE  \A s \in slices : s.cube \in owned' => s \in slices'
BY OwnedLiveNext DEF C!SlicesOf

\* Steps on responses alone.
LEMMA ResponseKept ==
  ASSUME IInv, UNCHANGED <<cube, args, of>>,
         \A t \in Threads :
           /\ rcall'[t].op # "none" => rcall[t].op # "none" \/ call[t].op = "none"
           /\ rcall'[t].op = "submit" => rcall'[t].arrays = Len(args[t])
           /\ call[t].op = "attach" =>
                rcall'[t].at = rcall[t].at /\ rcall'[t].left = rcall[t].left
                  /\ rcall'[t].resp = rcall[t].resp,
         \A w \in Waiters : call[w].op = "detach" => work'[w] = work[w]
  PROVE  ArgsInv' /\ LoanInv'
<1>1. ArgsInv'
  BY DEF cube, IInv, ArgsInv
<1>2. LoanInv'
  BY DEF cube, IInv, LoanInv
<1> QED
  BY <1>1, <1>2

\* The same, of one thread.
LEMMA ReplyKept ==
  ASSUME IInv, UNCHANGED <<cube, args, of>>, NEW t \in Threads,
         call[t].op = "none", UNCHANGED work,
         NEW c, rcall' = [rcall EXCEPT ![t] = c],
         c.op = "submit" => c.arrays = Len(args[t])
  PROVE  ArgsInv' /\ LoanInv'
<1>1. \A u \in Threads \ {t} : rcall'[u] = rcall[u]
  BY RpcFacts DEF IInv, RP!Calls
<1>2. rcall'[t].op = "submit" => rcall'[t].arrays = Len(args[t])
  BY RpcFacts DEF IInv, RP!Calls
<1> QED
  BY <1>1, <1>2, ResponseKept DEF IInv, ArgsInv

\* A call of the application on a response begins, goes on or returns.
LEMMA CallKept ==
  ASSUME IInv, NEW t \in Threads, BeginCall(t) \/ Reply(t)
  PROVE  ArgsInv' /\ LoanInv'
<1>1. UNCHANGED <<cube, args, of, work>>
  <2>1. UNCHANGED <<cube, args, of>>
    BY DEF BeginCall, Reply
  <2>2. UNCHANGED work
    BY DEF BeginCall, Reply, R!BeginSubmit, R!BeginWait, R!Copy, R!Throw,
           R!Queue, R!DaemonFails, R!QueueThrows, R!Start, R!Test, R!WaitReturn
  <2> QED
    BY <2>1, <2>2
<1>2. call[t].op = "none"
  BY DEF BeginCall, Reply, Free, C!Idle
<1>3. ASSUME NEW c, rcall' = [rcall EXCEPT ![t] = c],
             c.op = "submit" => c.arrays = Len(args[t])
      PROVE  ArgsInv' /\ LoanInv'
  BY <1>1, <1>2, <1>3, ReplyKept
<1>4. CASE BeginCall(t)
  <2>1. PICK r \in Responses :
          R!BeginSubmit(t, r, Len(args[t])) \/ R!BeginWait(t, r, "wait")
    BY <1>4 DEF BeginCall
  <2>2. CASE R!BeginSubmit(t, r, Len(args[t]))
    BY <1>3, <2>2 DEF R!BeginSubmit
  <2>3. CASE R!BeginWait(t, r, "wait")
    <3>1. [R!Idle EXCEPT !.op = "wait", !.at = "test", !.resp = r].op = "wait"
      BY DEF R!Idle
    <3> QED
      BY <1>3, <2>3, <3>1 DEF R!BeginWait
  <2> QED
    BY <2>1, <2>2, <2>3
<1>5. CASE Reply(t)
  <2>1. ASSUME NEW at, rcall' = [rcall EXCEPT ![t].at = at]
        PROVE  ArgsInv' /\ LoanInv'
    <3>1. /\ [rcall[t] EXCEPT !.at = at].op = rcall[t].op
          /\ [rcall[t] EXCEPT !.at = at].arrays = rcall[t].arrays
      BY RpcFacts DEF IInv, RP!Calls
    <3>2. rcall[t].op = "submit" => rcall[t].arrays = Len(args[t])
      BY DEF IInv, ArgsInv
    <3>3. rcall' = [rcall EXCEPT ![t] = [rcall[t] EXCEPT !.at = at]]
      BY <2>1
    <3> QED
      BY <1>3, <3>1, <3>2, <3>3
  <2>2. CASE \/ R!WaitReturn(t) \/ R!Start(t)
             \/ R!Throw(t) \/ R!DaemonFails(t) \/ R!QueueThrows(t)
    <3>1. R!Idle.op = "none"
      BY DEF R!Idle
    <3>2. rcall' = [rcall EXCEPT ![t] = R!Idle]
      BY <2>2 DEF R!WaitReturn, R!Start, R!Throw, R!DaemonFails, R!QueueThrows,
                  R!Fail, R!Return
    <3> QED
      BY <1>3, <3>1, <3>2
  <2>3. CASE R!Copy(t) \/ R!Queue(t) \/ R!Test(t)
    BY <2>1, <2>3 DEF R!Copy, R!Queue, R!Test, R!Goto
  <2> QED
    BY <1>5, <2>2, <2>3 DEF Reply
<1> QED
  BY <1>4, <1>5

\* A response is made, released, answered, taken from the queue or completed:
\* at most the sleepers are woken, and none of them attaches.
LEMMA FinishKept ==
  ASSUME IInv,
         \/ \E r \in Responses : Manage(r) \/ Answer(r)
         \/ \E w \in Waiters : Finish(w) \/ \E r \in Responses : Take(w, r)
  PROVE  ArgsInv' /\ LoanInv'
<1>1. UNCHANGED <<cube, args, of>>
  BY DEF Manage, Answer, Finish, Take
<1>2. \A t \in Threads :
        /\ rcall'[t].op = rcall[t].op /\ rcall'[t].arrays = rcall[t].arrays
        /\ rcall'[t].left = rcall[t].left /\ rcall'[t].resp = rcall[t].resp
        /\ rcall[t].at = "attach" => rcall'[t].at = rcall[t].at
  <2>1. rcall' = rcall \/ \E r : rcall' = R!Broadcast(r, rcall)
    BY DEF Manage, Answer, Finish, Take, R!Create, R!Release, R!Answer, R!Take,
           R!LockResponse, R!Complete
  <2>2. ASSUME NEW t \in Threads
        PROVE  /\ [rcall[t] EXCEPT !.at = "test"].op = rcall[t].op
               /\ [rcall[t] EXCEPT !.at = "test"].arrays = rcall[t].arrays
               /\ [rcall[t] EXCEPT !.at = "test"].left = rcall[t].left
               /\ [rcall[t] EXCEPT !.at = "test"].resp = rcall[t].resp
    BY RpcFacts DEF IInv, RP!Calls
  <2>3. ASSUME NEW r, rcall' = R!Broadcast(r, rcall), NEW t \in Threads
        PROVE  \/ rcall'[t] = rcall[t]
               \/ /\ rcall[t].at = "sleep"
                  /\ rcall'[t] = [rcall[t] EXCEPT !.at = "test"]
    BY <2>3 DEF R!Broadcast
  <2> QED
    BY <2>1, <2>2, <2>3
<1>3. \A w \in Waiters : call[w].op = "detach" => work'[w] = work[w]
  <2>1. ASSUME NEW w \in Waiters, Finish(w) \/ \E r \in Responses : Take(w, r)
        PROVE  /\ \A v \in Waiters \ {w} : work'[v] = work[v]
               /\ call[w].op # "detach"
    BY <2>1, RpcFacts DEF Finish, Take, R!Take, R!LockResponse, R!Complete,
                C!Idle, IInv, LoanInv, RP!Works
  <2>2. ASSUME NEW r \in Responses, Manage(r) \/ Answer(r)
        PROVE  UNCHANGED work
    BY <2>2 DEF Manage, Answer, R!Create, R!Release, R!Answer
  <2> QED
    BY <2>1, <2>2
<1> QED
  BY <1>1, <1>2, <1>3, ResponseKept DEF IInv, ArgsInv, LoanInv

\* Steps on the memory alone, of one thread.
LEMMA MemoryKept ==
  ASSUME IInv, CP!IInv', UNCHANGED <<rpc, args, of, slot>>, NEW t \in Threads,
         NEW c, call' = [call EXCEPT ![t] = c],
         c.op \notin {"attach", "detach"}, call[t].op # "attach",
         c.op # "none" => call[t].op # "none" \/ rcall[t].op = "none",
         c.op = "slice" => Len(args[t]) < MaxArgs /\ c.cube \in owned',
         \A d \in owned \ owned' : ~Named(d),
         \/ slices \subseteq slices'
         \/ \E d \in Cubes : mem'[d] # "live" /\ slices' = slices \ C!SlicesOf(d),
         \A u \in Threads : call[u].op = "slice" => call[u].cube \in owned'
  PROVE  ArgsInv' /\ LoanInv'
<1>1. /\ \A u \in (Threads \cup Waiters) \ {t} : call'[u] = call[u]
      /\ call'[t] = c
  BY CubeFacts DEF IInv
<1>2. ArgsInv'
  <2>1. ASSUME NEW u \in Threads, NEW i \in 1 .. Len(args[u])
        PROVE  args[u][i] \in slices' /\ args[u][i].cube \in owned'
    <3>1. i \in DOMAIN args[u]
      BY LenProperties DEF IInv, ArgsInv
    <3>2. args[u][i] \in slices /\ args[u][i].cube \in owned
      BY DEF IInv, ArgsInv
    <3>3. args[u][i].cube \in owned'
      BY <3>1, <3>2 DEF Named
    <3> QED
      BY <3>2, <3>3, SlicesKept
  <2> QED
    BY <1>1, <2>1 DEF rpc, IInv, ArgsInv
<1>3. LoanInv'
  BY <1>1, CoralAssumption DEF rpc, IInv, LoanInv
<1> QED
  BY <1>2, <1>3

\* The calls on the memory.
LEMMA UseMemoryKept ==
  ASSUME IInv, CP!IInv', NEW t \in Threads, UseMemory(t)
  PROVE  ArgsInv' /\ LoanInv'
<1>1. UNCHANGED <<rpc, args, of>> /\ call[t].op = "none" /\ rcall[t].op = "none"
  BY DEF UseMemory, Free, C!Idle, R!Idle
<1>2. \A u \in Threads : call[u].op = "slice" => call[u].cube \in owned
  BY DEF IInv, ArgsInv
<1>3. ASSUME NEW c \in Cubes, C!AllocMap(t, c)
      PROVE  ArgsInv' /\ LoanInv'
  BY <1>1, <1>2, <1>3, MemoryKept DEF C!AllocMap, C!Enter
<1>4. ASSUME NEW c \in Cubes, C!AllocMapFails(t, c)
      PROVE  ArgsInv' /\ LoanInv'
  <2>1. UNCHANGED <<rpc, args, of, slot, call, slices, owned>>
    BY <1>1, <1>4 DEF C!AllocMapFails
  <2> QED
    BY <2>1 DEF rpc, IInv, ArgsInv, LoanInv
<1>5. ASSUME NEW c \in Cubes, C!BeginFree(t, c), ~Named(c)
      PROVE  ArgsInv' /\ LoanInv'
  <2>1. \A u \in Threads : call[u].op = "slice" => call[u].cube # c
    BY <1>5 DEF C!BeginFree, C!Users
  <2> QED
    BY <1>1, <1>2, <1>5, <2>1, MemoryKept DEF C!BeginFree, C!Enter
<1>6. ASSUME NEW c \in owned, NEW a \in Addrs, C!BeginAccess(t, c, a)
      PROVE  ArgsInv' /\ LoanInv'
  BY <1>1, <1>2, <1>6, MemoryKept DEF C!BeginAccess, C!Enter
<1> QED
  BY <1>3, <1>4, <1>5, <1>6 DEF UseMemory

\* inaccel_request_arg_array begins, with room for the argument.
LEMMA BeginArrayKept ==
  ASSUME IInv, CP!IInv', NEW t \in Threads, BeginArray(t)
  PROVE  ArgsInv' /\ LoanInv'
<1>1. /\ UNCHANGED <<rpc, args, of>> /\ Len(args[t]) < MaxArgs
      /\ call[t].op = "none" /\ rcall[t].op = "none"
  BY DEF BeginArray, Free, C!Idle, R!Idle
<1>2. \A u \in Threads : call[u].op = "slice" => call[u].cube \in owned
  BY DEF IInv, ArgsInv
<1>3. PICK c \in owned, r \in Regions : C!BeginSlice(t, c, r)
  BY DEF BeginArray
<1> QED
  BY <1>1, <1>2, <1>3, MemoryKept DEF C!BeginSlice, C!Enter

\* inaccel_request_arg_array sets the argument if there is a slice.
LEMMA ArrayKept ==
  ASSUME IInv, CP!IInv', NEW t \in Threads, Array(t)
  PROVE  ArgsInv' /\ LoanInv'
<1> DEFINE s == [cube |-> call[t].cube, region |-> call[t].arg]
<1>1. /\ UNCHANGED <<rpc, of, slot, owned>> /\ slices \subseteq slices'
      /\ args' = IF s \in slices' THEN [args EXCEPT ![t] = Append(@, s)] ELSE args
      /\ call[t].op = "slice" /\ call' = [call EXCEPT ![t] = C!Idle]
  BY DEF Array, C!SliceReturn, C!In, C!Leave
<1>2. /\ \A u \in (Threads \cup Waiters) \ {t} : call'[u] = call[u]
      /\ call'[t].op = "none"
  BY <1>1, CubeFacts DEF C!Idle, IInv
<1>3. ArgsInv'
  <2>1. /\ Len(args[t]) < MaxArgs /\ call[t].cube \in owned
        /\ call[t].cube \in Cubes /\ call[t].arg \in Regions
        /\ rcall[t].op = "none"
    <3>1. owned \subseteq Cubes
      BY DEF IInv, CP!IInv, CP!TypeOK
    <3>2. rcall[t].op # "none" => call[t].op = "attach"
      BY <1>1 DEF IInv, LoanInv
    <3> QED
      BY <1>1, <3>1, <3>2, CubeFacts DEF IInv, ArgsInv
  <2>2. s \in C!Slices /\ s.cube \in owned
    BY <2>1 DEF C!Slices
  <2>3. /\ args'[t] \in Seq(C!Slices) /\ Len(args'[t]) <= MaxArgs
        /\ \A i \in 1 .. Len(args'[t]) :
             args'[t][i] \in slices' /\ args'[t][i].cube \in owned
    <3>1. args[t] \in Seq(C!Slices) /\ Len(args[t]) \in Nat
      BY LenProperties DEF IInv, ArgsInv
    <3>2. \A i \in 1 .. Len(args[t]) :
            args[t][i] \in slices' /\ args[t][i].cube \in owned
      BY <1>1 DEF IInv, ArgsInv
    <3>3. CASE s \in slices'
      <4>1. args'[t] = Append(args[t], s)
        BY <1>1, <3>3 DEF IInv, ArgsInv
      <4>2. /\ Append(args[t], s) \in Seq(C!Slices)
            /\ Len(Append(args[t], s)) = Len(args[t]) + 1
            /\ \A i \in 1 .. Len(args[t]) : Append(args[t], s)[i] = args[t][i]
            /\ Append(args[t], s)[Len(args[t]) + 1] = s
        BY <2>2, <3>1
      <4>3. \A i \in 1 .. Len(args[t]) + 1 :
              i \in 1 .. Len(args[t]) \/ i = Len(args[t]) + 1
        BY <3>1
      <4>4. Len(args[t]) + 1 <= MaxArgs
        BY <2>1, <3>1, CoralAssumption
      <4> QED
        BY <2>2, <3>2, <3>3, <4>1, <4>2, <4>3, <4>4
    <3>4. CASE s \notin slices'
      BY <1>1, <3>1, <3>2, <3>4 DEF IInv, ArgsInv
    <3> QED
      BY <3>3, <3>4
  <2>4. \A u \in Threads \ {t} : args'[u] = args[u]
    BY <1>1 DEF IInv, ArgsInv
  <2>5. args' \in [Threads -> Seq(C!Slices)]
    BY <1>1, <2>3 DEF IInv, ArgsInv
  <2> QED
    BY <1>1, <1>2, <2>1, <2>3, <2>4, <2>5 DEF rpc, IInv, ArgsInv
<1>4. LoanInv'
  BY <1>1, <1>2, CoralAssumption DEF rpc, IInv, LoanInv
<1> QED
  BY <1>3, <1>4

\* A new request has no argument.
LEMMA NewRequestKept ==
  ASSUME IInv, NEW t \in Threads, NewRequest(t)
  PROVE  ArgsInv' /\ LoanInv'
<1>1. UNCHANGED <<cube, rpc, of>> /\ args' = [args EXCEPT ![t] = <<>>]
  BY DEF NewRequest
<1>2. call[t].op = "none" /\ rcall[t].op = "none"
  BY DEF NewRequest, Free, C!Idle, R!Idle
<1>3. <<>> \in Seq(C!Slices) /\ Len(<<>>) = 0
  BY EmptySeq
<1>4. ArgsInv'
  BY <1>1, <1>2, <1>3, CoralAssumption DEF cube, rpc, IInv, ArgsInv
<1>5. LoanInv'
  BY <1>1 DEF cube, rpc, IInv, LoanInv
<1> QED
  BY <1>4, <1>5

\* The other steps of a call on the memory.
LEMMA ProceedKept ==
  ASSUME IInv, CP!IInv', NEW t \in Threads, Proceed(t)
  PROVE  ArgsInv' /\ LoanInv'
<1>1. /\ UNCHANGED <<rpc, args, of>> /\ C!Continue(t) /\ UNCHANGED <<slot, att>>
      /\ call[t].op \notin {"attach", "detach"}
  BY ProceedFrame DEF Proceed
<1>2. \A u \in Threads : call[u].op = "slice" =>
        call[u].cube \in owned /\ Len(args[u]) < MaxArgs
  BY DEF IInv, ArgsInv
<1>3. ASSUME NEW c, call' = [call EXCEPT ![t] = c],
             c.op = "none" \/ (c.op = call[t].op /\ c.cube = call[t].cube),
             owned \subseteq owned',
             \/ slices \subseteq slices'
             \/ \E d \in Cubes :
                  mem'[d] # "live" /\ slices' = slices \ C!SlicesOf(d)
      PROVE  ArgsInv' /\ LoanInv'
  <2>1. c.op \notin {"attach", "detach"}
    BY <1>1, <1>3
  <2>2. c.op # "none" => call[t].op # "none" \/ rcall[t].op = "none"
    BY <1>3
  <2>3. c.op = "slice" => Len(args[t]) < MaxArgs /\ c.cube \in owned'
    BY <1>2, <1>3
  <2> QED
    BY <1>1, <1>2, <1>3, <2>1, <2>2, <2>3, MemoryKept
<1>4. C!Idle.op = "none"
  BY DEF C!Idle
<1>5. call[t] \in C!Calls
  BY CubeFacts DEF IInv
<1>6. \A v : /\ [call[t] EXCEPT !.at = v].op = call[t].op
             /\ [call[t] EXCEPT !.at = v].cube = call[t].cube
             /\ [call[t] EXCEPT !.walk = v].op = call[t].op
             /\ [call[t] EXCEPT !.walk = v].cube = call[t].cube
  BY <1>5 DEF C!Calls
<1>7. CASE \/ C!AllocPublish(t) \/ C!AllocPublishFails(t) \/ C!WalkEnd(t)
           \/ C!AccessReturn(t) \/ C!SliceFails(t) \/ C!ReallocReturn(t)
           \/ C!ForkReturn(t)
  BY <1>3, <1>4, <1>7
     DEF C!AllocPublish, C!AllocPublishFails, C!WalkEnd, C!AccessReturn,
         C!SliceFails, C!ReallocReturn, C!ForkReturn, C!Leave
<1>8. CASE C!LockIt(t) \/ C!WalkHit(t) \/ C!AccessWake(t)
  BY <1>3, <1>4, <1>6, <1>8 DEF C!LockIt, C!WalkHit, C!AccessWake, C!Goto, C!Leave
<1>9. ASSUME NEW c, C!WalkPast(t, c) \/ C!ForkLock(t, c)
      PROVE  ArgsInv' /\ LoanInv'
  BY <1>3, <1>6, <1>9 DEF C!WalkPast, C!ForkLock
<1>10. ASSUME NEW s, C!AccessWait(t, s)
       PROVE  ArgsInv' /\ LoanInv'
  <2>1. LET c == [call[t] EXCEPT !.at = "wait", !.arg = s] IN
          c.op = call[t].op /\ c.cube = call[t].cube
    BY <1>5 DEF C!Calls
  <2> QED
    BY <1>3, <1>10, <2>1 DEF C!AccessWait
<1>11. CASE C!FreeBody(t)
  <2>1. call' = [call EXCEPT ![t] = C!Idle] /\ owned' = owned
    BY <1>11 DEF C!FreeBody, C!Leave
  <2>2. CASE C!Defer(call[t].cube)
    BY <1>3, <1>4, <2>1, <2>2 DEF C!Defer
  <2>3. CASE C!Dispose(call[t].cube)
    <3>1. call[t].cube \in Cubes
      BY <1>11 DEF C!FreeBody, C!In, IInv, CP!IInv, CP!CallInv
    <3>2. /\ mem'[call[t].cube] # "live"
          /\ slices' = slices \ C!SlicesOf(call[t].cube)
      BY <2>3, <3>1 DEF C!Dispose, IInv, CP!IInv, CP!TypeOK
    <3> QED
      BY <1>3, <1>4, <2>1, <3>1, <3>2
  <2> QED
    BY <1>11, <2>2, <2>3 DEF C!FreeBody
<1>12. ~(C!SliceReturn(t) \/ C!Attach(t) \/ C!AttachFails(t) \/ C!Detach(t))
  BY <1>1 DEF Proceed, C!SliceReturn, C!Attach, C!AttachFails, C!Detach, C!In
<1> QED
  BY <1>1, <1>7, <1>8, <1>9, <1>10, <1>11, <1>12 DEF C!Continue

\* __attach is called with an unused link, which is made for the response.
LEMMA CallAttachKept ==
  ASSUME IInv, NEW t \in Threads, CallAttach(t)
  PROVE  ArgsInv' /\ LoanInv'
<1> DEFINE s == args[t][rcall[t].arrays - rcall[t].left + 1]
<1>1. PICK l \in Links :
        C!AttachBegin(t, l, s) /\ of' = [of EXCEPT ![l] = rcall[t].resp]
  BY DEF CallAttach
<1>2. /\ UNCHANGED <<rpc, args, slices, owned>>
      /\ slot[l] = NoSlice /\ slot' = [slot EXCEPT ![l] = s]
      /\ rcall[t].at = "attach" /\ rcall[t].left > 0
  BY <1>1 DEF CallAttach, R!In, C!AttachBegin
<1>3. /\ call'[t].op = "attach" /\ call'[t].arg = l
      /\ \A u \in (Threads \cup Waiters) \ {t} : call'[u] = call[u]
  BY <1>1, CubeFacts DEF C!AttachBegin, C!Enter, IInv
<1>4. rcall[t].resp \in Responses /\ rcall[t].resp # NoResponse /\ s # NoSlice
  <2>1. rcall[t].resp \in Responses
    BY <1>2, RpcFacts DEF IInv
  <2>2. s \in slices
    BY <1>2, NextArgument
  <2>3. NoSlice \notin C!Slices
    BY CoralAssumption DEF C!Slices
  <2> QED
    BY <2>1, <2>2, <2>3, CubeFacts, CoralAssumption DEF IInv
<1>5. ArgsInv'
  BY <1>2, <1>3 DEF rpc, IInv, ArgsInv
<1>6. LoanInv'
  <2>1. /\ of' \in [Links -> Responses \cup {NoResponse}]
        /\ \A k \in Links : of'[k] = NoResponse <=> slot'[k] = NoSlice
    BY <1>1, <1>2, <1>4, CubeFacts DEF IInv, LoanInv
  <2>2. \A u \in (Threads \cup Waiters) \ {t} :
          call[u].op \in {"attach", "detach"} => of'[call[u].arg] = of[call[u].arg]
    BY <1>1, <1>2, CubeFacts DEF IInv, LoanInv
  <2>3. of'[l] = rcall[t].resp
    BY <1>1 DEF IInv, LoanInv
  <2> QED
    BY <1>2, <1>3, <2>1, <2>2, <2>3, CoralAssumption DEF rpc, IInv, LoanInv
<1> QED
  BY <1>5, <1>6

\* __attach succeeds: the submission has one argument less to attach.
LEMMA AttachKept ==
  ASSUME IInv, NEW t \in Threads, Attach(t)
  PROVE  ArgsInv' /\ LoanInv'
<1>1. /\ UNCHANGED <<args, of, slices, owned, slot, work>>
      /\ call' = [call EXCEPT ![t] = C!Idle]
      /\ rcall' = [rcall EXCEPT ![t].left = @ - 1]
  BY DEF Attach, C!Attach, C!Leave, R!Attach
<1>2. /\ call'[t].op = "none"
      /\ \A u \in (Threads \cup Waiters) \ {t} : call'[u] = call[u]
  BY <1>1, CubeFacts DEF IInv, C!Idle
<1>3. /\ \A u \in Threads \ {t} : rcall'[u] = rcall[u]
      /\ rcall'[t].op = rcall[t].op /\ rcall'[t].arrays = rcall[t].arrays
  BY <1>1, RpcFacts DEF IInv, RP!Calls
<1>4. ArgsInv'
  BY <1>1, <1>2, <1>3 DEF IInv, ArgsInv
<1>5. LoanInv'
  BY <1>1, <1>2, <1>3, CoralAssumption DEF IInv, LoanInv
<1> QED
  BY <1>4, <1>5

\* __attach fails: the link is none, and the submission is over.
LEMMA AttachFailsKept ==
  ASSUME IInv, NEW t \in Threads, AttachFails(t)
  PROVE  ArgsInv' /\ LoanInv'
<1> DEFINE l == call[t].arg
<1>1. /\ UNCHANGED <<args, slices, owned, work>>
      /\ call[t].op = "attach"
      /\ call' = [call EXCEPT ![t] = C!Idle]
      /\ slot' = [slot EXCEPT ![l] = NoSlice]
      /\ of' = [of EXCEPT ![l] = NoResponse]
      /\ rcall' = [rcall EXCEPT ![t] = R!Idle]
  BY DEF AttachFails, C!AttachFails, C!In, C!Leave, R!AttachFails, R!Fail,
         R!Return
<1>2. /\ call'[t].op = "none"
      /\ \A u \in (Threads \cup Waiters) \ {t} : call'[u] = call[u]
  BY <1>1, CubeFacts DEF IInv, C!Idle
<1>3. /\ \A u \in Threads \ {t} : rcall'[u] = rcall[u]
      /\ rcall'[t].op = "none"
  BY <1>1, RpcFacts DEF IInv, R!Idle
<1>4. ArgsInv'
  BY <1>1, <1>2, <1>3 DEF IInv, ArgsInv
<1>5. LoanInv'
  <2>1. /\ of' \in [Links -> Responses \cup {NoResponse}]
        /\ \A k \in Links : of'[k] = NoResponse <=> slot'[k] = NoSlice
    BY <1>1, CubeFacts DEF IInv, LoanInv
  <2>2. \A u \in (Threads \cup Waiters) \ {t} :
          call[u].op \in {"attach", "detach"} => of'[call[u].arg] = of[call[u].arg]
    BY <1>1, CubeFacts DEF IInv, LoanInv
  <2> QED
    BY <1>1, <1>2, <1>3, <2>1, <2>2, CoralAssumption DEF IInv, LoanInv
<1> QED
  BY <1>4, <1>5

\* A waiter calls __detach for an array of the response it is at.
LEMMA CallDetachKept ==
  ASSUME IInv, NEW w \in Waiters, CallDetach(w)
  PROVE  ArgsInv' /\ LoanInv'
<1>1. PICK l \in ArraysOf(work[w].resp) : C!DetachBegin(w, l)
  BY DEF CallDetach
<1>2. /\ UNCHANGED <<rpc, args, of, slices, owned, slot>>
      /\ work[w].at = "detach" /\ work[w].left > 0
      /\ of[l] = work[w].resp
  BY <1>1 DEF CallDetach, C!DetachBegin, ArraysOf
<1>3. /\ call'[w].op = "detach" /\ call'[w].arg = l
      /\ \A u \in (Threads \cup Waiters) \ {w} : call'[u] = call[u]
  BY <1>1, CubeFacts DEF C!DetachBegin, C!Enter, IInv
<1>4. ArgsInv'
  BY <1>2, <1>3, CoralAssumption DEF rpc, IInv, ArgsInv
<1>5. LoanInv'
  BY <1>2, <1>3, CoralAssumption DEF rpc, IInv, LoanInv
<1> QED
  BY <1>4, <1>5

\* __detach: the link is none, the response has one array less to give back, and
\* a block that is disposed of is no longer the application's.
LEMMA DetachKept ==
  ASSUME IInv, CP!IInv', NEW w \in Waiters, Detach(w)
  PROVE  ArgsInv' /\ LoanInv'
<1> DEFINE l == call[w].arg
           c == slot[l].cube
           cs == [call EXCEPT ![w] = C!Idle]
<1>1. /\ UNCHANGED <<args, owned, rcall>>
      /\ call[w].op = "detach"
      /\ call' = C!Broadcast(slot[l], cs)
      /\ slot' = [slot EXCEPT ![l] = NoSlice]
      /\ of' = [of EXCEPT ![l] = NoResponse]
      /\ work' = [work EXCEPT ![w].left = @ - 1]
      /\ C!Dispose(c) \/ C!Defer(c)
  BY DEF Detach, C!Detach, C!In, R!Detach
<1>2. /\ call'[w].op = "none"
      /\ \A u \in (Threads \cup Waiters) \ {w} :
           /\ call'[u].op = call[u].op /\ call'[u].cube = call[u].cube
           /\ call[u].at # "wait" => call'[u] = call[u]
  <2>1. /\ cs[w] = C!Idle
        /\ \A u \in (Threads \cup Waiters) \ {w} : cs[u] = call[u]
    BY CubeFacts DEF IInv
  <2>2. \A u \in Threads \cup Waiters :
          call'[u] = IF cs[u].at = "wait" /\ cs[u].arg = slot[l]
                     THEN [cs[u] EXCEPT !.at = "woken"] ELSE cs[u]
    BY <1>1 DEF C!Broadcast
  <2>3. \A u \in Threads \cup Waiters :
          /\ [call[u] EXCEPT !.at = "woken"].op = call[u].op
          /\ [call[u] EXCEPT !.at = "woken"].cube = call[u].cube
    BY CubeFacts DEF IInv, C!Calls
  <2>4. C!Idle.op = "none" /\ C!Idle.at = "idle"
    BY DEF C!Idle
  <2>5. call'[w].op = "none"
    BY <2>1, <2>2, <2>4
  <2>6. ASSUME NEW u \in (Threads \cup Waiters) \ {w}
        PROVE  /\ call'[u].op = call[u].op /\ call'[u].cube = call[u].cube
               /\ call[u].at # "wait" => call'[u] = call[u]
    <3>1. call'[u] = call[u] \/ call'[u] = [call[u] EXCEPT !.at = "woken"]
      BY <2>1, <2>2
    <3>2. call[u].at # "wait" => call'[u] = call[u]
      BY <2>1, <2>2
    <3> QED
      BY <2>3, <3>1, <3>2
  <2> QED
    BY <2>5, <2>6
<1>3. \A u \in (Threads \cup Waiters) \ {w} :
        call[u].op \in {"attach", "detach"} => call'[u] = call[u]
  BY <1>2 DEF IInv, CP!IInv, CP!CallInv
<1>4. \A v \in Waiters \ {w} : work'[v] = work[v]
  BY <1>1, RpcFacts DEF IInv
<1>5. ArgsInv'
  <2>1. c \in Cubes
    BY <1>1, CubeFacts DEF IInv, C!Slices
  <2>2. \/ slices \subseteq slices'
        \/ \E d \in Cubes : mem'[d] # "live" /\ slices' = slices \ C!SlicesOf(d)
    <3>1. CASE C!Defer(c)
      BY <3>1 DEF C!Defer
    <3>2. CASE C!Dispose(c)
      BY <2>1, <3>2 DEF C!Dispose, IInv, CP!IInv, CP!TypeOK
    <3> QED
      BY <1>1, <3>1, <3>2
  <2>3. \A s \in slices : s.cube \in owned => s \in slices'
    BY <1>1, <2>2, SlicesKept
  <2> QED
    BY <1>1, <1>2, <2>3, CoralAssumption DEF IInv, ArgsInv
<1>6. LoanInv'
  <2>1. /\ of' \in [Links -> Responses \cup {NoResponse}]
        /\ \A k \in Links : of'[k] = NoResponse <=> slot'[k] = NoSlice
    BY <1>1, CubeFacts DEF IInv, LoanInv
  <2>2. \A u \in (Threads \cup Waiters) \ {w} :
          call[u].op \in {"attach", "detach"} => of'[call[u].arg] = of[call[u].arg]
    BY <1>1, CubeFacts DEF IInv, LoanInv
  <2>3. \A t \in Threads :
          /\ call'[t].op # "detach"
          /\ call'[t].op # "none" /\ rcall'[t].op # "none" =>
               call'[t].op = "attach"
          /\ call'[t].op = "attach" =>
               /\ rcall'[t].at = "attach"
               /\ rcall'[t].left > 0
               /\ of'[call'[t].arg] = rcall'[t].resp
    <3>1. UNCHANGED rcall /\ \A t \in Threads : t # w
      BY <1>1, CoralAssumption
    <3>2. \A t \in Threads :
            /\ call'[t].op = call[t].op
            /\ call[t].op = "attach" =>
                 call'[t] = call[t] /\ of'[call[t].arg] = of[call[t].arg]
      BY <1>2, <1>3, <2>2, <3>1
    <3> QED
      BY <3>1, <3>2 DEF IInv, LoanInv
  <2>4. \A v \in Waiters :
          /\ call'[v].op \in {"none", "detach"}
          /\ call'[v].op = "detach" =>
               /\ work'[v].at = "detach"
               /\ work'[v].left > 0
               /\ of'[call'[v].arg] = work'[v].resp
    BY <1>2, <1>3, <1>4, <2>2 DEF IInv, LoanInv
  <2> QED
    BY <2>1, <2>3, <2>4 DEF LoanInv
<1> QED
  BY <1>5, <1>6

-----------------------------------------------------------------------------
(* The invariant.                                                          *)

\* Every step keeps the invariant.
LEMMA NextInv ==
  ASSUME IInv, [Next]_vars
  PROVE  IInv'
<1>1. CP!IInv' /\ RP!IInv'
  BY PartsStep, CubeKept, RpcKept DEF IInv, CubeDoes, RpcDoes
<1>2. CASE UNCHANGED vars
  BY <1>1, <1>2 DEF vars, cube, rpc, IInv, ArgsInv, LoanInv
<1>3. CASE Next
  BY <1>1, <1>3, CallKept, FinishKept, UseMemoryKept, BeginArrayKept, ArrayKept,
     NewRequestKept, ProceedKept, CallAttachKept, AttachKept, AttachFailsKept,
     CallDetachKept, DetachKept
     DEF Next, Begin, Continue, Serve, IInv
<1> QED
  BY <1>2, <1>3

\* It holds when the process starts.
LEMMA InitInv == Init => IInv
<1> SUFFICES ASSUME Init
             PROVE  IInv
  OBVIOUS
<1>1. CP!IInv /\ RP!IInv
  BY SameCube, SameRpc, PartsAssumed, CP!InitInv, RP!InitInv DEF Init
<1>2. call = [t \in Threads \cup Waiters |-> C!Idle] /\ C!Idle.op = "none"
  BY DEF Init, C!Init, C!Idle
<1>3. rcall = [t \in Threads |-> R!Idle] /\ R!Idle.op = "none"
  BY DEF Init, R!Init, R!Idle
<1>4. slot = [l \in Links |-> NoSlice]
  BY DEF Init, C!Init
<1>5. <<>> \in Seq(C!Slices) /\ Len(<<>>) = 0
  BY EmptySeq
<1>6. ArgsInv
  BY <1>2, <1>3, <1>5, CoralAssumption DEF Init, ArgsInv
<1>7. LoanInv
  BY <1>2, <1>3, <1>4 DEF Init, LoanInv
<1> QED
  BY <1>1, <1>6, <1>7 DEF IInv

\* The inductive invariant holds in every reachable state.
THEOREM Invariance == Spec => []IInv
<1>1. Init => IInv
  BY InitInv
<1>2. IInv /\ [Next]_vars => IInv'
  BY NextInv
<1> QED
  BY <1>1, <1>2, PTL DEF Spec

-----------------------------------------------------------------------------
(* The parts in the whole.                                                 *)

\* cube.c under rpc.cpp is still what module Cube says of it: whatever is proved
\* of Cube holds here, with the waiters as further threads.
THEOREM CoralImplementsCube == Spec => C!Spec
<1>1. Init => C!Init
  BY DEF Init
<1>2. IInv /\ [Next]_vars => [C!Next]_(C!vars)
  BY PartsStep DEF CubeDoes
<1> QED
  BY <1>1, <1>2, Invariance, PTL DEF Spec, C!Spec

\* rpc.cpp on cube.c is what module Rpc says, which counts the arrays that are
\* attached and knows nothing of blocks: whatever is proved of Rpc holds here.
THEOREM CoralImplementsRpc == Spec => R!Spec
<1>1. Init => R!Init
  BY DEF Init
<1>2. IInv /\ [Next]_vars => [R!Next]_(R!vars)
  BY PartsStep DEF RpcDoes
<1> QED
  BY <1>1, <1>2, Invariance, PTL DEF Spec, R!Spec

\* The same of the parts the theorems are about.
LEMMA PartSpecs == Spec => CP!Spec /\ RP!Spec
<1>1. Init => CP!Init /\ RP!Init
  BY SameCube, SameRpc DEF Init
<1>2. IInv /\ [Next]_vars => [CP!Next]_(CP!vars) /\ [RP!Next]_(RP!vars)
  BY PartsStep, SameCube, SameRpc DEF CubeDoes, RpcDoes
<1> QED
  BY <1>1, <1>2, Invariance, PTL DEF Spec, CP!Spec, RP!Spec

\* So, with requests, waiters and blocks together: no call touches a block that
\* was released and the references to each are counted exactly; no response is
\* touched once it was deleted or left behind on its way, and no sleeper misses its
\* end; and a submission is a task, to whatever waits for it.
THEOREM PartsStaySafe ==
  Spec =>
    /\ [](C!NoUseAfterFree /\ C!ReferencesCounted)
    /\ [](R!NoUseAfterFree /\ R!NotStranded /\ R!NoLostWakeup)
    /\ RP!ImplementsTask
<1>1. CP!Spec => []CP!NoUseAfterFree /\ []CP!ReferencesCounted
  BY PartsAssumed, CP!NeverUsedAfterFree, CP!CountsExact
<1>2. RP!Spec => []RP!NoUseAfterFree /\ []RP!NotStranded /\ []RP!NoLostWakeup
  BY PartsAssumed, RP!NeverUsedAfterFree, RP!NeverStranded, RP!NeverLostWakeup
<1>3. RP!Spec => RP!ImplementsTask
  BY PartsAssumed, RP!RpcImplementsTask
<1>4. /\ CP!NoUseAfterFree => C!NoUseAfterFree
      /\ CP!ReferencesCounted => C!ReferencesCounted
  BY DEF CP!NoUseAfterFree, C!NoUseAfterFree, CP!ReferencesCounted,
         C!ReferencesCounted, CP!LinksOf, C!LinksOf, CP!LinksOn, C!LinksOn,
         CP!Cardinality, C!Cardinality, CP!IsFiniteSet, C!IsFiniteSet
<1>5. /\ RP!NoUseAfterFree => R!NoUseAfterFree
      /\ RP!NotStranded => R!NotStranded
      /\ RP!NoLostWakeup => R!NoLostWakeup
  BY DEF RP!NoUseAfterFree, R!NoUseAfterFree, RP!NotStranded, R!NotStranded,
         RP!NoLostWakeup, R!NoLostWakeup,
         RP!Idle, R!Idle, RP!In, R!In, RP!Underway, R!Underway
<1> QED
  BY <1>1, <1>2, <1>3, <1>4, <1>5, PartSpecs, PTL

\* The links are finitely many.
LEMMA ArraysFinite ==
  ASSUME IInv, NEW r
  PROVE  IsFiniteSet(ArraysOf(r)) /\ Cardinality(ArraysOf(r)) \in Nat
<1>1. ArraysOf(r) \subseteq Links
  BY CubeFacts DEF IInv, ArraysOf
<1> QED
  BY <1>1, CoralAssumption, FS_Subset, FS_CardinalityType

\* What Cube does in __attach is what Rpc counts, so that of the two neither
\* keeps the other from its step: one array more for the response of the
\* submission, which has an argument left.
LEMMA AttachCounted ==
  ASSUME IInv, NEW t \in Threads, C!Attach(t), UNCHANGED of,
         rcall' = [rcall EXCEPT ![t].left = @ - 1],
         UNCHANGED <<qit, cq, running, rmem, rowned, phase, cancelled, done,
                     rmutex, copy, calls, answers, work>>
  PROVE  R!Attach(t)
<1> DEFINE l == call[t].arg
           q == rcall[t].resp
<1>1. /\ call[t].op = "attach" /\ att' = att \cup {l}
      /\ l \notin att /\ of[l] = q
      /\ rcall[t].at = "attach" /\ rcall[t].left > 0 /\ q \in Responses
  BY CubeFacts, RpcFacts DEF C!Attach, C!In, IInv, LoanInv
<1>2. ArraysOf(q)' = ArraysOf(q) \cup {l} /\ l \notin ArraysOf(q)
  BY <1>1 DEF ArraysOf
<1>3. \A r \in Responses \ {q} : ArraysOf(r)' = ArraysOf(r)
  BY <1>1 DEF ArraysOf
<1>4. Cardinality(ArraysOf(q)') = Cardinality(ArraysOf(q)) + 1
  BY <1>2, ArraysFinite, FS_AddElement
<1>5. [r \in Responses |-> Cardinality(ArraysOf(r)')] =
        [[r \in Responses |-> Cardinality(ArraysOf(r))] EXCEPT ![q] = @ + 1]
  BY <1>1, <1>3, <1>4
<1> QED
  BY <1>1, <1>5 DEF R!Attach, R!In, R!Hold, R!queue, R!resp, R!grpc

\* And so in __detach: one array less, and the waiter had one to give back.
LEMMA DetachCounted ==
  ASSUME IInv, NEW w \in Waiters, C!Detach(w),
         of' = [of EXCEPT ![call[w].arg] = NoResponse],
         work' = [work EXCEPT ![w].left = @ - 1],
         UNCHANGED <<qit, cq, running, rmem, rowned, phase, cancelled, done,
                     rmutex, copy, calls, answers, rcall>>
  PROVE  R!Detach(w)
<1> DEFINE l == call[w].arg
           q == work[w].resp
<1>1. /\ call[w].op = "detach" /\ att' = att \ {l}
      /\ l \in att /\ of[l] = q
      /\ work[w].at = "detach" /\ work[w].left > 0 /\ q \in Responses
  BY CubeFacts, RpcFacts DEF C!Detach, C!In, IInv, LoanInv
<1>2. /\ ArraysOf(q)' = ArraysOf(q) \ {l} /\ l \in ArraysOf(q)
      /\ \A r \in Responses \ {q} : ArraysOf(r)' = ArraysOf(r)
  <2>1. \A k \in att \ {l} : of'[k] = of[k]
    BY CubeFacts DEF IInv, LoanInv
  <2> QED
    BY <1>1, <2>1 DEF ArraysOf
<1>3. Cardinality(ArraysOf(q)') = Cardinality(ArraysOf(q)) - 1
  BY <1>2, ArraysFinite, FS_RemoveElement
<1>4. [r \in Responses |-> Cardinality(ArraysOf(r)')] =
        [[r \in Responses |-> Cardinality(ArraysOf(r))] EXCEPT ![q] = @ - 1]
  BY <1>1, <1>2, <1>3
<1> QED
  BY <1>1, <1>4 DEF R!Detach, R!queue, R!resp, R!grpc

-----------------------------------------------------------------------------
(* ArraysOnLoan                                                            *)

\* An array that is attached names a slice that is there, counted, in a block
\* that is live.
LEMMA AttachedLive ==
  ASSUME IInv, NEW l \in att
  PROVE  slot[l] \in slices /\ slinks[slot[l]] > 0 /\ mem[slot[l].cube] = "live"
<1>1. l \in Links /\ slot[l] \in slices /\ mem[slot[l].cube] = "live"
  BY CubeFacts DEF IInv, CP!IInv, CP!LinkInv
<1>2. l \in CP!LinksOn(slot[l]) /\ CP!LinksOn(slot[l]) \subseteq Links
  BY CubeFacts DEF CP!LinksOn, IInv
<1>3. Cardinality(CP!LinksOn(slot[l])) > 0
  <2>1. IsFiniteSet(CP!LinksOn(slot[l]))
    BY <1>2, CoralAssumption, FS_Subset
  <2>2. Cardinality(CP!LinksOn(slot[l])) # 0
    BY <1>2, <2>1, FS_EmptySet
  <2> QED
    BY <2>1, <2>2, FS_CardinalityType
<1>4. slinks[slot[l]] = Cardinality(CP!LinksOn(slot[l]))
  BY <1>1, SameCount DEF IInv, CP!IInv, CP!CountInv
<1> QED
  BY <1>1, <1>3, <1>4

\* No link is made for a response that is done or deleted: what was attached is
\* detached, and what is being attached is for a response in submission.
LEMMA NoneLeft ==
  ASSUME IInv, NEW r \in Responses, done[r] \/ rmem[r] = "freed", NEW l \in Links
  PROVE  of[l] # r
<1> SUFFICES ASSUME of[l] = r
             PROVE  FALSE
  OBVIOUS
<1>1. Cardinality(ArraysOf(r)) = 0
  BY DEF IInv, RP!IInv, RP!HeldInv
<1>2. l \notin att
  BY <1>1, ArraysFinite, FS_EmptySet DEF ArraysOf
<1>3. PICK t \in Threads \cup Waiters : call[t].op = "attach" /\ call[t].arg = l
  BY <1>2, CubeFacts, CoralAssumption DEF IInv, LoanInv
<1>4. t \in Threads /\ rcall[t].at = "attach" /\ rcall[t].resp = r
  BY <1>3 DEF IInv, LoanInv
<1>5. phase[r] = "submitting"
  BY <1>4 DEF IInv, RP!IInv, RP!CallInv
<1>6. phase[r] = "sent"
  BY DEF IInv, RP!IInv, RP!RespInv
<1> QED
  BY <1>5, <1>6

\* Arrays are the accelerator's for just as long as it may work on them: while
\* the call is open all of a request are attached, in live blocks whose files are
\* there, and none is once the response is done or deleted.
THEOREM ArraysAlwaysOnLoan == Spec => []ArraysOnLoan
<1>1. IInv /\ CP!BackedWhileLive => ArraysOnLoan
  <2> SUFFICES ASSUME IInv, CP!BackedWhileLive
               PROVE  ArraysOnLoan
    OBVIOUS
  <2>1. ASSUME NEW r \in calls
        PROVE  /\ Cardinality(ArraysOf(r)) = copy[r]
               /\ \A l \in ArraysOf(r) :
                    /\ slot[l] \in slices /\ slinks[slot[l]] > 0
                    /\ slot[l].cube \in files
    <3>1. r \in Responses
      BY DEF IInv, RP!IInv, RP!TypeOK
    <3>2. Cardinality(ArraysOf(r)) = copy[r]
      BY <3>1 DEF IInv, RP!IInv, RP!HeldInv
    <3>3. \A s \in slices : mem[s.cube] = "live" => s.cube \in files
      BY CubeFacts DEF CP!BackedWhileLive, IInv, C!Slices
    <3> QED
      BY <3>2, <3>3, AttachedLive DEF ArraysOf
  <2> QED
    BY <2>1, NoneLeft DEF ArraysOnLoan
<1>2. CP!Spec => []CP!BackedWhileLive
  BY PartsAssumed, CP!AlwaysBacked
<1> QED
  BY <1>1, <1>2, PartSpecs, Invariance, PTL

-----------------------------------------------------------------------------
(* All locks together.                                                     *)

\* The actors that are inside a call, or at a response, and neither asleep nor at
\* the mutex of the queue that an exception left locked: a call of Cube hides the
\* one of Rpc it is made from.
ThreadBusy(t) ==
  \/ call[t].at \notin {"idle", "wait"}
  \/ /\ call[t].at = "idle"
     /\ rcall[t].at \notin {"idle", "sleep"}
     /\ ~Blocked(t)

WaiterBusy(w) == call[w].at # "idle" \/ work[w].at # "next"

\* Those of them for which every lock they may ask for next is free.
ThreadRuns(t) ==
  /\ ThreadBusy(t)
  /\ call[t].at # "idle" => C!Runs(t)
  /\ call[t].at = "idle" =>
       /\ rcall[t].at \in {"test", "expired"} => ~rmutex[rcall[t].resp]
       /\ rcall[t].at = "queue" => ~qit

WaiterRuns(w) ==
  /\ WaiterBusy(w)
  /\ call[w].at # "idle" => C!Runs(w)
  /\ call[w].at = "idle" /\ work[w].at = "lock" => ~rmutex[work[w].resp]

SomeoneRuns ==
  (\E t \in Threads : ThreadBusy(t)) \/ (\E w \in Waiters : WaiterBusy(w)) =>
    (\E t \in Threads : ThreadRuns(t)) \/ (\E w \in Waiters : WaiterRuns(w))

\* A waiter that detaches holds the mutex of the response and asks for that of a
\* block; who has that asks for no other but in fork.  So someone in Cube runs,
\* and if nobody is there the waiter does; if no waiter is, no mutex of a response
\* is held.
LEMMA SomeoneFree ==
  ASSUME IInv, CP!SomeoneRuns
  PROVE  SomeoneRuns
<1> SUFFICES ASSUME (\E t \in Threads : ThreadBusy(t))
                      \/ (\E w \in Waiters : WaiterBusy(w))
             PROVE  (\E t \in Threads : ThreadRuns(t))
                      \/ (\E w \in Waiters : WaiterRuns(w))
  BY DEF SomeoneRuns
<1>1. \A t : CP!Runs(t) <=> C!Runs(t)
  BY DEF CP!Runs, C!Runs
<1>2. CASE \E u \in Threads \cup Waiters : call[u].at \notin {"idle", "wait"}
  <2>1. PICK u \in Threads \cup Waiters : C!Runs(u)
    BY <1>1, <1>2 DEF CP!SomeoneRuns
  <2>2. call[u].at \notin {"idle", "wait"}
    BY <2>1 DEF C!Runs
  <2> QED
    BY <2>1, <2>2 DEF ThreadRuns, ThreadBusy, WaiterRuns, WaiterBusy
<1>3. CASE \A u \in Threads \cup Waiters : call[u].at \in {"idle", "wait"}
  <2>1. \A w \in Waiters : call[w].at = "idle"
    BY <1>3 DEF IInv, LoanInv, CP!IInv, CP!CallInv
  <2>2. CASE \E w \in Waiters : work[w].at = "detach"
    BY <2>1, <2>2 DEF WaiterRuns, WaiterBusy
  <2>3. CASE \A w \in Waiters : work[w].at # "detach"
    <3>1. \A r \in Responses : ~rmutex[r]
      BY <2>3 DEF IInv, RP!IInv, RP!PlaceInv
    <3>2. CASE \E w \in Waiters : WaiterBusy(w)
      <4>1. PICK w \in Waiters : WaiterBusy(w)
        BY <3>2
      <4>2. work[w].at = "lock" => work[w].resp \in Responses
        BY RpcFacts DEF IInv, RP!IInv, RP!PlaceInv, RP!TypeOK
      <4> QED
        BY <2>1, <3>1, <4>1, <4>2 DEF WaiterRuns
    <3>3. CASE \E t \in Threads : ThreadBusy(t)
      <4>1. PICK t \in Threads : ThreadBusy(t)
        BY <3>3
      <4>2. call[t].at = "idle" /\ rcall[t].at # "idle"
        BY <1>3, <4>1 DEF ThreadBusy
      <4>3. rcall[t].resp \in Responses
        BY <4>2, RpcFacts DEF IInv
      <4> QED
        BY <3>1, <4>1, <4>2, <4>3
           DEF ThreadRuns, ThreadBusy, Blocked, R!In, R!QueueLost
    <3> QED
      BY <3>2, <3>3
  <2> QED
    BY <2>2, <2>3
<1> QED
  BY <1>2, <1>3

\* No deadlock among the mutexes of the responses and of the queue, the global
\* mutex and those of the blocks: while any actor is inside a call, or at a
\* response, and neither asleep nor behind a lost mutex, one of them finds every
\* lock free that it may ask for next.
THEOREM NeverDeadlocked == Spec => []SomeoneRuns
<1>1. CP!Spec => []CP!SomeoneRuns
  BY PartsAssumed, CP!NeverDeadlocked
<1>2. IInv /\ CP!SomeoneRuns => SomeoneRuns
  BY SomeoneFree
<1> QED
  BY <1>1, <1>2, PartSpecs, Invariance, PTL
=============================================================================
