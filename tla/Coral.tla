-------------------------------- MODULE Coral --------------------------------
(***************************************************************************)
(* rpc.cpp on top of cube.c: Rpc composed with Cube.  The arrays Rpc       *)
(* counts are links of Cube here, __attach and __detach take the mutexes   *)
(* of the blocks, and requests name slices that __slice returned.          *)
(*                                                                         *)
(* Every step is one of Cube, one of Rpc, or, where inaccel_submit attaches*)
(* and a waiter detaches, one of both.  A thread is in one call at a time: *)
(* a call of Cube is made by the application, or from a call of Rpc.       *)
(* inaccel_submit and inaccel_alloc fail as they do there.  Left to Cube   *)
(* and Rpc are fork, inaccel_realloc, timed waits, and a __slice that      *)
(* fails to allocate.                                                      *)
(***************************************************************************)
EXTENDS Integers, Sequences, FiniteSets

CONSTANTS
  Threads,    \* threads of the application, each with one request
  Waiters, Cubes, Regions, Addrs, Inside, OnPage, Links, Responses,
  MaxArgs,    \* array arguments a request can have
  Failures, NoThread, NoCube, NoArg, NoSlice, NoResponse

\* As in Cube, and that the actors and the values for none are told apart.
ASSUME CoralAssumption ==
  /\ Threads \cap Waiters = {}
  /\ MaxArgs \in Nat
  /\ IsFiniteSet(Links)
  /\ Inside \in [Addrs -> SUBSET Regions]
  /\ OnPage \in [Addrs -> SUBSET Regions]
  /\ \A a \in Addrs : Inside[a] \subseteq OnPage[a]
  /\ NoThread \notin Threads \cup Waiters
  /\ NoCube \notin Cubes
  /\ NoSlice \notin [cube : Cubes, region : Regions]
  /\ NoResponse \notin Responses

VARIABLES
  it, cubes, mutex, mem, mapped, files, nlinks, slices, slinks, owned, slot,
  att, call,                                        \* as in Cube
  qit, cq, running, rmem, rowned, phase, cancelled, done, rmutex, copy, calls,
  answers, rcall, work,                             \* as in Rpc
  args,     \* the array arguments of each thread's request: slices, in order
  of        \* the response each link was made for, or NoResponse

C == INSTANCE Cube WITH
  Threads <- Threads \cup Waiters, Foreign <- {}, SliceAllocFails <- FALSE

\* The arguments attached for a response are those links.
ArraysOf(r) == {l \in att : of[l] = r}

R == INSTANCE Rpc WITH
  it <- qit, mem <- rmem, owned <- rowned, mutex <- rmutex, call <- rcall,
  held <- [r \in Responses |-> Cardinality(ArraysOf(r))],
  Arrays <- 0 .. MaxArgs, Forked <- FALSE

cube == <<it, cubes, mutex, mem, mapped, files, nlinks, slices, slinks, owned,
          slot, att, call>>
rpc == <<qit, cq, running, rmem, rowned, phase, cancelled, done, rmutex, copy,
         calls, answers, rcall, work>>
vars == <<cube, rpc, args, of>>

Init ==
  /\ args = [t \in Threads |-> <<>>]
  /\ of = [l \in Links |-> NoResponse]
  /\ C!Init
  /\ R!Init

-----------------------------------------------------------------------------
(* Calls of the application on its memory, and on its request *)

Free(t) == call[t] = C!Idle /\ rcall[t] = R!Idle

\* The application frees no block that a request of its own names; one that a
\* submission in flight names, it may.
Named(c) == \E t \in Threads : \E i \in DOMAIN args[t] : args[t][i].cube = c

UseMemory(t) ==
  /\ Free(t)
  /\ \/ \E c \in Cubes :
          \/ C!AllocMap(t, c) \/ C!AllocMapFails(t, c)
          \/ ~Named(c) /\ C!BeginFree(t, c)
     \/ \E c \in owned, a \in Addrs : C!BeginAccess(t, c, a)
  /\ UNCHANGED <<rpc, args, of>>

\* inaccel_request_arg_array begins with __slice,
BeginArray(t) ==
  /\ Free(t)
  /\ Len(args[t]) < MaxArgs
  /\ \E c \in owned, r \in Regions : C!BeginSlice(t, c, r)
  /\ UNCHANGED <<rpc, args, of>>

\* and ends with the argument set, if there is a slice.
Array(t) ==
  LET s == [cube |-> call[t].cube, region |-> call[t].arg] IN
  /\ C!SliceReturn(t)
  /\ args' = IF s \in slices' THEN [args EXCEPT ![t] = Append(@, s)] ELSE args
  /\ UNCHANGED <<rpc, of>>

\* inaccel_request_release and a new request.
NewRequest(t) ==
  /\ Free(t)
  /\ args[t] # <<>>
  /\ args' = [args EXCEPT ![t] = <<>>]
  /\ UNCHANGED <<cube, rpc, of>>

Proceed(t) ==
  /\ call[t].op \notin {"attach", "detach"}
  /\ ~C!In(t, "slice", "body")
  /\ C!Continue(t)
  /\ UNCHANGED <<rpc, args, of>>

-----------------------------------------------------------------------------
(* Calls on responses *)

BeginCall(t) ==
  /\ Free(t)
  /\ UNCHANGED <<cube, args, of>>
  /\ \E r \in Responses :
       R!BeginSubmit(t, r, Len(args[t])) \/ R!BeginWait(t, r, "wait")

\* inaccel_submit calls __attach for the next argument.
CallAttach(t) ==
  /\ R!In(t, "attach")
  /\ rcall[t].left > 0
  /\ \E l \in Links :
       /\ C!AttachBegin(t, l, args[t][rcall[t].arrays - rcall[t].left + 1])
       /\ of' = [of EXCEPT ![l] = rcall[t].resp]
  /\ UNCHANGED <<rpc, args>>

Attach(t) ==
  /\ C!Attach(t)
  /\ UNCHANGED <<args, of>>
  /\ R!Attach(t)

\* The arrays attached before stay attached.
AttachFails(t) ==
  /\ C!AttachFails(t)
  /\ of' = [of EXCEPT ![call[t].arg] = NoResponse]
  /\ UNCHANGED args
  /\ R!AttachFails(t)

Reply(t) ==
  /\ call[t] = C!Idle
  /\ UNCHANGED <<cube, args, of>>
  /\ \/ R!Copy(t) \/ R!Throw(t)
     \/ R!Queue(t) \/ R!DaemonFails(t) \/ R!QueueThrows(t) \/ R!Start(t)
     \/ R!Test(t) \/ R!WaitReturn(t)

Manage(r) ==
  /\ UNCHANGED <<cube, args, of>>
  /\ R!Create(r) \/ R!Release(r)

Answer(r) ==
  /\ UNCHANGED <<cube, args, of>>
  /\ R!Answer(r)

-----------------------------------------------------------------------------
(* A waiter holds response->mutex and waits for the mutex of a block. *)

Take(w, r) ==
  /\ UNCHANGED <<cube, args, of>>
  /\ R!Take(w, r)

CallDetach(w) ==
  /\ work[w].at = "detach"
  /\ work[w].left > 0
  /\ \E l \in ArraysOf(work[w].resp) : C!DetachBegin(w, l)
  /\ UNCHANGED <<rpc, args, of>>

Detach(w) ==
  /\ C!Detach(w)
  /\ of' = [of EXCEPT ![call[w].arg] = NoResponse]
  /\ UNCHANGED args
  /\ R!Detach(w)

Finish(w) ==
  /\ call[w] = C!Idle
  /\ UNCHANGED <<cube, args, of>>
  /\ R!LockResponse(w) \/ R!Complete(w)

-----------------------------------------------------------------------------

Begin(t) == UseMemory(t) \/ BeginArray(t) \/ NewRequest(t) \/ BeginCall(t)

Continue(t) ==
  Proceed(t) \/ Array(t) \/ CallAttach(t) \/ Attach(t) \/ AttachFails(t) \/ Reply(t)

Serve(w) ==
  (\E r \in Responses : Take(w, r)) \/ CallDetach(w) \/ Detach(w) \/ Finish(w)

Next ==
  \/ \E t \in Threads : Begin(t) \/ Continue(t)
  \/ \E w \in Waiters : Serve(w)
  \/ \E r \in Responses : Manage(r) \/ Answer(r)

Spec == Init /\ [][Next]_vars

\* As in Cube and Rpc: who is inside a call goes on, calls are answered, and no
\* answer is passed over in the queue for ever.
FairSpec ==
  /\ Spec
  /\ \A t \in Threads : SF_vars(Continue(t))
  /\ \A w \in Waiters : SF_vars(Serve(w))
  /\ \A r \in Responses :
       WF_vars(Answer(r)) /\ SF_vars(\E w \in Waiters : Take(w, r))

-----------------------------------------------------------------------------

\* Arrays are the accelerator's for just as long as it may work on them.  While
\* a call is open each array of its request is attached, in a live block whose
\* file is linked, even if the application has freed the block.  Once the
\* response is seen done, or is deleted, none is attached for it or about to be
\* detached: the application can store to all of them.
ArraysOnLoan ==
  /\ \A r \in calls :
       /\ Cardinality(ArraysOf(r)) = copy[r]
       /\ \A l \in ArraysOf(r) :
            slot[l] \in slices /\ slinks[slot[l]] > 0 /\ slot[l].cube \in files
  /\ \A r \in Responses :
       done[r] \/ rmem[r] = "freed" => \A l \in Links : of[l] # r

\* A submission that comes when an exception has left the queue's mutex locked.
Blocked(t) == R!In(t, "queue") /\ R!QueueLost

\* Every call returns, or is a store that waits for a slice in flight: no cycle
\* of response->mutex, the queue's, the list's and the blocks' mutexes.  As in
\* Rpc, those are excepted that need what a failed submission took with it: the
\* mutex of the queue, and the waiters.
CallsReturn ==
  \A t \in Threads :
    ~Free(t) ~>
      \/ Free(t)
      \/ call[t].at \in {"wait", "woken"}
      \/ Blocked(t)
      \/ R!In(t, "sleep") /\ R!Unserved

\* An argument that no waiter will give back: its submission failed half way,
\* stops at the queue's mutex, or was sent and nobody serves the queue.
Lost(l) ==
  \/ phase[of[l]] = "failed"
  \/ phase[of[l]] = "submitting" /\ R!QueueLost
  \/ phase[of[l]] = "sent" /\ R!Unserved

Stuck(c) == \E l \in att : slot[l].cube = c /\ Lost(l)

Submitting == \E t \in Threads : rcall[t].op = "submit" /\ ~Blocked(t)

\* A store held up by a slice in flight goes on, as the server answers, unless
\* submissions never cease or an argument of the block is lost.
StoresGoOn ==
  \A t \in Threads :
    <>[]~Submitting =>
      (call[t].at \in {"wait", "woken"} ~> Free(t) \/ Stuck(call[t].cube))

\* A block passed to inaccel_free is released, as the server answers, unless an
\* argument of it is lost.
BlocksReclaimed ==
  \A c \in Cubes :
    c \in cubes /\ c \notin owned ~> mem[c] = "freed" \/ Stuck(c)

=============================================================================
