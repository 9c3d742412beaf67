-------------------------------- MODULE Cube --------------------------------
(***************************************************************************)
(* src/main/c/shared/cube.c: the memory blocks ("cubes") of one process,   *)
(* the slices of them that requests name, the locks, and the lifetimes.    *)
(*                                                                         *)
(* A cube_t is reached through the list cubes, guarded by the global mutex *)
(* it, or through a slice_t, which points to its cube.  Its own mutex      *)
(* guards the rest of it.  A cube is shared by the application and by      *)
(* every attached array argument; the last of them to let go disposes of   *)
(* it.  Threads of the application make these calls, all but __detach,     *)
(* which is made by the waiters, the completion threads of rpc.cpp.        *)
(*                                                                         *)
(* Grain.  A critical section that cannot block is one step, taken when    *)
(* its mutex is free; a lock held while the thread blocks on another, or   *)
(* across the hand-over from the global mutex to that of a cube, is held   *)
(* across steps.  The array cubes is a set here: a walk over it visits its *)
(* members in any order.  A call that returns with nothing changed is a    *)
(* stuttering step and has no action.  Sizes, offsets, page protection     *)
(* and versions are in module Pages.                                       *)
(***************************************************************************)
EXTENDS Integers, FiniteSets

CONSTANTS
  Threads,          \* threads of the process
  Waiters,          \* those of rpc.cpp that complete submissions
  Cubes,            \* the cube_t objects it ever has; each is used once
  Foreign,          \* cubes inherited by fork: cube->pid # __process()
  Regions,          \* the <<offset, size>> pairs requests name
  Addrs,            \* addresses the application stores to
  Inside,           \* [Addrs -> SUBSET Regions]: whose bytes hold the address
  OnPage,           \* [Addrs -> SUBSET Regions]: whose pages hold the address
  Links,            \* array arguments that can be in flight at one time
  SliceAllocFails,  \* whether __alloc and __init_cond may fail in __slice
  NoThread, NoCube, NoArg, NoSlice

Slices == [cube : Cubes, region : Regions]

ASSUME CubeAssumption ==
  /\ Waiters \subseteq Threads
  /\ Foreign \subseteq Cubes
  /\ IsFiniteSet(Links)
  /\ Inside \in [Addrs -> SUBSET Regions]
  /\ OnPage \in [Addrs -> SUBSET Regions]
  /\ \A a \in Addrs : Inside[a] \subseteq OnPage[a]
  /\ SliceAllocFails \in BOOLEAN
  /\ NoThread \notin Threads
  /\ NoCube \notin Cubes
  /\ NoSlice \notin Slices

VARIABLES
  it,      \* holder of the global mutex
  cubes,   \* members of the array cubes
  mutex,   \* holder of each cube->mutex
  mem,     \* state of each cube_t: "none" before __alloc, "live", "freed"
  mapped,  \* cubes whose pages are mapped in the process
  files,   \* cubes whose backing file is linked
  nlinks,  \* cube->nlinks
  slices,  \* the slice_t objects, members of the arrays cube->slices
  slinks,  \* slice->nlinks
  owned,   \* blocks the application has and has not passed to inaccel_free
  slot,    \* the slice each link was made for, NoSlice when unused
  att,     \* links that are attached
  call     \* the call each thread is in

heap == <<mem, mapped, files>>
vars == <<it, cubes, mutex, heap, nlinks, slices, slinks, owned, slot, att,
          call>>

Ops == {"none", "alloc", "access", "slice", "realloc", "free", "fork",
        "attach", "detach"}

\* A call: what is called, how far it is, the cube that holds the address
\* given, what else it names, and the cubes it has walked past.
Calls ==
  [op : Ops,
   at : {"idle", "lock", "walk", "body", "mutex", "wait", "woken"},
   cube : Cubes \cup {NoCube},
   arg : Addrs \cup Regions \cup Slices \cup Links \cup {NoArg},
   walk : SUBSET Cubes]

Idle == [op |-> "none", at |-> "idle", cube |-> NoCube, arg |-> NoArg,
         walk |-> {}]

TypeOK ==
  /\ it \in Threads \cup {NoThread}
  /\ cubes \subseteq Cubes
  /\ mutex \in [Cubes -> Threads \cup {NoThread}]
  /\ mem \in [Cubes -> {"none", "live", "freed"}]
  /\ mapped \subseteq Cubes
  /\ files \subseteq Cubes
  /\ nlinks \in [Cubes -> Int]
  /\ slices \subseteq Slices
  /\ slinks \in [Slices -> Nat]
  /\ owned \subseteq Cubes
  /\ slot \in [Links -> Slices \cup {NoSlice}]
  /\ att \subseteq Links
  /\ call \in [Threads -> Calls]

\* A process starts with no cube, or, after fork, with the cubes its parent
\* had: listed, unlocked, with slices and link counts frozen as they were.
Init ==
  /\ it = NoThread
  /\ cubes = Foreign
  /\ mutex = [c \in Cubes |-> NoThread]
  /\ mem = [c \in Cubes |-> IF c \in Foreign THEN "live" ELSE "none"]
  /\ mapped = Foreign
  /\ files = Foreign
  /\ slices \in SUBSET {s \in Slices : s.cube \in Foreign}
  /\ IsFiniteSet(slices)
  /\ slinks \in [Slices -> {0, 1}]
  /\ \A s \in Slices \ slices : slinks[s] = 0
  /\ nlinks = [c \in Cubes |->
                 Cardinality({s \in slices : s.cube = c /\ slinks[s] = 1})]
  /\ owned = Foreign
  /\ slot = [l \in Links |-> NoSlice]
  /\ att = {}
  /\ call = [t \in Threads |-> Idle]

-----------------------------------------------------------------------------
(* A thread enters a call, moves on in it, and leaves it. *)

Enter(t, op, at, c, x) ==
  /\ call[t].at = "idle"
  /\ call' = [call EXCEPT ![t] = [op |-> op, at |-> at, cube |-> c,
                                  arg |-> x, walk |-> {}]]

Goto(t, at) == call' = [call EXCEPT ![t].at = at]

Leave(t) == call' = [call EXCEPT ![t] = Idle]

In(t, op, at) == call[t].op = op /\ call[t].at = at

Lock(c, t) == mutex[c] = NoThread /\ mutex' = [mutex EXCEPT ![c] = t]

MutUnlock(c) == UNCHANGED mutex
Unlock(c) == mutex' = [mutex EXCEPT ![c] = NoThread]

SlicesOf(c) == {s \in slices : s.cube = c}

\* The application's own calls that name c.  Freeing c while one of them runs
\* is an error of the application, not a behaviour of the library.
Users(c) == {t \in Threads : call[t].cube = c /\ call[t].op # "detach"}

-----------------------------------------------------------------------------
(* inaccel_alloc, also reached as inaccel_realloc(NULL, size). *)

\* The cube, its mutex, its file and its mapping, while no other thread can
\* know them.  Failures before the file exists undo everything.
AllocMap(t, c) ==
  /\ mem[c] = "none"
  /\ Enter(t, "alloc", "lock", c, NoArg)
  /\ mem' = [mem EXCEPT ![c] = "live"]
  /\ mapped' = mapped \cup {c}
  /\ files' = files \cup {c}
  /\ UNCHANGED <<it, cubes, mutex, nlinks, slices, slinks, owned, slot, att>>

\* __map fails: the cube is freed, its file stays linked.
AllocMapFails(t, c) ==
  /\ mem[c] = "none"
  /\ call[t].at = "idle"
  /\ mem' = [mem EXCEPT ![c] = "freed"]
  /\ files' = files \cup {c}
  /\ UNCHANGED <<it, cubes, mutex, mapped, nlinks, slices, slinks, owned,
                 slot, att, call>>

\* The cube is listed and its address returned.
AllocPublish(t) ==
  LET c == call[t].cube IN
  /\ In(t, "alloc", "lock")
  /\ it = NoThread
  /\ cubes' = cubes \cup {c}
  /\ owned' = owned \cup {c}
  /\ Leave(t)
  /\ UNCHANGED <<it, mutex, heap, nlinks, slices, slinks, slot, att>>

\* __set fails: mapping, file and cube are released.
AllocPublishFails(t) ==
  LET c == call[t].cube IN
  /\ In(t, "alloc", "lock")
  /\ it = NoThread
  /\ mapped' = mapped \ {c}
  /\ files' = files \ {c}
  /\ mem' = [mem EXCEPT ![c] = "freed"]
  /\ Leave(t)
  /\ UNCHANGED <<it, cubes, mutex, nlinks, slices, slinks, owned, slot, att>>

-----------------------------------------------------------------------------
(* The walk over cubes shared by __access, __slice, inaccel_free and         *)
(* inaccel_realloc: the global mutex is held, each cube is locked in turn,   *)
(* and at the cube that holds the address the global mutex is released.      *)

WalkOps == {"access", "slice", "realloc", "free"}

BeginAccess(t, c, a) ==
  /\ Enter(t, "access", "lock", c, a)
  /\ UNCHANGED <<it, cubes, mutex, heap, nlinks, slices, slinks, owned, slot,
                 att>>

BeginSlice(t, c, r) ==
  /\ Enter(t, "slice", "lock", c, r)
  /\ UNCHANGED <<it, cubes, mutex, heap, nlinks, slices, slinks, owned, slot,
                 att>>

BeginRealloc(t, c) ==
  /\ Enter(t, "realloc", "lock", c, NoArg)
  /\ UNCHANGED <<it, cubes, mutex, heap, nlinks, slices, slinks, owned, slot,
                 att>>

BeginFree(t, c) ==
  /\ c \in owned
  /\ Users(c) = {}
  /\ Enter(t, "free", "lock", c, NoArg)
  /\ owned' = owned \ {c}
  /\ UNCHANGED <<it, cubes, mutex, heap, nlinks, slices, slinks, slot, att>>

LockIt(t) ==
  /\ call[t].op \in WalkOps \cup {"fork"}
  /\ call[t].at = "lock"
  /\ it = NoThread
  /\ it' = t
  /\ Goto(t, "walk")
  /\ UNCHANGED <<cubes, mutex, heap, nlinks, slices, slinks, owned, slot,
                 att>>

\* A cube that does not hold the address: locked, compared and unlocked.
WalkPast(t, c) ==
  /\ call[t].op \in WalkOps
  /\ call[t].at = "walk"
  /\ c \in cubes \ call[t].walk
  /\ c # call[t].cube
  /\ mutex[c] = NoThread
  /\ call' = [call EXCEPT ![t].walk = @ \cup {c}]
  /\ UNCHANGED <<it, cubes, mutex, heap, nlinks, slices, slinks, owned, slot,
                 att>>

\* The cube that does: inaccel_free takes it off the list before it lets go of
\* the global mutex.
WalkHit(t) ==
  LET c == call[t].cube IN
  /\ call[t].op \in WalkOps
  /\ call[t].at = "walk"
  /\ c \in cubes
  /\ Lock(c, t)
  /\ cubes' = IF call[t].op = "free" THEN cubes \ {c} ELSE cubes
  /\ it' = NoThread
  /\ Goto(t, "body")
  /\ UNCHANGED <<heap, nlinks, slices, slinks, owned, slot, att>>

\* No cube holds the address: SIGSEGV from __access, EADDRNOTAVAIL from others.
WalkEnd(t) ==
  /\ call[t].op \in WalkOps
  /\ call[t].at = "walk"
  /\ cubes \subseteq call[t].walk
  /\ it' = NoThread
  /\ Leave(t)
  /\ UNCHANGED <<cubes, mutex, heap, nlinks, slices, slinks, owned, slot,
                 att>>

-----------------------------------------------------------------------------
(* __access: the SIGSEGV handler, at a store to a protected page. *)

InFlight(s) == slinks[s] > 0

\* Attached slices on the page of a: those that hold a, and those that do not.
Hit(c, a) ==
  {s \in SlicesOf(c) : s.region \in Inside[a] /\ InFlight(s)}

Near(c, a) ==
  {s \in SlicesOf(c) : s.region \in OnPage[a] \ Inside[a] /\ InFlight(s)}

\* Refused (EACCES, EPERM), or the pages are unprotected and the store retried.
AccessReturn(t) ==
  LET c == call[t].cube IN
  /\ In(t, "access", "body")
  /\ \/ c \in Foreign
     \/ Hit(c, call[t].arg) # {}
     \/ Near(c, call[t].arg) = {}
  /\ Unlock(c)
  /\ Leave(t)
  /\ UNCHANGED <<it, cubes, heap, nlinks, slices, slinks, owned, slot, att>>

\* The page is shared with a slice in flight: wait until it is detached.
AccessWait(t, s) ==
  LET c == call[t].cube IN
  /\ In(t, "access", "body")
  /\ c \notin Foreign
  /\ Hit(c, call[t].arg) = {}
  /\ s \in Near(c, call[t].arg)
  /\ Unlock(c)
  /\ call' = [call EXCEPT ![t].at = "wait", ![t].arg = s]
  /\ UNCHANGED <<it, cubes, heap, nlinks, slices, slinks, owned, slot, att>>

\* Woken by a broadcast: the mutex is taken again and the count looked at again.
AccessWake(t) ==
  LET s == call[t].arg IN
  /\ In(t, "access", "woken")
  /\ mutex[s.cube] = NoThread
  /\ IF InFlight(s) THEN Goto(t, "wait") ELSE Leave(t)
  /\ UNCHANGED <<it, cubes, mutex, heap, nlinks, slices, slinks, owned, slot,
                 att>>

-----------------------------------------------------------------------------
(* __slice: the slice_t of an address and a size, made on first use. *)

SliceReturn(t) ==
  LET c == call[t].cube
      s == [cube |-> c, region |-> call[t].arg] IN
  /\ In(t, "slice", "body")
  /\ IF c \in Foreign \/ s \in slices
     THEN UNCHANGED <<slices, slinks>>
     ELSE \/ slices' = slices \cup {s} /\ slinks' = [slinks EXCEPT ![s] = 0]
          \/ UNCHANGED <<slices, slinks>>     \* __set fails
  /\ Unlock(c)
  /\ Leave(t)
  /\ UNCHANGED <<it, cubes, heap, nlinks, owned, slot, att>>

\* __alloc or __init_cond fails: NULL is returned with cube->mutex held.
SliceFails(t) ==
  LET c == call[t].cube IN
  /\ SliceAllocFails
  /\ In(t, "slice", "body")
  /\ c \notin Foreign
  /\ [cube |-> c, region |-> call[t].arg] \notin slices
  /\ Leave(t)
  /\ UNCHANGED <<it, cubes, mutex, heap, nlinks, slices, slinks, owned, slot,
                 att>>

\* inaccel_realloc: every outcome leaves what this module describes as it was.
ReallocReturn(t) ==
  /\ In(t, "realloc", "body")
  /\ Unlock(call[t].cube)
  /\ Leave(t)
  /\ UNCHANGED <<it, cubes, heap, nlinks, slices, slinks, owned, slot, att>>

-----------------------------------------------------------------------------
(* Disposal, by inaccel_free or by the last __detach. *)

\* Nobody else shares the cube: the post-decrement test !cube->nlinks--.
MutLastReference(c) == nlinks[c] <= 1
MutPreDecrement(c) == nlinks[c] < 0
LastReference(c) == nlinks[c] = 0

\* The file of a foreign cube belongs to the parent.
MutUnlink(c) == files' = files \ {c}
Unlink(c) == files' = IF c \in Foreign THEN files ELSE files \ {c}

\* File, slices and cube are released.
Dispose(c) ==
  /\ Unlink(c)
  /\ slices' = slices \ SlicesOf(c)
  /\ mem' = [mem EXCEPT ![c] = "freed"]

\* Otherwise nothing is: that is left to the last detach.
Defer(c) == UNCHANGED <<files, slices, mem>>

FreeBody(t) ==
  LET c == call[t].cube IN
  /\ In(t, "free", "body")
  /\ mapped' = mapped \ {c}
  /\ nlinks' = IF c \in Foreign THEN nlinks ELSE [nlinks EXCEPT ![c] = @ - 1]
  /\ IF c \in Foreign \/ LastReference(c) THEN Dispose(c) ELSE Defer(c)
  /\ Unlock(c)
  /\ Leave(t)
  /\ UNCHANGED <<it, cubes, slinks, owned, slot, att>>

-----------------------------------------------------------------------------
(* __attach and __detach, called by rpc.cpp for each array argument of a     *)
(* submission and of a completion.                                           *)

\* A foreign cube is refused at once (EACCES).
AttachBegin(t, l, s) ==
  /\ s.cube \notin Foreign
  /\ slot[l] = NoSlice
  /\ slot' = [slot EXCEPT ![l] = s]
  /\ Enter(t, "attach", "mutex", s.cube, l)
  /\ UNCHANGED <<it, cubes, mutex, heap, nlinks, slices, slinks, owned, att>>

\* The argument is counted on its cube and on its slice.
MutLink(s) ==
  /\ nlinks' = [nlinks EXCEPT ![s.cube] = @ + 1]
  /\ UNCHANGED slinks
Link(s) ==
  /\ nlinks' = [nlinks EXCEPT ![s.cube] = @ + 1]
  /\ slinks' = [slinks EXCEPT ![s] = @ + 1]

Attach(t) ==
  LET l == call[t].arg
      s == slot[l] IN
  /\ In(t, "attach", "mutex")
  /\ mutex[s.cube] = NoThread
  /\ Link(s)
  /\ att' = att \cup {l}
  /\ Leave(t)
  /\ UNCHANGED <<it, cubes, mutex, heap, slices, owned, slot>>

\* __protect fails.
AttachFails(t) ==
  LET l == call[t].arg IN
  /\ In(t, "attach", "mutex")
  /\ mutex[slot[l].cube] = NoThread
  /\ slot' = [slot EXCEPT ![l] = NoSlice]
  /\ Leave(t)
  /\ UNCHANGED <<it, cubes, mutex, heap, nlinks, slices, slinks, owned, att>>

\* A completion names each link once.
DetachBegin(t, l) ==
  /\ l \in att
  /\ \A u \in Threads : ~(call[u].op = "detach" /\ call[u].arg = l)
  /\ Enter(t, "detach", "mutex", slot[l].cube, l)
  /\ UNCHANGED <<it, cubes, mutex, heap, nlinks, slices, slinks, owned, slot,
                 att>>

\* Threads in __access waiting on slice->cond.
MutBroadcast(s, cs) == cs
Broadcast(s, cs) ==
  [u \in Threads |->
     IF cs[u].at = "wait" /\ cs[u].arg = s
     THEN [cs[u] EXCEPT !.at = "woken"] ELSE cs[u]]

Detach(t) ==
  LET l == call[t].arg
      s == slot[l]
      c == s.cube IN
  /\ In(t, "detach", "mutex")
  /\ mutex[c] = NoThread
  /\ slinks' = [slinks EXCEPT ![s] = @ - 1]
  /\ nlinks' = [nlinks EXCEPT ![c] = @ - 1]
  /\ IF LastReference(c) THEN Dispose(c) ELSE Defer(c)
  /\ att' = att \ {l}
  /\ slot' = [slot EXCEPT ![l] = NoSlice]
  /\ call' = Broadcast(s, [call EXCEPT ![t] = Idle])
  /\ UNCHANGED <<it, cubes, mutex, mapped, owned>>

-----------------------------------------------------------------------------
(* fork: __prepare takes every lock, __parent gives them back.  The child is *)
(* a process of its own whose Foreign cubes are the ones listed at that time.*)

ForkBegin(t) ==
  /\ Enter(t, "fork", "lock", NoCube, NoArg)
  /\ UNCHANGED <<it, cubes, mutex, heap, nlinks, slices, slinks, owned, slot,
                 att>>

ForkLock(t, c) ==
  /\ In(t, "fork", "walk")
  /\ c \in cubes \ call[t].walk
  /\ Lock(c, t)
  /\ call' = [call EXCEPT ![t].walk = @ \cup {c}]
  /\ UNCHANGED <<it, cubes, heap, nlinks, slices, slinks, owned, slot, att>>

ForkReturn(t) ==
  /\ In(t, "fork", "walk")
  /\ cubes = call[t].walk
  /\ mutex' = [c \in Cubes |-> IF c \in cubes THEN NoThread ELSE mutex[c]]
  /\ it' = NoThread
  /\ Leave(t)
  /\ UNCHANGED <<cubes, heap, nlinks, slices, slinks, owned, slot, att>>

-----------------------------------------------------------------------------

\* What a thread of the application may start.  The address given to a lookup
\* lies in a block of the application's or in none (NoCube).
Begin(t) ==
  \/ \E c \in Cubes : AllocMap(t, c) \/ AllocMapFails(t, c) \/ BeginFree(t, c)
  \/ \E c \in owned \cup {NoCube} :
       \/ \E a \in Addrs : BeginAccess(t, c, a)
       \/ \E r \in Regions : BeginSlice(t, c, r)
       \/ BeginRealloc(t, c)
  \/ \E l \in Links, s \in slices : s.cube \in owned /\ AttachBegin(t, l, s)
  \/ ForkBegin(t)

\* What a waiter may: an answer has come.
Complete(t) == \E l \in Links : DetachBegin(t, l)

\* The rest of a call.
Continue(t) ==
  \/ AllocPublish(t) \/ AllocPublishFails(t)
  \/ LockIt(t) \/ WalkHit(t) \/ WalkEnd(t)
  \/ \E c \in Cubes : WalkPast(t, c) \/ ForkLock(t, c)
  \/ AccessReturn(t) \/ AccessWake(t)
  \/ \E s \in slices : AccessWait(t, s)
  \/ SliceReturn(t) \/ SliceFails(t) \/ ReallocReturn(t) \/ FreeBody(t)
  \/ Attach(t) \/ AttachFails(t) \/ Detach(t)
  \/ ForkReturn(t)

Next ==
  \/ \E t \in Threads \ Waiters : Begin(t)
  \/ \E t \in Waiters : Complete(t)
  \/ \E t \in Threads : Continue(t)

Spec == Init /\ [][Next]_vars

\* A thread inside a call is scheduled, and does not wait forever for a mutex
\* that is released again and again.  Nothing obliges the application to make
\* a call or a completion to arrive.
FairSpec == Spec /\ \A t \in Threads : SF_vars(Continue(t))

-----------------------------------------------------------------------------

\* The cubes on the list, the cube and the slice that a thread inside a call
\* is about to touch, and those that a submitted argument will touch when it
\* completes, have not been released; and the pages are still mapped for the
\* calls that change their protection.
NoUseAfterFree ==
  /\ \A c \in cubes : mem[c] = "live" /\ c \in mapped
  /\ \A t \in Threads :
       /\ call[t].at \in {"body", "mutex", "wait", "woken"}
            => mem[call[t].cube] = "live"
       /\ call[t].at \in {"wait", "woken"} => call[t].arg \in slices
       /\ call[t].op # "detach" /\ call[t].at \in {"body", "mutex"}
            => call[t].cube \in mapped
  /\ \A l \in Links :
       slot[l] # NoSlice => slot[l] \in slices /\ mem[slot[l].cube] = "live"

\* The counts that decide who disposes: slice->nlinks is the number of
\* submitted arguments on the slice, cube->nlinks their number on the cube,
\* less one once inaccel_free has given up the application's share.
LinksOf(c) == {l \in att : slot[l].cube = c}
LinksOn(s) == {l \in att : slot[l] = s}

ReferencesCounted ==
  /\ \A c \in Cubes \ Foreign :
       mem[c] = "live" =>
         nlinks[c] = Cardinality(LinksOf(c)) - (IF c \in mapped THEN 0 ELSE 1)
  /\ \A s \in slices :
       s.cube \notin Foreign => slinks[s] = Cardinality(LinksOn(s))

\* The file of a block outlives inaccel_free for as long as an argument made
\* from the block is in flight, and a child never unlinks its parent's files.
BackedWhileLive ==
  /\ \A c \in Cubes : mem[c] = "live" => c \in files
  /\ Foreign \subseteq files

\* A thread sleeps in __access only while the slice it waits for is in flight:
\* no completion slips between its test of the count and its sleep.
NoLostWakeup ==
  \A t \in Threads : call[t].at = "wait" => InFlight(call[t].arg)

\* Blocks die in one direction only, and a call that disposes of one does so
\* with no argument on it: no step but the last detach, or a free with nothing
\* attached, ever releases a published block.
DisposedOnce ==
  [][\A c \in Cubes :
       mem[c] = "live" /\ mem'[c] = "freed" =>
         /\ c \notin cubes' /\ c \notin owned' /\ c \notin mapped'
         /\ \A l \in att' : slot'[l].cube # c]_vars

\* The locks t may ask for next are free: the global mutex, the mutex of
\* whichever block is next on the list, that of its own block.
Runs(t) ==
  /\ call[t].at \notin {"idle", "wait"}
  /\ call[t].at = "lock" => it = NoThread
  /\ call[t].at = "walk" => \A c \in cubes \ call[t].walk : mutex[c] = NoThread
  /\ call[t].at \in {"mutex", "woken"} => mutex[call[t].cube] = NoThread

\* No set of threads waits for the locks of each other, in a walk over the list,
\* in fork, which takes all of them, or in a completion.
SomeoneRuns ==
  (\E t \in Threads : call[t].at \notin {"idle", "wait"}) =>
    \E t \in Threads : Runs(t)

\* Every call returns, or sleeps on a slice in flight: no deadlock between the
\* global mutex and those of the cubes, whatever the other threads do.
CallsReturn ==
  \A t \in Threads :
    call[t].at \notin {"idle", "wait"} ~> call[t].at \in {"idle", "wait"}

\* A block passed to inaccel_free is released once no argument is on it.
Forsaken(c) ==
  /\ mem[c] = "live"
  /\ c \notin owned
  /\ LinksOf(c) = {}
  /\ \A t \in Threads : ~(call[t].op = "alloc" /\ call[t].cube = c)

FreeCompletes == \A c \in Cubes : Forsaken(c) ~> mem[c] = "freed"

\* A store held up by a slice in flight goes on once the slice stays detached.
StoreProceeds ==
  \A t \in Threads, s \in Slices :
    <>[](slinks[s] = 0) =>
      []<>~(call[t].at \in {"wait", "woken"} /\ call[t].arg = s)

=============================================================================
