-------------------------------- MODULE Pages --------------------------------
(***************************************************************************)
(* src/main/c/shared/cube.c: how the pages of one block and the versions   *)
(* of its slices keep the accelerator's copies up to date.                 *)
(*                                                                         *)
(* A submission write-protects the pages of each array argument (__attach) *)
(* and sends the version of its slice; the other side may use the copy it  *)
(* already has of a slice and a version.  A store to a protected page      *)
(* traps into __access, which waits for slices in flight on that page, or  *)
(* gives the page back and steps the version of every slice on it.         *)
(*                                                                         *)
(* Grain.  A critical section of cube->mutex is one step (module Cube has  *)
(* the locks).  An address is an offset from cube->page.addr, which is     *)
(* page aligned; prot is kept per byte, and mprotect is always called on   *)
(* whole pages.  A store that is refused leaves through the previous       *)
(* SIGSEGV handler; so does one whose mprotect fails in __access, which is *)
(* not modelled.                                                           *)
(***************************************************************************)
EXTENDS Integers, FiniteSets

CONSTANTS
  Threads,     \* threads that store into the block
  Links,       \* array arguments in flight at one time
  PageSize,    \* sysconf(_SC_PAGESIZE)
  InitSize,    \* the size given to inaccel_alloc
  Sizes,       \* the sizes given to inaccel_realloc
  Limit,       \* bound: no block is larger
  Shapes,      \* the [offset, size] of the slices that requests name
  MaxVersion,  \* UINT_MAX
  NoShape, NoAddr

VARIABLES
  size,     \* cube->page.size
  prot,     \* what each byte of the address space allows: "rw", "ro", "none"
  slices,   \* shapes of the members of cube->slices
  nlinks,   \* slice->nlinks
  version,  \* slice->version
  arg,      \* each link: its slice, and whether the version has been read
  store     \* each thread: the store it is at

\* The other side's copy of each slice: the version it was sent last for it,
\* whether the copy differs from the slice's bytes, and how often the version
\* has been stepped since the copy was made (counted up to MaxVersion + 1).
VARIABLES last, dirty, bumps

known == <<last, dirty, bumps>>
vars == <<size, prot, slices, nlinks, version, arg, store, known>>

-----------------------------------------------------------------------------

Floor(x) == x - (x % PageSize)
Ceil(x) == Floor(x + PageSize - 1)

Space == 0 .. Limit - 1
Unsent == -1
Unused == [shape |-> NoShape, at |-> "unused"]
Idle == [at |-> "idle", addr |-> NoAddr, on |-> NoShape]

\* The bytes of a slice, and those of its pages.
Bytes(s) == {a \in Space : s.offset <= a /\ a < s.offset + s.size}

PageOffset(s) == Floor(s.offset)
PageLength(s) == Ceil(s.offset - PageOffset(s) + s.size)
Span(s) ==
  {a \in Space : PageOffset(s) <= a /\ a < PageOffset(s) + PageLength(s)}

ASSUME PagesAssumption ==
  /\ PageSize \in Nat \ {0}
  /\ Limit \in Nat
  /\ InitSize \in Nat \ {0} /\ Ceil(InitSize) <= Limit
  /\ Sizes \subseteq Nat /\ \A n \in Sizes : Ceil(n) <= Limit
  /\ Shapes \subseteq [offset : Nat, size : Nat \ {0}]
  /\ MaxVersion \in Nat
  /\ NoShape \notin Shapes
  /\ NoAddr \notin Space
  /\ IsFiniteSet(Links)

TypeOK ==
  /\ size \in 0 .. Limit
  /\ prot \in [Space -> {"rw", "ro", "none"}]
  /\ slices \subseteq Shapes
  /\ nlinks \in [Shapes -> Nat]
  /\ version \in [Shapes -> 0 .. MaxVersion]
  /\ arg \in [Links -> [shape : Shapes \cup {NoShape},
                        at : {"unused", "attached", "sent"}]]
  /\ store \in [Threads -> [at : {"idle", "store", "fault", "wait"},
                            addr : Space \cup {NoAddr},
                            on : Shapes \cup {NoShape}]]
  /\ last \in [Shapes -> 0 .. MaxVersion \cup {Unsent}]
  /\ dirty \in [Shapes -> BOOLEAN]
  /\ bumps \in [Shapes -> 0 .. MaxVersion + 1]

\* A block fresh from inaccel_alloc.
Init ==
  /\ size = Ceil(InitSize)
  /\ prot = [a \in Space |-> IF a < Ceil(InitSize) THEN "rw" ELSE "none"]
  /\ slices = {}
  /\ nlinks = [s \in Shapes |-> 0]
  /\ version = [s \in Shapes |-> 0]
  /\ arg = [l \in Links |-> Unused]
  /\ store = [t \in Threads |-> Idle]
  /\ last = [s \in Shapes |-> Unsent]
  /\ dirty = [s \in Shapes |-> FALSE]
  /\ bumps = [s \in Shapes |-> 0]

-----------------------------------------------------------------------------
(* Submissions *)

\* __slice: within the block, and made on first use.
Slice(s) ==
  /\ s \notin slices
  /\ s.offset + s.size <= size
  /\ slices' = slices \cup {s}
  /\ UNCHANGED <<size, prot, nlinks, version, arg, store, known>>

\* mprotect on the pages of the slices S.
Protected(S, p) ==
  [a \in Space |-> IF \E s \in S : a \in Span(s) THEN p ELSE prot[a]]

Attach(l, s) ==
  /\ arg[l] = Unused
  /\ s \in slices
  /\ prot' = Protected({s}, "ro")
  /\ nlinks' = [nlinks EXCEPT ![s] = @ + 1]
  /\ arg' = [arg EXCEPT ![l] = [shape |-> s, at |-> "attached"]]
  /\ UNCHANGED <<size, slices, version, store, known>>

\* inaccel_submit reads the version after __attach has unlocked the cube, and
\* the request goes out with it.  The other side (external) makes its copy anew,
\* or keeps the one it has of that version.
Send(l) ==
  LET s == arg[l].shape IN
  /\ arg[l].at = "attached"
  /\ arg' = [arg EXCEPT ![l].at = "sent"]
  /\ last' = [last EXCEPT ![s] = version[s]]
  /\ \/ /\ dirty' = [dirty EXCEPT ![s] = FALSE]
        /\ bumps' = [bumps EXCEPT ![s] = 0]
     \/ last[s] = version[s] /\ UNCHANGED <<dirty, bumps>>
  /\ UNCHANGED <<size, prot, slices, nlinks, version, store>>

\* __detach, when the answer comes.  The pages stay protected.
MutRelease(s) == UNCHANGED nlinks
Release(s) == nlinks' = [nlinks EXCEPT ![s] = @ - 1]

Detach(l) ==
  /\ arg[l].at = "sent"
  /\ Release(arg[l].shape)
  /\ arg' = [arg EXCEPT ![l] = Unused]
  /\ UNCHANGED <<size, prot, slices, version, store, known>>

-----------------------------------------------------------------------------
(* inaccel_realloc to a larger size.  mremap (external) wants one mapping    *)
(* with one protection, and gives it to the new pages too.  The block may     *)
(* move, so the application has no store to it under way.                    *)

Grow(n) ==
  LET p == prot[0] IN
  /\ n > size
  /\ \A t \in Threads : store[t] = Idle
  /\ \A a \in Space : a < size => prot[a] = p
  /\ size' = Ceil(n)
  /\ prot' = [a \in Space |-> IF a < Ceil(n) THEN p ELSE prot[a]]
  /\ UNCHANGED <<slices, nlinks, version, arg, store, known>>

-----------------------------------------------------------------------------
(* Stores, and the handler of those that trap *)

BeginStore(t, a) ==
  /\ store[t] = Idle
  /\ a < size
  /\ store' = [store EXCEPT ![t] = [at |-> "store", addr |-> a,
                                    on |-> NoShape]]
  /\ UNCHANGED <<size, prot, slices, nlinks, version, arg, known>>

Goto(t, at) == store' = [store EXCEPT ![t].at = at]

\* The page may be written.
Store(t) ==
  LET a == store[t].addr IN
  /\ store[t].at = "store"
  /\ prot[a] = "rw"
  /\ dirty' = [s \in Shapes |-> dirty[s] \/ a \in Bytes(s)]
  /\ store' = [store EXCEPT ![t] = Idle]
  /\ UNCHANGED <<size, prot, slices, nlinks, version, arg, last, bumps>>

\* It may not: SIGSEGV.
Trap(t) ==
  /\ store[t].at = "store"
  /\ prot[store[t].addr] = "ro"
  /\ Goto(t, "fault")
  /\ UNCHANGED <<size, prot, slices, nlinks, version, arg, known>>

\* The slices on the page of a, and those of them in flight with and without
\* a itself.
MutCovering(a) == {s \in slices : a \in Bytes(s)}
Covering(a) == {s \in slices : a \in Span(s)}

Hit(a) == {s \in Covering(a) : nlinks[s] > 0 /\ a \in Bytes(s)}

MutNear(a) == {}
Near(a) == {s \in Covering(a) : nlinks[s] > 0 /\ a \notin Bytes(s)}

\* EPERM: the store is not made.
AccessRefuse(t) ==
  /\ store[t].at = "fault"
  /\ Hit(store[t].addr) # {}
  /\ store' = [store EXCEPT ![t] = Idle]
  /\ UNCHANGED <<size, prot, slices, nlinks, version, arg, known>>

AccessWait(t, s) ==
  /\ store[t].at = "fault"
  /\ Hit(store[t].addr) = {}
  /\ s \in Near(store[t].addr)
  /\ store' = [store EXCEPT ![t].at = "wait", ![t].on = s]
  /\ UNCHANGED <<size, prot, slices, nlinks, version, arg, known>>

\* Woken by __detach, and the slice is not in flight: the store is retried.
AccessWake(t) ==
  /\ store[t].at = "wait"
  /\ nlinks[store[t].on] = 0
  /\ store' = [store EXCEPT ![t].at = "store", ![t].on = NoShape]
  /\ UNCHANGED <<size, prot, slices, nlinks, version, arg, known>>

\* slice->version++, an unsigned int.
Bump(v) == IF v = MaxVersion THEN 0 ELSE v + 1

\* The pages of every slice on the page are given back, all those versions are
\* stepped, and the store is retried.
AccessUnprotect(t) ==
  LET a == store[t].addr
      S == Covering(a) IN
  /\ store[t].at = "fault"
  /\ Hit(a) = {} /\ Near(a) = {}
  /\ prot' = Protected(S, "rw")
  /\ version' = [s \in Shapes |->
                   IF s \in S THEN Bump(version[s]) ELSE version[s]]
  /\ bumps' = [s \in Shapes |->
                 IF s \in S /\ bumps[s] <= MaxVersion
                 THEN bumps[s] + 1 ELSE bumps[s]]
  /\ Goto(t, "store")
  /\ UNCHANGED <<size, slices, nlinks, arg, last, dirty>>

-----------------------------------------------------------------------------

Continue(t) ==
  \/ Store(t) \/ Trap(t)
  \/ AccessRefuse(t) \/ AccessWake(t) \/ AccessUnprotect(t)
  \/ \E s \in Shapes : AccessWait(t, s)

Next ==
  \/ \E s \in Shapes : Slice(s)
  \/ \E l \in Links : Send(l) \/ Detach(l) \/ \E s \in Shapes : Attach(l, s)
  \/ \E n \in Sizes : Grow(n)
  \/ \E t \in Threads : Continue(t) \/ \E a \in Space : BeginStore(t, a)

Spec == Init /\ [][Next]_vars

\* A storing thread runs; nothing obliges a submission or an answer to come.
FairSpec == Spec /\ \A t \in Threads : WF_vars(Continue(t))

-----------------------------------------------------------------------------

\* A slice whose bytes differ from the other side's copy does not have the
\* version of the copy any more, unless the counter has gone all the way round:
\* nobody is served a stale copy.
Coherent ==
  \A s \in Shapes :
    last[s] # Unsent /\ dirty[s] /\ bumps[s] <= MaxVersion
      => version[s] # last[s]

\* An argument works on the contents it was submitted with: from its __attach to
\* its __detach no byte of its pages can be written, whoever else attaches and
\* detaches the slice, and from its sending the copy at the other side, made for
\* it or kept from before, is what the slice holds.
InFlightIntact ==
  \A l \in Links : arg[l] # Unused =>
    LET s == arg[l].shape IN
    /\ \A a \in Span(s) : prot[a] = "ro"
    /\ arg[l].at = "sent" /\ bumps[s] <= MaxVersion => ~dirty[s]

\* A store ends, done or refused, when nothing stays in flight.
StoresEnd ==
  (<>[]\A l \in Links : arg[l] = Unused)
    => \A t \in Threads : []<>(store[t] = Idle)

=============================================================================
