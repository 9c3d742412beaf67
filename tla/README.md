# A TLA+ model of Coral API

Coral API is the client library through which an application hands work to
InAccel's Coral server: blocks of memory the accelerator can reach
(`inaccel_alloc`), requests that name arrays in those blocks
(`inaccel_request_arg_array`), and responses on which to wait
(`inaccel_submit`, `inaccel_response_wait`). This directory holds a TLA+ model of
the parts of it where threads, signals and the server's answers interleave, the
TLC configurations that check it on small instances, and proofs, checked by
TLAPS, that hold for every instance.

Paths below are relative to the repository; `cube.c` and its neighbours are in
`src/main/c/shared/`.

## Inventory

| Part | State it keeps | Operations | Whom it meets |
|---|---|---|---|
| Blocks, `cube.c` | the list `cubes` under the mutex `it`; per `cube_t` a mutex, `nlinks`, address and size, `pid`, `slices`; per `slice_t` a condition variable, `nlinks`, offsets, `version` | `inaccel_alloc`, `inaccel_free`, `inaccel_realloc`; `__slice`, `__attach`, `__detach`; `__access` from the SIGSEGV handler; `__prepare`, `__parent`, `__child` around fork | application threads, signal handlers on them, completion threads, forked children |
| Requests and responses, `rpc.cpp` | the completion queue `cq` under a mutex `it`; per response a mutex, a condition variable, `cancelled`, `done`, a copy of the request | `inaccel_request_*`, `inaccel_response_create`, `_wait`, `_wait_for`, `_release`, `inaccel_submit`, `__waiter` | calls `__slice`, `__attach`, `__detach`; gRPC and the server |
| The process's directory, `self.c` | the name `self`; a directory below the data directory; a watcher process | `__mkself`, `__init` (also in a forked child), `__link_open`, `__reopen`, `__unlink` | blocks' backing files; pids |
| Pointer arrays, `collection.c` | a NULL-terminated array | `__set`, `__unset`, `__clear` | `cubes`, `slices` |
| Wrappers, `utils.c` | none | one system call each; page rounding | everything |
| Data directory, `config.c` | one string | read once | `self.c` |
| Loader, `src/main/c/static/coral.c` | handles of the embedded library | loads it, forwards the calls | - |
| C++ (`rpc.hpp`, `shm.hpp`), Java, Python | futures, byte buffers, arrays | `submit` as a future: submit, wait, read the status, release | the C interface |
| Wire format, `src/grpc/coral.proto` | - | request with arguments, identifiers and versions | the server |

What is hard in it, component by component (PROJECT.json lists each hazard at its
line):

* **Blocks.** Three kinds of lock-holder meet: lookups take `it` and then each
  `cube->mutex` along the list; `__attach` and `__detach` come in through a
  `slice_t *` that they hold from an earlier lookup, and take only the cube's
  mutex; fork takes everything. A block may be freed with arguments in flight, so
  either `inaccel_free` or the last `__detach` disposes of it, and nothing may
  touch it afterwards. The fault handler sleeps on a slice's condition while the
  block, the slice or the count may change under it. *Correct* means: no released
  object is reached, the counts are exact, one of the two disposes, once, no
  wakeup is lost, every call returns.
* **Pages and versions.** Write protection is kept per page and versions per
  slice; slices share pages. *Correct* means: bytes the accelerator is working on
  are not written; a slice that was changed is never submitted with the version
  it had before; a store ends.
* **Responses.** The application's release races with the waiter's completion,
  a timed wait with the answer, and a submission has many steps that can fail
  half way. *Correct* means: a response is deleted by exactly one of the two, and
  after the last use; arrays are attached from before the call starts until its
  answer is handled; a submitted response completes; every wait returns.
* **Self.** fork, crash and reuse of a pid against a watcher that polls once a
  second. *Correct* means: a living process that made its directory keeps its files, no two of
  them share a name, a dead one's files go.
* **Pointer arrays.** No length is kept; `realloc` may fail or leave slots unwritten. *Correct*
  means: each array ends with NULL inside what was allocated, and is the list it stands for.
* **Bindings.** A request object is filled through a cursor and may be changed and submitted
  again while in flight; a future's function has many ways out, may be cancelled, or may wait for
  a thread of a bounded pool. *Correct* means: arguments without holes, each completion gives back
  the arrays of its own submission, a response is released once, after its last use, and every get
  returns.

## Modules

### Cube - blocks, slices, locks and lifetimes (`cube.c`)

State, with what it stands for: `it` and `mutex` are the holders of the global
mutex and of each `cube->mutex`; `cubes` the members of the list; `mem`, `mapped`
and `files` whether the `cube_t`, its pages and its backing file exist; `nlinks`
and `slinks` are `cube->nlinks` and `slice->nlinks`; `slices` the `slice_t`
objects. Three variables stand for the callers: `owned` is the blocks the
application has not freed, `slot`/`att` are the array arguments on their way
(a link is an argument from the start of its `__attach` to the end of its
`__detach`), and `call` is the call each thread is in and how far.

One action is one critical section that cannot block, or the part of one between
two points where it can. The walk that `__access`, `__slice`, `inaccel_free` and
`inaccel_realloc` share is written once: `LockIt`, `WalkPast` (a cube that does
not hold the address), `WalkHit` (the one that does, where the global mutex is
handed over), `WalkEnd`. Each has its own body: `AccessReturn`, `AccessWait`,
`AccessWake`, `SliceReturn`, `SliceFails`, `ReallocReturn`, `FreeBody`.
`AllocMap`/`AllocPublish` with their failing twins are `inaccel_alloc`;
`AttachBegin`, `Attach`, `AttachFails`, `DetachBegin`, `Detach` are the calls
`rpc.cpp` makes; `ForkBegin`, `ForkLock`, `ForkReturn` are fork in the parent.
The child is a process of its own: the constant `Foreign` holds the blocks it
inherits, and `Init` lets their slices and counts be whatever they were.

Assumed of the application, as `shm.h` and `rpc.h` ask for: it does not free a
block while another of its calls names the block, and frees it once. Pointers to
slices are used in the order request, submit: `AttachBegin` takes a slice of a
block the application still owns. These are the guards of `BeginFree` and
`AttachBegin`, the only ones that do not come from `cube.c`.

Abstracted: the order of the list (how `collection.c` keeps it is module `Collection`);
sizes and offsets (whether a slice holds an
address, or only shares its page, is given by the constants `Inside` and `OnPage`);
a mutex that fails to lock or unlock, which the code logs and ignores.

### Pages - protection and versions of one block (`cube.c`, `utils.c`)

`prot` is the protection of each byte of the block's address space, `size` its
mapped length, `version` and `nlinks` those of its slices, `arg` the arguments in
flight, `store` where each storing thread is: about to store, in the handler,
waiting in it. `Attach` protects, `Send` is the later step of `inaccel_submit` that
reads `slice->version` without the mutex, `Detach` gives the count back and leaves
the protection. `AccessRefuse`, `AccessWait`, `AccessUnprotect` are the three
passes of `__access`; `Grow` is `inaccel_realloc` to a larger size, with what
`mremap` does to mappings (external). `last`, `dirty` and `bumps` are the copy of
each slice at the other side of the connection (external): the version it was sent
last, whether it differs from the slice's bytes, how often the version was stepped
since it was made. With `Send` the other side makes its copy anew, or keeps one of the
same version; `Coherent` and `InFlightIntact` say that it may. `version` wraps at
`MaxVersion`, which stands for `UINT_MAX`.

The mutexes are in `Cube`; here a critical section is one step.

### Rpc - submissions and responses (`rpc.cpp`)

`inaccel_submit` in its steps: `BeginSubmit`, `Attach` for each argument, `Copy`,
`Queue`, `Start`, each with the failure it may have (`AttachFails`, `Throw`,
`DaemonFails`, `QueueThrows`; the constant `Failures` turns them on). `Create`,
`Release`, `BeginWait`/`Test`/`WaitReturn` and `Expire`/`WaitTimesOut` are the calls
on a response. A waiter is `Take` (`cq->Next`), `LockResponse`, `Detach`,
`Complete`; it holds `response->mutex` across the detaches, which may block. gRPC
and the server are `Answer`: a call that was started is answered, well or badly.
`held` counts the arguments attached for a response. Addresses are used again:
`Create` may give a deleted response's. With `Forked`, the process may be the child of a fork:
no atfork handler knows of the queue, so `Init` lets the child have one without waiters, its
mutex free or as another thread of the parent held it.

Assumed of the application: a response is submitted once, is waited on after
`inaccel_submit` returned 0, and is not released while one of its own threads is in
a call on it.

### Bindings - request objects and futures (`rpc.hpp`, `InAccel.java`, `_rpc.py`)

`args` is the request's argument list, `index` the cursor of the object that wraps it; `Arg` and
`ArgAt` are the calls of the three bindings without and with an index, on `inaccel_request_arg_array`
and `_scalar` of `rpc.cpp` (`Grown`, `Put`, `ArgFails`: the list may have grown when memory runs out).
`CppSubmit`, `JavaSubmit`, `PythonSubmit` and `SubmitFails` submit; `links` and `copy` are the arrays
attached and those in `response->request`. The function of a future is `Wait`, `Size`, `Text`, with
`Finish` (release, shut the executor down, set the result) on its ways out, and `Escape` where an
allocation throws past them. It is run by the thread that asks (`Get`, C++), by a thread of its own
(`JavaStart`), or by one of `PoolSize` threads that take futures in order (`PythonStart`). `Cancel`
and `Drop` are what an application may do with a future it no longer wants.

`Rpc` has the steps inside `inaccel_submit` and the life of the response below; here a submission and
a completion are one step each, and what is kept of a response is whether the binding released
it. The bindings do the same, up to who runs the function, so one action stands for all three and
PROJECT.json maps it to one of them. Assumed of the application: one thread at a time builds a
request. The libraries' futures and executors are external.

### Self - directories, watchers and pids (`self.c`, `static/coral.c`)

Here the actors are processes. `at` is where each pid's process is: not there, loading, in the
constructor, running, a zombie. `self` is the name it has, `dirs` the directories that exist,
`watch` the watcher of each. The constructor is `Mkself` and `Watch`, with `MkselfFails`,
`WatchFails`, and `SessionFails` in the watcher; the watcher is `Session`, `Poll` (`__srch`),
`RemoveFiles` and `RemoveDir`. `Exec`, `Fork`, `Die` and `Reap` are the kernel's side: a child
has its parent's name until its atfork handler runs, and the pid of a reaped process is used
again. `LinkOpen`, `LinkLeaks`, `Unlink` are what `cube.c` does with files. `Load`, `Resolve`,
`Panic` are the constructor of the static library, which runs the others inside.

Abstracted: a process's files are one bit, and those nobody will unlink are one per directory.

### Collection and Items - pointer arrays (`collection.c`)

`Collection` has the array slot by slot, with `Junk` in a slot that `realloc` gave and nobody
wrote; nothing says how long it is. One turn of a loop is one step: `Count` and `Grow` (`GrowFails`:
`realloc` gives NULL) are `__set`, `Search`, `Shift` and `SearchEnd` the two loops of `__unset`,
`Clear` is `__clear`. `call` is where the loops are. The history variable `list` is what the array
held in front of its NULL when the last call returned; no step depends on it. `Items` is the
abstract specification, a sequence, whose `Unset` leaves what is not the item, in its order:
`Without` says so by the place of each item among those kept, since the usual filter is a
recursive operator; `MCCollection` has TLC compare the two on every list of up to three items. In
`ImplementsItems`, the refinement, `list` is the sequence: each call takes effect where it returns.

### Coral - rpc.cpp on cube.c

`Coral` instantiates `Cube` and `Rpc` and lets them share threads. `held` of `Rpc`, a count there,
is here the number of links of `Cube` made for the response, and the steps of `inaccel_submit`
and of the waiter that call `__attach` and `__detach` are steps of both modules: `CallAttach`
and `CallDetach` begin the call of `Cube`, `Attach`, `AttachFails` and `Detach` end it and move
the call of `Rpc` on. `args` is the request of each thread, filled by `BeginArray`/`Array`
(`inaccel_request_arg_array`, which ends with a slice) and dropped by `NewRequest`. This shows what
either module assumes of the other: that a slice named by a request is there when it is attached,
that `__detach` gets each link once, and that a waiter that holds `response->mutex` while it
waits for a block's mutex is in no cycle.

Assumed of the application: it does not free a block that a request it still holds names
(`Named`). It may free one that a submission in flight names. `inaccel_submit` has all the
failures it has in `Rpc` (`Reply`, `AttachFails`), and what one takes with it the properties name:
`Lost` arguments, which nobody will detach, because their submission failed after attaching them,
stands before the queue's lost mutex, or was sent to a queue without waiters; `Blocked` threads,
which stand before that mutex. Left to `Rpc` are timed waits, and to `Cube` fork, `inaccel_realloc`
and a `__slice` that fails to allocate.

### Lifetime and Task - what is promised

`Lifetime` is a block without locks or counts: owned, freed by the application, gone, and the
loans of it; it goes in the step that ends its last use. `CubeLifetime` maps `Cube` to it
(`ImplementsLifetime`): `inaccel_free` takes effect where it unmaps the pages. `Task` is a
submission without threads, queue or mutexes: arrays lent one by one, all before the server has
the task, all back before it is seen done; the response goes with the second of release and
completion. `RpcTask` maps `Rpc` to it (`ImplementsTask`). Both are checked as safety: every
step of the detailed module is a step of the abstract one, or none.

### The proof modules

`CubeProofs`, `LifetimeProofs`, `RpcProofs`, `PagesProofs`, `SelfProofs`, `BindingsProofs`,
`CollectionProofs` and `CoralProofs` each extend the module they are about. See *Proofs*.

### MCCube, MCPages, MCBindings, MCCollection, MCCoral

They give the constants that a `.cfg` cannot write (shapes of slices, which region
holds which address) and the symmetry sets. Symmetry is used in safety runs only. `Self`
needs nothing but its `.cfg`.

## Runs

Passing runs:

| Run | Instance | Asks |
|---|---|---|
| `cube` | 2 application threads, 2 completion threads, 1 inherited and 1 own block, 2 slices that share a page, 2 arguments; failures of `__slice` on | `NoUseAfterFree`, `ReferencesCounted`, `BackedWhileLive`, `NoLostWakeup`, `DisposedOnce`, `ImplementsLifetime` |
| `cube_live` | 2 application threads, 1 completion thread, 2 own blocks, 1 argument | `SomeoneRuns`, `CallsReturn`, `FreeCompletes`, `StoreProceeds`; deadlock |
| `pages` | 1 storing thread, 2 arguments, 3 slices on 3 pages of two bytes, growth from 2 to 3 pages, versions modulo 2 | `Coherent`, `InFlightIntact` |
| `pages_live` | 2 storing threads, 2 arguments, 2 slices on one page | `StoresEnd`, with two threads that trap at one time |
| `rpc` | 2 threads, 2 waiters, 2 responses, 2 arguments, every failure, parent or child | `NoUseAfterFree`, `ArraysHeld`, `NotStranded`, `NoLostWakeup`, `ImplementsTask`, `SubmittedCompletes`, `SubmittedReclaimed`, `CallsReturn` |
| `bindings` | 1 application thread, 2 futures, each of any binding, a pool of 1 thread, lists of up to 2 arguments, every failure | `CursorFilled`, `InFlightAttached`, `NoUseAfterRelease`, `Synchronized`, `NotForgotten`, `Reclaimed`, `GetEnds` |
| `self` | 2 pids, 2 directory names, every failure | `FilesKept`, `NamesApart`, `Cleared` |
| `collection` | 3 items, arrays of up to 7 slots | `InBounds`, `ImplementsItems`, and what `Without` means |
| `coral` | 2 application threads, 1 waiter, 1 block, 1 slice, 2 links, 1 response, `__attach` failing | `ArraysOnLoan`, `CallsReturn`, `StoresGoOn`, `BlocksReclaimed` |
| `coral_failing` | 1 application thread, 1 waiter, 1 block, 1 slice, 2 links, 2 responses, every failure of `inaccel_submit` | `CallsReturn`, `StoresGoOn`, `BlocksReclaimed`, with what a failed submission leaves to the next |

Why these bounds are enough for what is asked. Every race of `cube.c` is between
two threads on one block or between a walker and whoever holds the next cube's
mutex: two threads of each kind, and two blocks, contain each pair. Two arguments
are the least for which "the last `__detach`" differs from "a `__detach`", for one
slice attached twice, and for two slices of a page in flight at one time. Two slices
with one address show the three relations an address can have to a slice: inside,
on its page, elsewhere. Versions modulo 2 make the counter wrap after two steps;
`Coherent` and `InFlightIntact` excuse exactly the full turn, as `bumps` counts. A page of two bytes is
the least that two slices can share without a common byte. For `rpc`, two
arguments are the least for a submission that fails after attaching some. For
`bindings`, two futures on one pool thread make one wait for the other, or one in flight while its
request is changed and submitted again; two arguments are the least for a hole before the cursor;
`MoreToSubmit` stops changes to a request after the last submission, which nothing can tell. The
proofs remove the bounds for every safety property. For `self`, two pids are a parent
and its child, or a dead process and one that has its pid again; two names let a new directory be
made while the old one is being removed, or have the name it had. For `collection`, five items with
copies next to each other, apart, first and last fit in seven slots, and every shorter array comes
out of longer ones with slots left over. For `coral`, one response that is created again and
again and two arguments on one slice make every pair of calls on one block meet; cycles through
two blocks are in `cube_live`, two responses in `rpc`. A failure is felt by the submission after
it, of another response, hence `coral_failing`: without any one of the exceptions that `CallsReturn`
and `Lost` make, TLC finds a counterexample there, save for an argument before the lost mutex
(`"submitting"` in `Lost`), which takes a store by a second thread. In both runs there are links for
all that failures can leave attached, so that no submission waits for one.

`cube` and `rpc` run with CHECK_DEADLOCK FALSE: with `__slice` failing, a cube's mutex is never
given back, and with `QueueThrows` nor is the queue's, so all threads can come to a halt. `bindings`
too: when every future has ended, nothing more need happen; in `coral`, `coral_failing` and `self`
likewise, when all memory is freed or no directory name is left. `cube_live` and `collection` check
deadlock.

Runs that TLC must find violated, each a disagreement between the code and what the
repository says of it:

| Run | Property | What happens |
|---|---|---|
| `pages_overlap` | `Coherent` | slices on pages {0} and {0,1}: a store to page 1, which only the second has, gives back both of its pages; a later store to page 0 traps no more, and the version of the first slice stays |
| `pages_grown` | `StoresEnd` | a wholly protected block grows; the new pages are read-only and belong to no slice, so the handler changes nothing and the store traps for ever |

Known, without a run of their own. The first three are steps of the models, and the
liveness properties name exactly what they leave behind as an exception:

* `__attach` fails for an argument of `inaccel_submit` (`rpc.cpp:602`): the arguments before
  stay attached for good, stores to those arrays are refused and `inaccel_free` never releases the
  block. In `Coral`, `Stuck`: an argument of the block is `Lost`.
* A waiter fails to start (`rpc.cpp:638`): `cq` stays set, later submissions return 0, and no
  waiter serves them. A child of fork has the same queue without waiters, and perhaps its mutex
  locked (`rpc.cpp:19`); the latter also when `new CompletionQueue` throws (`rpc.cpp:623`). In `Rpc`
  and `Coral`, `Unserved` and `QueueLost`.
* `__mkself` fails in a child (`self.c:33`): it goes on in its parent's directory, which the
  parent's watcher removes. In `Self`, `nameless`.
* `__slice` returns NULL from `cube.c:292` or `:296` with `cube->mutex` held: the next call on the
  block never returns, and a free of it never ends. `cube` takes the step; `cube_live`, with
  `SliceAllocFails` TRUE, would find `FreeCompletes` and `CallsReturn` violated.
* A response released without having been submitted is never deleted (`rpc.cpp:483`), since only a
  waiter looks at `cancelled`; `SubmittedReclaimed` is about submitted responses for that reason.
* `inaccel_response_wait_for` that times out returns -1 with errno as it was (`rpc.cpp:570`),
  because `pthread_cond_timedwait` returns its error; `rpc.h` says errno is set.
* A process that dies between `mkdtemp` and the fork of its watcher leaves an empty directory
  (`self.c:33`-`35`); `Cleared` is about directories whose watcher got as far as its loop.

## Fairness

* `Cube`: strong fairness of what a thread inside a call does next. The threads are
  scheduled by the kernel, and a thread that keeps trying for a mutex which is
  released again and again gets it in the end; weak fairness would let a walker lose
  to a stream of short critical sections for ever. Nothing obliges the application to make
  a call or an answer to come: `FreeCompletes` and `StoreProceeds` are stated for
  blocks with no argument in flight and slices that stay detached.
* `Pages`: weak fairness of each storing thread. `StoresEnd` assumes that nothing stays
  in flight.
* `Rpc`: strong fairness of threads inside calls and of waiters, for the same reason;
  external: every started call is answered (gRPC ends a call whose connection is
  lost with an error), and no answer is passed over in the queue for ever. Time passes, so
  a timed wait expires or is woken.

* `Bindings`: weak fairness of each thread that runs a function, of the pool, of a get whose future
  has its result, and of the answer (`SubmittedCompletes` of `Rpc`). Nothing obliges the application
  to ask, cancel or submit.
* `Self`: weak fairness of each watcher: it is scheduled. Nothing obliges a process to die, or its
  pid to stay unused; `Cleared` is about pids that do.
* `Coral`: as in `Cube` and `Rpc`: strong fairness of threads inside calls and of the waiter, weak
  fairness of the answer, and no answer passed over in the queue for ever. The answer is what
  `FreeCompletes` and `StoreProceeds` of `Cube` have to assume: in `StoresGoOn` and
  `BlocksReclaimed` arguments in flight come back by themselves.

## Proofs

Every safety property that a run checks is also a theorem, for every value of the constants that the
module's `ASSUME` allows; so is each module's `TypeOK`, which the runs leave to the proofs. No
property below is inductive as it stands. Each module has an inductive invariant (`IInv`, theorem
`Invariance`), one lemma per action that keeps it, `NextInv` to put them together, and theorems that
follow from it.

| Module | Theorem | States |
|---|---|---|
| `CubeProofs` | `TypeCorrect` | `TypeOK`; `slice->nlinks` never goes below zero |
| | `NeverUsedAfterFree` | `NoUseAfterFree` |
| | `CountsExact` | `ReferencesCounted` |
| | `ReleasedOnce` | `DisposedOnce` |
| | `NeverLostWakeup` | `NoLostWakeup` |
| | `AlwaysBacked` | `BackedWhileLive` |
| | `NeverDeadlocked` | `SomeoneRuns`, where `__slice` does not fail with the mutex held |
| `LifetimeProofs` | `CubeImplementsLifetime` | `ImplementsLifetime` |
| `RpcProofs` | `TypeCorrect` | `TypeOK` |
| | `NeverUsedAfterFree` | `NoUseAfterFree` |
| | `ArraysHeldThroughout` | `ArraysHeld` |
| | `NeverStranded` | `NotStranded` |
| | `NeverLostWakeup` | `NoLostWakeup` |
| | `RpcImplementsTask` | `ImplementsTask` |
| `PagesProofs` | `TypeCorrect` | `TypeOK` |
| | `AlwaysIntact` | `InFlightIntact`, where `PagesApart` |
| | `AlwaysCoherent` | `Coherent`, where `PagesApart` |
| `SelfProofs` | `TypeCorrect` | `TypeOK` |
| | `FilesAlwaysKept` | `FilesKept` |
| | `NamesAlwaysApart` | `NamesApart` |
| | `AlwaysGuarded` | `Guarded`: a living process's directory has its watcher, where no watcher fails to start |
| `BindingsProofs` | `TypeCorrect` | `TypeOK` |
| | `CursorAlwaysFilled` | `CursorFilled` |
| | `AlwaysAttached` | `InFlightAttached` |
| | `NeverUsedAfterRelease` | `NoUseAfterRelease` |
| | `AlwaysSynchronized` | `Synchronized` |
| | `NeverForgotten` | `NotForgotten` |
| `CollectionProofs` | `TypeCorrect` | `TypeOK` |
| | `AlwaysInBounds` | `InBounds` |
| | `CollectionImplementsItems` | `ImplementsItems` |
| `CoralProofs` | `ArraysAlwaysOnLoan` | `ArraysOnLoan` |
| | `CoralImplementsCube`, `CoralImplementsRpc` | the composition is a `Cube` and a `Rpc` |
| | `PartsStaySafe` | what is proved of the two holds in it, and it implements `Task` |
| | `NeverDeadlocked` | no deadlock among all mutexes of the two |

The assumptions say that the sets of actors are what they are used for, that what must be counted
is finite (links, futures), and that values for "none" are none of the others.

**Cube.** The invariant has `CallInv`, `LockInv` (where a call can be and the locks it holds there),
`OwnInv` (owned blocks are listed, listed ones live and mapped; a call of the application that names
a block names an owned one, or is its only `inaccel_free`, or has not published it), `LinkInv` (a
link names a slice of a live block of this process; one thread attaches or detaches it) and
`CountInv` (the counts are exact, and zero before the block exists). The argument turns on two
steps. `inaccel_free` disposes when `nlinks` is 0: the block is still mapped, so by `CountInv` it has
no attached link; a link being attached would need the block to be owned, and it is not; so no
thread and no link names it (`FreeBodyInv`). `__detach` disposes when `nlinks` is 0: its own link is
one, so the count has been lowered by `inaccel_free`, hence the block is unmapped, unlisted and
unowned, and no other link is on it (`DetachInv`). `NoLostWakeup` and `BackedWhileLive` are then each
preserved given `IInv`.

`NeverDeadlocked` is the safe half of `CallsReturn`. `LocksInv` is the converse of `LockInv`: whoever
has a lock is at a place from which the code gives it back. A thread at a block needs nothing more;
if none is, the only mutexes held are those that fork has passed, and whoever has the global mutex
finds the others free; if nobody has that, no lock is held (`LocksFree`).

**Lifetime.** `CubeImplementsLifetime` maps each step of `Cube` to one of `Lifetime`, or shows that
it changes nothing there. On top of `IInv`: the state of a block is determined by `mem`, `mapped` and
whether a call is still making it, and by `CountInv` the code's test of the count is the abstract
test for the last use.

**Rpc.** `RespInv` says which responses the application owns and what the flags of the others say;
`PlaceInv` that a response whose call was started, and that is not over, is in one place: with the
server, in the queue, at one waiter, who then has its mutex; `HeldInv` how many arrays are attached at
each place and at each step of the one submitter (`CallInv`). From these, release and completion
cannot both delete, since the one that comes second sees the flag of the first. They hold with
every failure and in a child with a queue without waiters. `NotStranded` is the converse of
`PlaceInv`, and the safe half of `SubmittedCompletes` and `SubmittedReclaimed`: a response that is
neither done nor deleted is in one of the places, and a waiter that has it runs (`RunInv`); what
remains for the liveness properties is that each place lets go. `RpcImplementsTask` follows the stages of
a response through the same places.

**Pages.** `BaseInv` holds for any slices. The rest needs `PagesApart`: the page ranges of two slices
are equal or have no byte in common. It is what the code gets wrong without: with slices on pages
{0} and {0, 1}, both `Coherent` (run `pages_overlap`) and `InFlightIntact` fail, as the handler
gives back the pages of the larger one. Slices that are each within a page, and slices of one
range, satisfy it, and it is what run `pages` takes. With it, the pages of a slice are read-only while
it is in flight, and from the making of the copy until the first step of the version (`ProtInv`); so
a slice that differs from the copy has been stepped (`DirtyInv`), and its version is the one of the
copy plus the number of steps, up to one turn of the counter (`VersionInv`). So a copy that is kept
for its version is right when it is sent for, and, as the slice is then in flight, stays right until
the answer (`CopyInv`). This is the module's promise end to end: an argument works on the bytes it
was submitted with.

**Self.** A process that made its directory has it to itself (`OwnInv`), and the watcher of that
directory, if there is one, waits for that very process (`WatchInv`): a directory that a watcher
removes was made by a process that has gone, so whoever uses its pid again has another name.
`AlwaysGuarded` is the safe half of `Cleared`: whenever a process dies, a watcher is there that
waits for it.

**Bindings.** The place of a future's function determines whether its response is live
(`FutureInv`); the queue of the pool holds distinct futures not yet begun (`PoolInv`); what a future
names is nothing before it is submitted and after it is answered. `InFlightAttached` counts the
places an array has in requests in flight; a submission adds as many as it attaches, and an answer
takes away those of its own future only. `NotForgotten`, the safe half of `GetEnds` and `Reclaimed`,
is proved on top (`ForgetInv`): the queue of the pool has every Python function that has not begun,
and nobody asks for a future there is not (`AskedInv`), so a get of C++ finds its function begun.

**Collection.** `LoopInv` says what the array holds at each turn of each loop, by the list as it was
when the call began: in front of the slot `__unset` looks at are the first items of the list without
the one to be removed, of which d have been (`Swept`); from there on are the others, d slots down, up
to the NULL (`SearchInv`); during a shift those written already are d + 1 slots down (`ShiftInv`). The
NULL is then always ahead of each loop, which is `InBounds`. A turn of the search keeps an item or meets
a copy (`Keep`, `Skip`: `Without` of one item more); when the shift ends, the slot looked at
again is the one after the copy, so that copies next to each other, or last, all go. `Cardinality`
of the places before is what replaces induction over the list.

**Coral.** `CP` and `RP` are the theorems of `Cube` and `Rpc` at the state of the composition. `IInv` is
their invariants and what only the composition can say: a request names slices that are there, of
blocks the application has (`ArgsInv`), a link was made for the response whose submitter attaches it
or whose waiter detaches it (`LoanInv`). From it every step is a step of `Cube` or leaves it alone, and
likewise of `Rpc` (`PartsStep`); so the parts' invariants are kept by their own `NextInv`, and their
theorems hold. `AttachCounted` and `DetachCounted` show that the conjunction blocks neither: what
`Cube` does to the links is what `Rpc` counts. `ArraysAlwaysOnLoan` adds up: `Rpc` says how many arrays a
call has, `LoanInv` that those are the links, `Cube` that the block of each is live and linked.
`NeverDeadlocked` puts the mutexes of responses and of the queue above those of `Cube`: a waiter that
detaches has the first and asks for a block's, and nobody inside `Cube` asks for a response's. Threads
that stand before the queue's mutex after an exception left it locked (`Blocked`) count as asleep:
the theorem says that nobody else is held up by them.

Only model-checked, and why:

* the liveness properties (`CallsReturn`, `FreeCompletes`, `StoreProceeds`, `StoresEnd`,
  `SubmittedCompletes`, `SubmittedReclaimed`, `Reclaimed`, `GetEnds`, `Cleared`, `StoresGoOn`,
  `BlocksReclaimed`): they need fairness and ENABLED, which the proof system does not handle;
* that `Without` of `Items` is the filter `SelectSeq`, a recursive operator, which the proof system
  cannot read: `MCCollection` compares them;
* that `Runs` of `Cube` is what its actions need to be enabled: ENABLED again; `cube_live` shows with
  `CallsReturn` that calls go on.

## Not modelled, and why

* `config.c`: reads one environment variable before all else; what it names is `Root` in `Self`. The
  functions of `static/coral.c` that only forward.
* Printing of requests and responses, the request's stamp: data, no control.
* The allocators of the bindings (`shm.hpp`, the byte buffers, the numpy hooks), which forward to
  `inaccel_alloc`, `inaccel_realloc` and `inaccel_free`, and the life of a request object, which the
  language's collector decides.
* `inaccel_response_release` by one thread while another is inside
  `inaccel_response_wait` on the same response: the code broadcasts for it, but no text says what
  the wait should then return.
* The failure of a lock or an unlock: logged and ignored by the code.
* gRPC's threads and the server, except as `Answer`, and gRPC's own state in a child of fork.
* `uintptr_t` wrapping in `__ceil_pagesize`: only for an address on the last page of the address
  space, where nothing can be mapped.
* Clock arithmetic of `inaccel_response_wait_for`.

## Plan

Done, in this order: `Cube` (the most shared state), `Pages`, `Rpc`, `CubeProofs`, `Bindings`, `Self`,
`Collection` with `Items`, the abstract `Lifetime` and `Task` with their refinements, `Coral`; then the
proofs about `Rpc`, `Self`, `Pages` and `Bindings`, of both refinements, and about `Coral`; then
`Collection` with its loops as steps and the proofs about it, the copies of `Pages` end to end, and the
safe halves of the liveness properties of `Rpc`, `Bindings` and `Self`. What would be next:

1. What a directory without a watcher can be left by, as a theorem: a death before the watcher is
   forked, a file made while it removes. It needs the history of a directory.
2. `Coral` with timed waits, fork, `inaccel_realloc` and a `__slice` that fails to allocate, which its
   parts have.
