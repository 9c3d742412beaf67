----------------------------- MODULE SelfProofs -----------------------------
(***************************************************************************)
(* Proofs about module Self, for any number of pids and names: its type    *)
(* invariant, that a living process's directory and the files of its       *)
(* blocks stay where they are, that no two processes share one, and that   *)
(* each has its watcher.                                                   *)
(*                                                                         *)
(* The inductive invariant ties a directory to the process that made it.   *)
(* A process whose __mkself succeeded has its directory to itself, and     *)
(* the watcher of that directory, if there is one, still waits for that    *)
(* very process: it left its loop for no other, since a pid in use is      *)
(* never free, and a directory a watcher is removing was made by a process *)
(* that has gone, so that nobody who uses its pid again has its name.      *)
(***************************************************************************)
EXTENDS Self, TLAPS

\* Processes that have made their directory.
Named(p) == p \notin nameless /\ at[p] \in {"made", "resolve", "running"}

\* A process has a block only once it runs, and none is without a name before
\* its __mkself failed.
MemoryInv ==
  \A p \in Pids :
    /\ at[p] # "running" => p \notin backed
    /\ at[p] \in {"free", "load", "init", "made", "zombie"} => p \notin nameless

\* A directory is one process's, which finds its files there.
OwnInv ==
  \A p \in Pids : Named(p) =>
    /\ self[p] \in dirs
    /\ p \in backed => p \in linked
    /\ \A q \in Pids : Named(q) /\ self[q] = self[p] => q = p

\* A watcher watches a directory there is, and waits while the process that made
\* it is there.
WatchInv ==
  /\ \A d \in Dirs : watch[d].at # "none" => d \in dirs
  /\ \A p \in Pids : Named(p) =>
       \/ watch[self[p]].at = "none"
       \/ watch[self[p]].at \in {"new", "sleep"} /\ watch[self[p]].pid = p

IInv == TypeOK /\ MemoryInv /\ OwnInv /\ WatchInv

\* A new program knows nothing of the directory of the old one.
LEMMA ExecInv ==
  ASSUME IInv, NEW p \in Pids, NEW stage \in {"load", "init"}, Exec(p, stage)
  PROVE  IInv'
<1> USE SelfAssumption DEF IInv, proc, files, Exec, Forget
<1>1. TypeOK'
  BY DEF TypeOK
<1>2. MemoryInv'
  BY DEF MemoryInv
<1>3. OwnInv'
  BY DEF TypeOK, OwnInv, Named
<1>4. WatchInv'
  BY DEF TypeOK, WatchInv, Named
<1> QED
  BY <1>1, <1>2, <1>3, <1>4

\* The loader opens the library.
LEMMA LoadInv ==
  ASSUME IInv, NEW p \in Pids, Load(p)
  PROVE  IInv'
<1> USE SelfAssumption DEF IInv, proc, files, Load
<1>1. TypeOK'
  BY DEF TypeOK
<1>2. MemoryInv'
  BY DEF MemoryInv
<1>3. OwnInv'
  BY DEF OwnInv, Named
<1>4. WatchInv'
  BY DEF WatchInv, Named
<1> QED
  BY <1>1, <1>2, <1>3, <1>4

\* The loader is done.
LEMMA ResolveInv ==
  ASSUME IInv, NEW p \in Pids, Resolve(p)
  PROVE  IInv'
<1> USE SelfAssumption DEF IInv, proc, files, Resolve
<1>1. TypeOK'
  BY DEF TypeOK
<1>2. MemoryInv'
  BY DEF MemoryInv
<1>3. OwnInv'
  BY DEF OwnInv, Named
<1>4. WatchInv'
  BY DEF WatchInv, Named
<1> QED
  BY <1>1, <1>2, <1>3, <1>4

\* The loader exits.
LEMMA PanicInv ==
  ASSUME IInv, NEW p \in Pids, Panic(p)
  PROVE  IInv'
<1> USE SelfAssumption DEF IInv, proc, files, Panic, Forget
<1>1. TypeOK'
  BY DEF TypeOK
<1>2. MemoryInv'
  BY DEF MemoryInv
<1>3. OwnInv'
  BY DEF TypeOK, OwnInv, Named
<1>4. WatchInv'
  BY DEF TypeOK, WatchInv, Named
<1> QED
  BY <1>1, <1>2, <1>3, <1>4

\* A child has no directory until it has made one.
LEMMA ForkInv ==
  ASSUME IInv, NEW p \in Pids, NEW q \in Pids, Fork(p, q)
  PROVE  IInv'
<1> USE SelfAssumption DEF IInv, proc, files, Fork, Child
<1>1. TypeOK'
  BY DEF TypeOK
<1>2. MemoryInv'
  BY DEF MemoryInv
<1>3. OwnInv'
  BY DEF OwnInv, Named
<1>4. WatchInv'
  BY DEF WatchInv, Named
<1> QED
  BY <1>1, <1>2, <1>3, <1>4

\* A process dies.
LEMMA DieInv ==
  ASSUME IInv, NEW p \in Pids, Die(p)
  PROVE  IInv'
<1> USE SelfAssumption DEF IInv, proc, files, Die, Forget, Living
<1>1. TypeOK'
  BY DEF TypeOK
<1>2. MemoryInv'
  BY DEF MemoryInv
<1>3. OwnInv'
  BY DEF TypeOK, OwnInv, Named
<1>4. WatchInv'
  BY DEF TypeOK, WatchInv, Named
<1> QED
  BY <1>1, <1>2, <1>3, <1>4

\* The pid of a process that had no directory left is free.
LEMMA ReapInv ==
  ASSUME IInv, NEW p \in Pids, Reap(p)
  PROVE  IInv'
<1> USE SelfAssumption DEF IInv, proc, files, Reap
<1>1. TypeOK'
  BY DEF TypeOK
<1>2. MemoryInv'
  BY DEF MemoryInv
<1>3. OwnInv'
  BY DEF OwnInv, Named
<1>4. WatchInv'
  BY DEF WatchInv, Named
<1> QED
  BY <1>1, <1>2, <1>3, <1>4

\* A name nobody has: no process uses it, and no watcher.
LEMMA MkselfInv ==
  ASSUME IInv, NEW p \in Pids, NEW d \in Dirs, Mkself(p, d)
  PROVE  IInv'
<1> USE SelfAssumption DEF IInv, proc, files, Mkself
<1>1. TypeOK'
  BY DEF TypeOK
<1>2. MemoryInv'
  BY DEF MemoryInv
<1>3. OwnInv'
  BY DEF TypeOK, MemoryInv, OwnInv, Named
<1>4. WatchInv'
  BY DEF TypeOK, WatchInv, Named
<1> QED
  BY <1>1, <1>2, <1>3, <1>4

\* A process without a name of its own.
LEMMA MkselfFailsInv ==
  ASSUME IInv, NEW p \in Pids, MkselfFails(p)
  PROVE  IInv'
<1> USE SelfAssumption DEF IInv, proc, files, MkselfFails, Started
<1>1. TypeOK'
  BY DEF TypeOK
<1>2. MemoryInv'
  BY DEF TypeOK, MemoryInv
<1>3. OwnInv'
  BY DEF OwnInv, Named
<1>4. WatchInv'
  BY DEF WatchInv, Named
<1> QED
  BY <1>1, <1>2, <1>3, <1>4

\* The watcher waits for the process that made the directory.
LEMMA WatchBeginInv ==
  ASSUME IInv, NEW p \in Pids, Watch(p)
  PROVE  IInv'
<1> USE SelfAssumption DEF IInv, proc, files, Watch, Watched, Started
<1>1. TypeOK'
  BY DEF TypeOK
<1>2. MemoryInv'
  BY DEF MemoryInv
<1>3. OwnInv'
  BY DEF OwnInv, Named
<1>4. WatchInv'
  BY DEF MemoryInv, OwnInv, WatchInv, Named
<1> QED
  BY <1>1, <1>2, <1>3, <1>4

\* A directory without a watcher.
LEMMA WatchFailsInv ==
  ASSUME IInv, NEW p \in Pids, WatchFails(p)
  PROVE  IInv'
<1> USE SelfAssumption DEF IInv, proc, files, WatchFails, Started
<1>1. TypeOK'
  BY DEF TypeOK
<1>2. MemoryInv'
  BY DEF MemoryInv
<1>3. OwnInv'
  BY DEF OwnInv, Named
<1>4. WatchInv'
  BY DEF WatchInv, Named
<1> QED
  BY <1>1, <1>2, <1>3, <1>4

\* A watcher settles.
LEMMA SessionInv ==
  ASSUME IInv, NEW d \in Dirs, Session(d)
  PROVE  IInv'
<1> USE SelfAssumption DEF IInv, proc, files, Session
<1>1. TypeOK'
  BY DEF TypeOK, NoWatcher
<1>2. MemoryInv'
  BY DEF MemoryInv
<1>3. OwnInv'
  BY DEF OwnInv, Named
<1>4. WatchInv'
  BY DEF WatchInv, Named
<1> QED
  BY <1>1, <1>2, <1>3, <1>4

\* A watcher gives up.
LEMMA SessionFailsInv ==
  ASSUME IInv, NEW d \in Dirs, SessionFails(d)
  PROVE  IInv'
<1> USE SelfAssumption DEF IInv, proc, files, SessionFails
<1>1. TypeOK'
  BY DEF TypeOK
<1>2. MemoryInv'
  BY DEF MemoryInv
<1>3. OwnInv'
  BY DEF OwnInv, Named
<1>4. WatchInv'
  BY DEF WatchInv, Named, NoWatcher
<1> QED
  BY <1>1, <1>2, <1>3, <1>4

\* Nobody who lives made a directory whose watcher finds the pid free.
LEMMA PollInv ==
  ASSUME IInv, NEW d \in Dirs, Poll(d)
  PROVE  IInv'
<1> USE SelfAssumption DEF IInv, proc, files, Poll, Srch
<1>1. TypeOK'
  BY DEF TypeOK, MemoryInv, OwnInv, WatchInv, Named, NoWatcher
<1>2. MemoryInv'
  BY DEF MemoryInv
<1>3. OwnInv'
  BY DEF OwnInv, Named
<1>4. WatchInv'
  BY DEF WatchInv, Named
<1> QED
  BY <1>1, <1>2, <1>3, <1>4

\* The files removed are of nobody who lives and has a name.
LEMMA RemoveFilesInv ==
  ASSUME IInv, NEW d \in Dirs, RemoveFiles(d)
  PROVE  IInv'
<1> USE SelfAssumption DEF IInv, proc, files, RemoveFiles
<1>1. TypeOK'
  BY DEF TypeOK, NoWatcher
<1>2. MemoryInv'
  BY DEF MemoryInv
<1>3. OwnInv'
  BY DEF OwnInv, WatchInv, Named
<1>4. WatchInv'
  BY DEF WatchInv, Named
<1> QED
  BY <1>1, <1>2, <1>3, <1>4

\* The directory removed is of nobody who lives and has a name.
LEMMA RemoveDirInv ==
  ASSUME IInv, NEW d \in Dirs, RemoveDir(d)
  PROVE  IInv'
<1> USE SelfAssumption DEF IInv, proc, files, RemoveDir
<1>1. TypeOK'
  BY DEF TypeOK
<1>2. MemoryInv'
  BY DEF MemoryInv
<1>3. OwnInv'
  BY DEF OwnInv, WatchInv, Named
<1>4. WatchInv'
  BY DEF TypeOK, WatchInv, Named, NoWatcher
<1> QED
  BY <1>1, <1>2, <1>3, <1>4

\* A file is made where the directory is.
LEMMA LinkOpenInv ==
  ASSUME IInv, NEW p \in Pids, LinkOpen(p)
  PROVE  IInv'
<1> USE SelfAssumption DEF IInv, proc, files, LinkOpen
<1>1. TypeOK'
  BY DEF TypeOK
<1>2. MemoryInv'
  BY DEF MemoryInv
<1>3. OwnInv'
  BY DEF OwnInv, Named
<1>4. WatchInv'
  BY DEF WatchInv, Named
<1> QED
  BY <1>1, <1>2, <1>3, <1>4

\* A file is left behind.
LEMMA LinkLeaksInv ==
  ASSUME IInv, NEW p \in Pids, LinkLeaks(p)
  PROVE  IInv'
<1> USE SelfAssumption DEF IInv, proc, files, LinkLeaks
<1>1. TypeOK'
  BY DEF TypeOK
<1>2. MemoryInv'
  BY DEF MemoryInv
<1>3. OwnInv'
  BY DEF OwnInv, Named
<1>4. WatchInv'
  BY DEF WatchInv, Named
<1> QED
  BY <1>1, <1>2, <1>3, <1>4

\* A file is removed by the process it belongs to.
LEMMA UnlinkInv ==
  ASSUME IInv, NEW p \in Pids, Unlink(p)
  PROVE  IInv'
<1> USE SelfAssumption DEF IInv, proc, files, Unlink
<1>1. TypeOK'
  BY DEF TypeOK
<1>2. MemoryInv'
  BY DEF MemoryInv
<1>3. OwnInv'
  BY DEF OwnInv, Named
<1>4. WatchInv'
  BY DEF WatchInv, Named
<1> QED
  BY <1>1, <1>2, <1>3, <1>4

\* Nothing runs at first.
LEMMA InitInv ==
  ASSUME Init
  PROVE  IInv
BY SelfAssumption
   DEF Init, IInv, TypeOK, MemoryInv, OwnInv, WatchInv, Named, NoWatcher

\* Every step preserves the invariant: one lemma per action, above.
LEMMA NextInv ==
  ASSUME IInv, [Next]_vars
  PROVE  IInv'
<1>1. ASSUME NEW p \in Pids, Process(p)
      PROVE  IInv'
  BY <1>1, ExecInv, LoadInv, ResolveInv, PanicInv, ForkInv, DieInv, ReapInv,
     MkselfInv, MkselfFailsInv, WatchBeginInv, WatchFailsInv, LinkOpenInv,
     LinkLeaksInv, UnlinkInv DEF Process
<1>2. ASSUME NEW d \in Dirs, Watcher(d)
      PROVE  IInv'
  BY <1>2, SessionInv, SessionFailsInv, PollInv, RemoveFilesInv, RemoveDirInv
     DEF Watcher
<1>3. CASE UNCHANGED vars
  BY <1>3 DEF vars, proc, files, IInv, TypeOK, MemoryInv, OwnInv, WatchInv, Named
<1> QED
  BY <1>1, <1>2, <1>3 DEF Next

\* IInv holds in every reachable state.
THEOREM Invariance == Spec => []IInv
<1>1. Init => IInv
  BY InitInv
<1>2. IInv /\ [Next]_vars => IInv'
  BY NextInv
<1> QED
  BY <1>1, <1>2, PTL DEF Spec

\* Every variable of self.c keeps its type.
THEOREM TypeCorrect == Spec => []TypeOK
<1>1. IInv => TypeOK
  BY DEF IInv
<1> QED
  BY <1>1, Invariance, PTL

\* While a process that made its directory lives, no watcher removes the
\* directory or a file in it, however pids are used again, whoever else dies,
\* and whatever fails.
THEOREM FilesAlwaysKept == Spec => []FilesKept
<1>1. IInv => FilesKept
  BY DEF IInv, OwnInv, Named, FilesKept
<1> QED
  BY <1>1, Invariance, PTL

\* No two living processes that made their directories have the same self, not
\* even a parent and its child.
THEOREM NamesAlwaysApart == Spec => []NamesApart
<1>1. IInv => NamesApart
  BY DEF IInv, OwnInv, Named, NamesApart
<1> QED
  BY <1>1, Invariance, PTL

\* A process that has gone through its constructor with success has a watcher,
\* which waits for it to go.
Guarded ==
  \A p \in Pids \ nameless : at[p] \in {"resolve", "running"} =>
    watch[self[p]].at \in {"new", "sleep"} /\ watch[self[p]].pid = p

\* What a process does leaves the watchers of the others alone.
LEMMA ProcessGuarded ==
  ASSUME IInv, "watcher" \notin Failures, Guarded, NEW p \in Pids, Process(p)
  PROVE  Guarded'
<1> USE DEF IInv
<1>1. CASE Watch(p)
  <2>1. \A q \in Pids \ {p} : Named(q) => self[q] # self[p]
    BY <1>1 DEF Watch, Named, MemoryInv, OwnInv
  <2>2. /\ self[p] \in Dirs
        /\ watch'[self[p]] = [at |-> "new", pid |-> p]
        /\ \A d \in Dirs \ {self[p]} : watch'[d] = watch[d]
    BY <1>1 DEF Watch, Watched, TypeOK, MemoryInv, OwnInv, Named
  <2>3. \A q \in Pids \ {p} : Named(q) => self[q] \in Dirs
    BY DEF TypeOK, OwnInv
  <2>4. /\ UNCHANGED <<self, nameless>>
        /\ \A q \in Pids \ {p} : at'[q] = at[q]
    BY <1>1 DEF Watch, TypeOK
  <2> QED
    BY <2>1, <2>2, <2>3, <2>4 DEF Guarded, Named
<1>2. CASE Resolve(p)
  BY <1>2 DEF Resolve, TypeOK, Guarded
<1>3. ASSUME UNCHANGED watch,
             \A q \in Pids : q \notin nameless' /\ at'[q] \in {"resolve", "running"}
               => /\ q \notin nameless /\ at[q] \in {"resolve", "running"}
                  /\ self'[q] = self[q]
      PROVE  Guarded'
  BY <1>3 DEF Guarded
<1>4. ASSUME NEW stage \in {"load", "init", "zombie"}, Forget(p), UNCHANGED watch,
             at' = [at EXCEPT ![p] = stage]
      PROVE  Guarded'
  BY <1>3, <1>4 DEF Forget, TypeOK
<1>5. CASE Exec(p, "load") \/ Exec(p, "init") \/ Panic(p) \/ Die(p)
  BY <1>4, <1>5 DEF Exec, Panic, Die
<1>6. CASE Load(p) \/ Reap(p)
  BY <1>3, <1>6 DEF Load, Reap, files, TypeOK
<1>7. ASSUME NEW q \in Pids, Fork(p, q)
      PROVE  Guarded'
  BY <1>3, <1>7 DEF Fork, Child, files, TypeOK
<1>8. ASSUME NEW d \in Dirs, Mkself(p, d)
      PROVE  Guarded'
  BY <1>3, <1>8 DEF Mkself, files, TypeOK
<1>9. CASE MkselfFails(p)
  BY <1>3, <1>9 DEF MkselfFails, files, TypeOK
<1>10. CASE LinkOpen(p) \/ LinkLeaks(p) \/ Unlink(p)
  BY <1>3, <1>10 DEF LinkOpen, LinkLeaks, Unlink, proc
<1>11. ~WatchFails(p)
  BY DEF WatchFails
<1> QED
  BY <1>1, <1>2, <1>5, <1>6, <1>7, <1>8, <1>9, <1>10, <1>11 DEF Process

\* A watcher leaves its loop for no process that is there.
LEMMA WatcherGuarded ==
  ASSUME IInv, "watcher" \notin Failures, Guarded, NEW d \in Dirs, Watcher(d)
  PROVE  Guarded'
<1> USE DEF IInv
<1>1. UNCHANGED proc
  BY DEF Watcher, Session, SessionFails, Poll, RemoveFiles, RemoveDir
<1>2. \A e \in Dirs \ {d} : watch'[e] = watch[e]
  BY DEF Watcher, Session, SessionFails, Poll, RemoveFiles, RemoveDir, TypeOK
<1> SUFFICES ASSUME NEW p \in Pids \ nameless, at[p] \in {"resolve", "running"},
                    self[p] = d
             PROVE  watch'[d].at \in {"new", "sleep"} /\ watch'[d].pid = p
  BY <1>1, <1>2 DEF proc, Guarded, TypeOK, OwnInv, Named
<1>3. watch[d].at \in {"new", "sleep"} /\ watch[d].pid = p
  BY DEF Guarded
<1>4. ~Poll(d) /\ ~SessionFails(d) /\ ~RemoveFiles(d) /\ ~RemoveDir(d)
  BY <1>3 DEF Poll, Srch, SessionFails, RemoveFiles, RemoveDir
<1>5. Session(d)
  BY <1>4 DEF Watcher
<1> QED
  BY <1>3, <1>5 DEF Session, TypeOK

\* Where forking a watcher and its setsid do not fail, a process whose constructor
\* made its directory is never without a watcher that waits for it, however it
\* forks, whoever dies and whichever pids are used again: whenever it dies, what
\* it leaves is looked after.
THEOREM AlwaysGuarded == "watcher" \notin Failures => (Spec => []Guarded)
<1> SUFFICES ASSUME "watcher" \notin Failures
             PROVE  Spec => []Guarded
  OBVIOUS
<1>1. Init => Guarded
  BY DEF Init, Guarded
<1>2. IInv /\ Guarded /\ [Next]_vars => Guarded'
  <2> SUFFICES ASSUME IInv, Guarded, [Next]_vars
               PROVE  Guarded'
    OBVIOUS
  <2>1. CASE UNCHANGED vars
    BY <2>1 DEF vars, proc, Guarded
  <2> QED
    BY <2>1, ProcessGuarded, WatcherGuarded DEF Next
<1> QED
  BY <1>1, <1>2, Invariance, PTL DEF Spec

=============================================================================
