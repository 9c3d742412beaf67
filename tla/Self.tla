-------------------------------- MODULE Self --------------------------------
(***************************************************************************)
(* src/main/c/shared/self.c, with the start-up that leads to it            *)
(* (config.c, static/coral.c): the directory a process keeps the files of  *)
(* its blocks in, and the watcher that removes it after the process died.  *)
(*                                                                         *)
(* The library's constructor makes a directory of a fresh name and forks a *)
(* watcher, which looks the process's pid up once a second and removes the *)
(* directory when nobody has the pid.  A forked child does the same, from  *)
(* an atfork handler.  Processes start, fork, replace their program, die   *)
(* and are reaped at any time; the pid of a reaped process is used again.  *)
(*                                                                         *)
(* Grain.  One step is one system call that others can see, or fail at.    *)
(* Watchers are not counted among the processes.  Of a process's files it  *)
(* matters whether it has any, and where.                                  *)
(***************************************************************************)
EXTENDS FiniteSets

CONSTANTS
  Pids,      \* process identifiers
  Dirs,      \* names mkdtemp can make, below INACCEL_SHM
  Root,      \* INACCEL_SHM itself, which an empty self names
  Failures,  \* what may fail: "mkself", "watcher", "panic", "map"
  NoPid

ASSUME SelfAssumption == Root \notin Dirs /\ NoPid \notin Pids

VARIABLES
  at,       \* what each pid's process is at
  static,   \* processes that go through static/coral.c, at their temporary file
  self,     \* self, the name of the directory
  nameless, \* processes whose __mkself failed
  dirs,     \* directories that exist
  backed,   \* processes that have a block with a backing file
  linked,   \* processes whose file is linked, in the directory self
  litter,   \* directories that hold files no process will unlink
  watch     \* the watcher of each directory

proc == <<at, static, self, nameless>>
files == <<backed, linked, litter>>
vars == <<proc, dirs, files, watch>>

NoWatcher == [at |-> "none", pid |-> NoPid]

TypeOK ==
  /\ at \in [Pids -> {"free", "load", "init", "made", "resolve", "running",
                      "zombie"}]
  /\ static \subseteq Pids
  /\ self \in [Pids -> Dirs \cup {Root}]
  /\ nameless \subseteq Pids
  /\ dirs \subseteq Dirs
  /\ backed \subseteq Pids
  /\ linked \subseteq Pids
  /\ litter \subseteq Dirs
  /\ watch \in [Dirs -> [at : {"new", "sleep", "remove", "rmdir"}, pid : Pids]
                         \cup {NoWatcher}]

Init ==
  /\ at = [p \in Pids |-> "free"]
  /\ static = {}
  /\ self = [p \in Pids |-> Root]
  /\ nameless = {}
  /\ dirs = {}
  /\ backed = {}
  /\ linked = {}
  /\ litter = {}
  /\ watch = [d \in Dirs |-> NoWatcher]

Living(p) == at[p] \notin {"free", "zombie"}

\* What p has in memory is gone, its file is not.  Nobody clears INACCEL_SHM
\* itself, so that what is left there does not matter.
Forget(p) ==
  /\ static' = static \ {p}
  /\ self' = [self EXCEPT ![p] = Root]
  /\ nameless' = nameless \ {p}
  /\ backed' = backed \ {p}
  /\ linked' = linked \ {p}
  /\ litter' = litter \cup (IF p \in linked THEN {self[p]} \ {Root} ELSE {})

-----------------------------------------------------------------------------
(* A process starts with the library, or replaces its program by one that    *)
(* has it: self and all else in memory is new, the pid may not be.           *)

Exec(p, stage) ==
  /\ at[p] \in {"free", "running"}
  /\ at' = [at EXCEPT ![p] = stage]
  /\ Forget(p)
  /\ UNCHANGED <<dirs, watch>>

\* static/coral.c writes the library it holds to a temporary file and opens
\* it, which runs the library's constructors.
Load(p) ==
  /\ at[p] = "load"
  /\ at' = [at EXCEPT ![p] = "init"]
  /\ static' = static \cup {p}
  /\ UNCHANGED <<self, nameless, dirs, files, watch>>

\* Every function is found, and the temporary file removed.
Resolve(p) ==
  /\ at[p] = "resolve"
  /\ at' = [at EXCEPT ![p] = "running"]
  /\ static' = static \ {p}
  /\ UNCHANGED <<self, nameless, dirs, files, watch>>

\* exit(EXIT_FAILURE), after whatever was made before.
Panic(p) ==
  /\ "panic" \in Failures
  /\ at[p] \in {"load", "resolve"}
  /\ at' = [at EXCEPT ![p] = "zombie"]
  /\ Forget(p)
  /\ UNCHANGED <<dirs, watch>>

\* The child has the parent's memory until its atfork handler runs.  The blocks
\* it inherits are the parent's: it never touches their files.
MutChild(p) == at[p]
Child(p) == "init"

Fork(p, q) ==
  /\ at[p] = "running"
  /\ at[q] = "free"
  /\ at' = [at EXCEPT ![q] = Child(p)]
  /\ self' = [self EXCEPT ![q] = self[p]]
  /\ UNCHANGED <<static, nameless, dirs, files, watch>>

Die(p) ==
  /\ Living(p)
  /\ at' = [at EXCEPT ![p] = "zombie"]
  /\ Forget(p)
  /\ UNCHANGED <<dirs, watch>>

Reap(p) ==
  /\ at[p] = "zombie"
  /\ at' = [at EXCEPT ![p] = "free"]
  /\ UNCHANGED <<static, self, nameless, dirs, files, watch>>

-----------------------------------------------------------------------------
(* __init of self.c: a constructor, and the atfork handler of a child. *)

Started(p) == IF p \in static THEN "resolve" ELSE "running"

\* mkdtemp: a name nobody has.
Mkself(p, d) ==
  /\ at[p] = "init"
  /\ d \notin dirs
  /\ dirs' = dirs \cup {d}
  /\ self' = [self EXCEPT ![p] = d]
  /\ at' = [at EXCEPT ![p] = "made"]
  /\ UNCHANGED <<static, nameless, files, watch>>

\* self stays what it was: empty, or in a child the parent's.  No watcher.
MkselfFails(p) ==
  /\ "mkself" \in Failures
  /\ at[p] = "init"
  /\ nameless' = nameless \cup {p}
  /\ at' = [at EXCEPT ![p] = Started(p)]
  /\ UNCHANGED <<static, self, dirs, files, watch>>

\* The pid is taken before the fork: in the watcher __process is the watcher's.
Watched(p) == p

\* The watcher is forked past the atfork handlers.
Watch(p) ==
  /\ at[p] = "made"
  /\ watch' = [watch EXCEPT ![self[p]] = [at |-> "new",
                                           pid |-> Watched(p)]]
  /\ at' = [at EXCEPT ![p] = Started(p)]
  /\ UNCHANGED <<static, self, nameless, dirs, files>>

WatchFails(p) ==
  /\ "watcher" \in Failures
  /\ at[p] = "made"
  /\ at' = [at EXCEPT ![p] = Started(p)]
  /\ UNCHANGED <<static, self, nameless, dirs, files, watch>>

-----------------------------------------------------------------------------
(* The watcher *)

\* A session of its own, with no file open.
Session(d) ==
  /\ watch[d].at = "new"
  /\ watch' = [watch EXCEPT ![d].at = "sleep"]
  /\ UNCHANGED <<proc, dirs, files>>

SessionFails(d) ==
  /\ "watcher" \in Failures
  /\ watch[d].at = "new"
  /\ watch' = [watch EXCEPT ![d] = NoWatcher]
  /\ UNCHANGED <<proc, dirs, files>>

\* kill(pid, 0) fails with ESRCH: not even a zombie has the pid.
MutSrch(p) == TRUE
MutReaped(p) == at[p] = "zombie"
Srch(p) == at[p] = "free"

Poll(d) ==
  /\ watch[d].at = "sleep"
  /\ Srch(watch[d].pid)
  /\ watch' = [watch EXCEPT ![d].at = "remove"]
  /\ UNCHANGED <<proc, dirs, files>>

\* nftw with FTW_DEPTH removes what it finds, and then the directory; that
\* fails, and the watcher gives up, if a file has been made in between.
RemoveFiles(d) ==
  /\ watch[d].at = "remove"
  /\ linked' = {p \in linked : self[p] # d}
  /\ litter' = litter \ {d}
  /\ watch' = [watch EXCEPT ![d].at = "rmdir"]
  /\ UNCHANGED <<proc, dirs, backed>>

Empty(d) == d \notin litter /\ \A p \in linked : self[p] # d

RemoveDir(d) ==
  /\ watch[d].at = "rmdir"
  /\ dirs' = IF Empty(d) THEN dirs \ {d} ELSE dirs
  /\ watch' = [watch EXCEPT ![d] = NoWatcher]
  /\ UNCHANGED <<proc, files>>

-----------------------------------------------------------------------------
(* Files of blocks, for cube.c *)

\* mkstemp, where self says.
LinkOpen(p) ==
  /\ at[p] = "running"
  /\ self[p] \in dirs \cup {Root}
  /\ backed' = backed \cup {p}
  /\ linked' = linked \cup {p}
  /\ UNCHANGED <<proc, dirs, litter, watch>>

\* inaccel_alloc fails after it made the file, which nobody unlinks from then on.
LinkLeaks(p) ==
  /\ "map" \in Failures
  /\ at[p] = "running"
  /\ self[p] \in dirs
  /\ litter' = litter \cup {self[p]}
  /\ UNCHANGED <<proc, dirs, backed, linked, watch>>

Unlink(p) ==
  /\ at[p] = "running"
  /\ p \in backed
  /\ backed' = backed \ {p}
  /\ linked' = linked \ {p}
  /\ UNCHANGED <<proc, dirs, litter, watch>>

-----------------------------------------------------------------------------

Process(p) ==
  \/ Exec(p, "load") \/ Exec(p, "init") \/ Load(p) \/ Resolve(p) \/ Panic(p)
  \/ \E q \in Pids : Fork(p, q)
  \/ Die(p) \/ Reap(p)
  \/ \E d \in Dirs : Mkself(p, d)
  \/ MkselfFails(p) \/ Watch(p) \/ WatchFails(p)
  \/ LinkOpen(p) \/ LinkLeaks(p) \/ Unlink(p)

Watcher(d) ==
  \/ Session(d) \/ SessionFails(d) \/ Poll(d) \/ RemoveFiles(d) \/ RemoveDir(d)

Next == (\E p \in Pids : Process(p)) \/ (\E d \in Dirs : Watcher(d))

Spec == Init /\ [][Next]_vars

\* A watcher is scheduled.  Nothing obliges a process to do anything.
FairSpec == Spec /\ \A d \in Dirs : WF_vars(Watcher(d))

-----------------------------------------------------------------------------

\* A living process that made its directory finds its files there: the file of
\* a block stays linked, so that the server can open it and inaccel_realloc can
\* open it again, whoever else dies or starts with a pid that was used before.
FilesKept ==
  \A p \in Pids \ nameless :
    at[p] \in {"made", "resolve", "running"} =>
      /\ self[p] \in dirs
      /\ p \in backed => p \in linked

\* The server tells processes apart by self: two living ones share it only if
\* __mkself of one has failed.
NamesApart ==
  \A p, q \in Pids :
    /\ p # q
    /\ {p, q} \cap nameless = {}
    /\ at[p] = "running" /\ at[q] = "running"
    => self[p] # self[q]

\* What a dead process leaves goes, once nobody has its pid for good and no
\* child whose __mkself failed lives on in the directory.
Abandoned(d) ==
  /\ at[watch[d].pid] = "free"
  /\ \A q \in Pids : Living(q) => self[q] # d

Cleared ==
  \A d \in Dirs :
    (/\ watch[d].at = "sleep"
     /\ [](watch[d].at # "none" => Abandoned(d)))
      ~> (d \notin dirs /\ Empty(d))

=============================================================================
