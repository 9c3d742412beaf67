-------------------------------- MODULE Task --------------------------------
(***************************************************************************)
(* What submissions promise, without threads, queue, waiters and mutexes.  *)
(*                                                                         *)
(* A response stands for a task.  The arrays of its request are lent one   *)
(* by one, all before the server has it, and all are back before the       *)
(* application can see it done.  The response goes in the step in which    *)
(* the second of application and task lets go of it.                       *)
(***************************************************************************)
EXTENDS Naturals

CONSTANTS Tasks, Arrays

VARIABLES
  stage,  \* "none", "new", "lending", "failed", "flight", "returning", "done"
  asked,  \* array arguments of the request
  lent,   \* those lent and not returned
  kept    \* tasks whose response the application has not released

task == <<stage, asked, lent, kept>>

Init ==
  /\ stage = [r \in Tasks |-> "none"]
  /\ asked = [r \in Tasks |-> 0]
  /\ lent = [r \in Tasks |-> 0]
  /\ kept = {}

Move(r, from, to) == stage[r] = from /\ stage' = [stage EXCEPT ![r] = to]

Create(r) ==
  /\ Move(r, "none", "new")
  /\ kept' = kept \cup {r}
  /\ UNCHANGED <<asked, lent>>

Gone(r) ==
  /\ stage' = [stage EXCEPT ![r] = "none"]
  /\ asked' = [asked EXCEPT ![r] = 0]

Release(r) ==
  /\ r \in kept
  /\ kept' = kept \ {r}
  /\ IF stage[r] = "done" THEN Gone(r) ELSE UNCHANGED <<stage, asked>>
  /\ UNCHANGED lent

Submit(r, n) ==
  /\ r \in kept
  /\ Move(r, "new", "lending")
  /\ asked' = [asked EXCEPT ![r] = n]
  /\ UNCHANGED <<lent, kept>>

Lend(r) ==
  /\ stage[r] = "lending"
  /\ lent[r] < asked[r]
  /\ lent' = [lent EXCEPT ![r] = @ + 1]
  /\ UNCHANGED <<stage, asked, kept>>

\* A submission that fails keeps what it has lent.
Fail(r) ==
  /\ Move(r, "lending", "failed")
  /\ asked' = [asked EXCEPT ![r] = 0]
  /\ UNCHANGED <<lent, kept>>

Send(r) ==
  /\ lent[r] = asked[r]
  /\ Move(r, "lending", "flight")
  /\ UNCHANGED <<asked, lent, kept>>

Answer(r) ==
  /\ Move(r, "flight", "returning")
  /\ UNCHANGED <<asked, lent, kept>>

Return(r) ==
  /\ stage[r] = "returning"
  /\ lent[r] > 0
  /\ lent' = [lent EXCEPT ![r] = @ - 1]
  /\ UNCHANGED <<stage, asked, kept>>

Finish(r) ==
  /\ stage[r] = "returning"
  /\ lent[r] = 0
  /\ IF r \in kept THEN Move(r, "returning", "done") /\ UNCHANGED asked
                   ELSE Gone(r)
  /\ UNCHANGED <<lent, kept>>

Next ==
  \E r \in Tasks :
    \/ Create(r) \/ Release(r)
    \/ \E n \in Arrays : Submit(r, n)
    \/ Lend(r) \/ Fail(r) \/ Send(r) \/ Answer(r) \/ Return(r) \/ Finish(r)

Spec == Init /\ [][Next]_task
=============================================================================
