------------------------------- MODULE RpcTask -------------------------------
(***************************************************************************)
(* Rpc implements Task: whatever threads, waiters and the server do, and   *)
(* whatever fails, a response goes through the stages of a task.           *)
(***************************************************************************)
EXTENDS Rpc

Handled(r) == \E w \in Waiters : work[w].at = "detach" /\ work[w].resp = r

StageOf(r) ==
  CASE mem[r] # "live" -> "none"
    [] mem[r] = "live" /\ phase[r] = "submitting" -> "lending"
    [] mem[r] = "live" /\ phase[r] = "sent" ->
         IF done[r] THEN "done" ELSE IF Handled(r) THEN "returning" ELSE "flight"
    [] OTHER -> phase[r]

\* The request is the caller's until it is copied into the response.
AskedOf(r) ==
  CASE StageOf(r) = "lending" ->
         call[CHOOSE t \in Threads : call[t].resp = r].arrays
    [] StageOf(r) \in {"flight", "returning", "done"} -> copy[r]
    [] OTHER -> 0

T == INSTANCE Task WITH
  Tasks <- Responses,
  stage <- [r \in Responses |-> StageOf(r)],
  asked <- [r \in Responses |-> AskedOf(r)],
  lent <- held,
  kept <- owned

\* Submissions are tasks: no call starts with an array missing, none is over
\* with one attached, and nothing but the second of release and completion
\* deletes the response.
ImplementsTask == T!Spec
=============================================================================
