------------------------------ MODULE RpcProofs ------------------------------
(***************************************************************************)
(* Proofs about module Rpc, for any number of threads, waiters, responses  *)
(* and arguments, whatever fails, in a parent or in a child: its type      *)
(* invariant, that no deleted response is touched, that arrays are held    *)
(* for as long as the server may work on them, that no submitted response  *)
(* is left behind, that no wakeup is lost, and that it implements Task.    *)
(*                                                                         *)
(* The inductive invariant says who reaches a response.  The calls of the  *)
(* application reach those it owns, and one that is submitted has one      *)
(* submitter.  Between the start of its call and its completion it is in   *)
(* one place: with the server, in the queue, or at one waiter.  That place *)
(* and the step its submitter is at determine how many arrays it holds.    *)
(***************************************************************************)
EXTENDS RpcTask, TLAPS

Submitting(t, r) == call[t].op = "submit" /\ call[t].resp = r

\* What a thread in a call is at; it names a response the application owns, and
\* one that is being submitted has one submitter.
CallInv ==
  \A t \in Threads :
    /\ call[t].op = "none" => call[t] = Idle
    /\ call[t].op = "none" <=> call[t].at = "idle"
    /\ call[t].op = "submit" <=> call[t].at \in {"attach", "queue", "start"}
    /\ call[t].op # "none" => call[t].resp \in owned
    /\ call[t].op = "submit" => phase[call[t].resp] = "submitting"
    /\ call[t].op \in {"wait", "wait_for"} => phase[call[t].resp] = "sent"
    /\ \A u \in Threads :
         call[t].op = "submit" /\ call[u].op = "submit"
           /\ call[t].resp = call[u].resp => t = u

\* The application owns the live responses that are not cancelled; the flags of
\* the others say how far they got.
RespInv ==
  \A r \in Responses :
       /\ r \in owned <=> mem[r] = "live" /\ ~cancelled[r]
       /\ mem[r] = "none" => phase[r] = "new"
       /\ mem[r] = "freed" => phase[r] = "sent"
       /\ done[r] => phase[r] = "sent"
       /\ phase[r] = "submitting" => \E t \in Threads : Submitting(t, r)

\* A response whose call was started, and that is neither done nor deleted.
Pending(r) == mem[r] = "live" /\ phase[r] = "sent" /\ ~done[r]

\* It is in one place.
PlaceInv ==
  /\ calls \cap answers = {}
  /\ \A r \in calls \cup answers : Pending(r)
  /\ \A w \in Waiters :
       /\ work[w].at = "next" <=> work[w].resp = NoResponse
       /\ work[w].resp # NoResponse =>
            /\ Pending(work[w].resp)
            /\ work[w].resp \notin calls \cup answers
       /\ work[w].at = "detach" => mutex[work[w].resp]
       /\ \A v \in Waiters :
            work[w].resp = work[v].resp /\ work[w].resp # NoResponse => w = v
  /\ \A r \in Responses :
       mutex[r] => \E w \in Waiters : work[w].at = "detach" /\ work[w].resp = r

\* How many arrays a response holds.
HeldInv ==
  /\ \A r \in Responses :
       phase[r] = "new" \/ done[r] \/ mem[r] = "freed" => held[r] = 0
  /\ \A t \in Threads :
       call[t].op = "submit" =>
         /\ call[t].arrays \in Arrays
         /\ held[call[t].resp] + call[t].left = call[t].arrays
         /\ call[t].at \in {"queue", "start"} =>
              call[t].left = 0 /\ copy[call[t].resp] = call[t].arrays
  /\ \A r \in calls \cup answers : held[r] = copy[r]
  /\ \A w \in Waiters :
       /\ work[w].at = "lock" => held[work[w].resp] = copy[work[w].resp]
       /\ work[w].at = "detach" => held[work[w].resp] = work[w].left

IInv == TypeOK /\ CallInv /\ RespInv /\ PlaceInv /\ HeldInv

\* The calls and the work TypeOK speaks of.
Calls == [op : {"none", "submit", "wait", "wait_for"},
          at : {"idle", "attach", "queue", "start", "test", "sleep", "expired",
                "read"},
          resp : Responses \cup {NoResponse},
          arrays : Nat,
          left : Nat]

Works == [at : {"next", "lock", "detach"},
          resp : Responses \cup {NoResponse},
          left : Nat]

\* A broadcast moves the sleepers of one response to their test, and changes
\* nothing else.
LEMMA BroadcastFrame ==
  ASSUME TypeOK, NEW r
  PROVE  /\ Broadcast(r, call) \in [Threads -> Calls]
         /\ \A t \in Threads :
              /\ Broadcast(r, call)[t].op = call[t].op
              /\ Broadcast(r, call)[t].resp = call[t].resp
              /\ Broadcast(r, call)[t].arrays = call[t].arrays
              /\ Broadcast(r, call)[t].left = call[t].left
              /\ call[t].at # "sleep" => Broadcast(r, call)[t] = call[t]
              /\ call[t].at = "sleep" =>
                   Broadcast(r, call)[t].at \in {"sleep", "test"}
              /\ Broadcast(r, call)[t].at = "sleep" =>
                   /\ Broadcast(r, call)[t] = call[t]
                   /\ call[t].resp # r
<1>1. call \in [Threads -> Calls]
  BY DEF TypeOK, Calls
<1>2. ASSUME NEW t \in Threads
      PROVE  [call[t] EXCEPT !.at = "test"] \in Calls
  BY <1>1 DEF Calls
<1> QED
  BY <1>1, <1>2 DEF Broadcast, Calls

\* A new object is where none is live: no call, waiter or answer names it.
LEMMA CreateInv ==
  ASSUME IInv, NEW r \in Responses, Create(r)
  PROVE  IInv'
<1> USE RpcAssumption DEF IInv, queue, resp, grpc, Create
<1>1. TypeOK'
  BY DEF TypeOK
<1>2. CallInv'
  BY DEF CallInv, RespInv
<1>3. RespInv'
  BY DEF TypeOK, RespInv, Submitting
<1>4. PlaceInv'
  BY DEF PlaceInv, Pending
<1>5. HeldInv'
  BY DEF TypeOK, RespInv, HeldInv
<1> QED
  BY <1>1, <1>2, <1>3, <1>4, <1>5

\* inaccel_response_release takes a response no call is in.
LEMMA ReleaseInv ==
  ASSUME IInv, NEW r \in Responses, Release(r)
  PROVE  IInv'
<1> USE RpcAssumption DEF IInv, queue, resp, grpc, Release, ReleaseNow, InUse
<1>1. TypeOK'
  <2>1. call' \in [Threads -> Calls]
    BY BroadcastFrame DEF TypeOK, Calls
  <2> QED
    BY <2>1 DEF TypeOK, Calls
<1>2. CallInv'
  BY BroadcastFrame DEF CallInv
<1>3. RespInv'
  <2>1. \A t \in Threads, q \in Responses :
          Submitting(t, q) => Submitting(t, q)'
    BY BroadcastFrame DEF Submitting
  <2> QED
    BY <2>1 DEF TypeOK, CallInv, RespInv, PlaceInv
<1>4. PlaceInv'
  BY BroadcastFrame DEF TypeOK, PlaceInv, Pending
<1>5. HeldInv'
  BY BroadcastFrame DEF TypeOK, HeldInv
<1> QED
  BY <1>1, <1>2, <1>3, <1>4, <1>5

\* A response gets one submitter, and holds nothing yet.
LEMMA BeginSubmitInv ==
  ASSUME IInv, NEW t \in Threads, NEW r \in Responses, NEW n \in Arrays,
         BeginSubmit(t, r, n)
  PROVE  IInv'
<1> USE RpcAssumption DEF IInv, queue, resp, grpc, BeginSubmit, InUse
<1>1. TypeOK'
  BY DEF TypeOK
<1>2. CallInv'
  BY DEF TypeOK, CallInv
<1>3. RespInv'
  BY DEF TypeOK, RespInv, Idle, Submitting
<1>4. PlaceInv'
  BY DEF PlaceInv, Pending
<1>5. HeldInv'
  BY DEF HeldInv
<1> QED
  BY <1>1, <1>2, <1>3, <1>4, <1>5

\* An argument is attached and one less is left.
LEMMA AttachInv ==
  ASSUME IInv, NEW t \in Threads, Attach(t)
  PROVE  IInv'
<1> USE RpcAssumption DEF IInv, queue, resp, grpc, Attach, In, Hold
<1>1. TypeOK'
  BY DEF TypeOK, CallInv
<1>2. CallInv'
  BY DEF CallInv
<1>3. RespInv'
  BY DEF RespInv, Submitting
<1>4. PlaceInv'
  BY DEF PlaceInv, Pending
<1>5. HeldInv'
  BY DEF TypeOK, CallInv, RespInv, PlaceInv, HeldInv, Pending
<1> QED
  BY <1>1, <1>2, <1>3, <1>4, <1>5

\* A submission that fails leaves its response for no waiter.
LEMMA AttachFailsInv ==
  ASSUME IInv, NEW t \in Threads, AttachFails(t)
  PROVE  IInv'
<1> USE RpcAssumption DEF IInv, queue, resp, grpc, AttachFails, In, Fail, Return
<1>1. TypeOK'
  BY DEF TypeOK, Idle
<1>2. CallInv'
  BY DEF TypeOK, CallInv, Idle
<1>3. RespInv'
  BY DEF TypeOK, CallInv, RespInv, Submitting
<1>4. PlaceInv'
  BY DEF CallInv, PlaceInv, Pending
<1>5. HeldInv'
  BY DEF HeldInv, Idle
<1> QED
  BY <1>1, <1>2, <1>3, <1>4, <1>5

\* The request is copied with all its arguments attached.
LEMMA CopyInv ==
  ASSUME IInv, NEW t \in Threads, Copy(t)
  PROVE  IInv'
<1> USE RpcAssumption DEF IInv, queue, resp, grpc, Copy, In, Goto
<1>1. TypeOK'
  BY DEF TypeOK, CallInv
<1>2. CallInv'
  BY DEF CallInv
<1>3. RespInv'
  BY DEF RespInv, Submitting
<1>4. PlaceInv'
  BY DEF PlaceInv, Pending
<1>5. HeldInv'
  BY DEF TypeOK, CallInv, HeldInv
<1> QED
  BY <1>1, <1>2, <1>3, <1>4, <1>5

\* A submission that throws leaves its response for no waiter.
LEMMA ThrowInv ==
  ASSUME IInv, NEW t \in Threads, Throw(t)
  PROVE  IInv'
<1> USE RpcAssumption DEF IInv, queue, resp, grpc, Throw, In, Fail, Return
<1>1. TypeOK'
  BY DEF TypeOK, Idle
<1>2. CallInv'
  BY DEF TypeOK, CallInv, Idle
<1>3. RespInv'
  BY DEF TypeOK, CallInv, RespInv, Submitting
<1>4. PlaceInv'
  BY DEF CallInv, PlaceInv, Pending
<1>5. HeldInv'
  BY DEF HeldInv, Idle
<1> QED
  BY <1>1, <1>2, <1>3, <1>4, <1>5

\* Making the queue touches no response.
LEMMA QueueInv ==
  ASSUME IInv, NEW t \in Threads, Queue(t)
  PROVE  IInv'
<1> USE RpcAssumption DEF IInv, queue, resp, grpc, Queue, In, Goto, Started
<1>1. TypeOK'
  BY DEF TypeOK, HeldInv
<1>2. CallInv'
  BY DEF CallInv
<1>3. RespInv'
  BY DEF RespInv, Submitting
<1>4. PlaceInv'
  BY DEF PlaceInv, Pending
<1>5. HeldInv'
  BY DEF HeldInv
<1> QED
  BY <1>1, <1>2, <1>3, <1>4, <1>5

\* A waiter that does not start fails the submission.
LEMMA DaemonFailsInv ==
  ASSUME IInv, NEW t \in Threads, DaemonFails(t)
  PROVE  IInv'
<1> USE RpcAssumption DEF IInv, queue, resp, grpc, DaemonFails, In, Fail, Return
<1>1. TypeOK'
  BY DEF TypeOK, Idle
<1>2. CallInv'
  BY DEF TypeOK, CallInv, Idle
<1>3. RespInv'
  BY DEF TypeOK, CallInv, RespInv, Submitting
<1>4. PlaceInv'
  BY DEF CallInv, PlaceInv, Pending
<1>5. HeldInv'
  BY DEF HeldInv, Idle
<1> QED
  BY <1>1, <1>2, <1>3, <1>4, <1>5

\* A queue that is not made fails the submission.
LEMMA QueueThrowsInv ==
  ASSUME IInv, NEW t \in Threads, QueueThrows(t)
  PROVE  IInv'
<1> USE RpcAssumption DEF IInv, queue, resp, grpc, QueueThrows, In, Fail, Return
<1>1. TypeOK'
  BY DEF TypeOK, Idle
<1>2. CallInv'
  BY DEF TypeOK, CallInv, Idle
<1>3. RespInv'
  BY DEF TypeOK, CallInv, RespInv, Submitting
<1>4. PlaceInv'
  BY DEF CallInv, PlaceInv, Pending
<1>5. HeldInv'
  BY DEF HeldInv, Idle
<1> QED
  BY <1>1, <1>2, <1>3, <1>4, <1>5

\* The call starts with all arguments attached.
LEMMA StartInv ==
  ASSUME IInv, NEW t \in Threads, Start(t)
  PROVE  IInv'
<1> USE RpcAssumption DEF IInv, queue, resp, grpc, Start, In, Return
<1>1. TypeOK'
  BY DEF TypeOK, CallInv, Idle
<1>2. CallInv'
  BY DEF TypeOK, CallInv, Idle
<1>3. RespInv'
  BY DEF TypeOK, CallInv, RespInv, Submitting
<1>4. PlaceInv'
  BY DEF TypeOK, CallInv, RespInv, PlaceInv, Pending
<1>5. HeldInv'
  BY DEF TypeOK, CallInv, HeldInv, Idle
<1> QED
  BY <1>1, <1>2, <1>3, <1>4, <1>5

\* A wait names a response the application owns.
LEMMA BeginWaitInv ==
  ASSUME IInv, NEW t \in Threads, NEW r \in Responses,
         NEW op \in {"wait", "wait_for"}, BeginWait(t, r, op)
  PROVE  IInv'
<1> USE RpcAssumption DEF IInv, queue, resp, grpc, BeginWait
<1>1. TypeOK'
  BY DEF TypeOK, Idle
<1>2. CallInv'
  BY DEF CallInv
<1>3. RespInv'
  BY DEF RespInv, Idle, Submitting
<1>4. PlaceInv'
  BY DEF TypeOK, CallInv, RespInv, PlaceInv, HeldInv, Idle, Pending, Submitting
<1>5. HeldInv'
  BY DEF HeldInv
<1> QED
  BY <1>1, <1>2, <1>3, <1>4, <1>5

\* A waiting thread goes on or sleeps.
LEMMA TestInv ==
  ASSUME IInv, NEW t \in Threads, Test(t)
  PROVE  IInv'
<1> USE RpcAssumption DEF IInv, queue, resp, grpc, Test, In, Goto
<1>1. TypeOK'
  BY DEF TypeOK
<1>2. CallInv'
  BY DEF CallInv
<1>3. RespInv'
  BY DEF RespInv, Submitting
<1>4. PlaceInv'
  BY DEF PlaceInv, Pending
<1>5. HeldInv'
  BY DEF HeldInv
<1> QED
  BY <1>1, <1>2, <1>3, <1>4, <1>5

\* A wait returns.
LEMMA WaitReturnInv ==
  ASSUME IInv, NEW t \in Threads, WaitReturn(t)
  PROVE  IInv'
<1> USE RpcAssumption DEF IInv, queue, resp, grpc, WaitReturn, In, Return
<1>1. TypeOK'
  BY DEF TypeOK, Idle
<1>2. CallInv'
  BY DEF CallInv, Idle
<1>3. RespInv'
  BY DEF CallInv, RespInv, Submitting
<1>4. PlaceInv'
  BY DEF PlaceInv, Pending
<1>5. HeldInv'
  BY DEF HeldInv, Idle
<1> QED
  BY <1>1, <1>2, <1>3, <1>4, <1>5

\* The time of a wait is over.
LEMMA ExpireInv ==
  ASSUME IInv, NEW t \in Threads, Expire(t)
  PROVE  IInv'
<1> USE RpcAssumption DEF IInv, queue, resp, grpc, Expire, In, Goto
<1>1. TypeOK'
  BY DEF TypeOK
<1>2. CallInv'
  BY DEF CallInv
<1>3. RespInv'
  BY DEF RespInv, Submitting
<1>4. PlaceInv'
  BY DEF PlaceInv, Pending
<1>5. HeldInv'
  BY DEF HeldInv
<1> QED
  BY <1>1, <1>2, <1>3, <1>4, <1>5

\* A wait whose time is over returns.
LEMMA WaitTimesOutInv ==
  ASSUME IInv, NEW t \in Threads, WaitTimesOut(t)
  PROVE  IInv'
<1> USE RpcAssumption DEF IInv, queue, resp, grpc, WaitTimesOut, In, Return
<1>1. TypeOK'
  BY DEF TypeOK, Idle
<1>2. CallInv'
  BY DEF CallInv, Idle
<1>3. RespInv'
  BY DEF CallInv, RespInv, Submitting
<1>4. PlaceInv'
  BY DEF PlaceInv, Pending
<1>5. HeldInv'
  BY DEF HeldInv, Idle
<1> QED
  BY <1>1, <1>2, <1>3, <1>4, <1>5

\* An answer comes: the response goes from the server to the queue.
LEMMA AnswerInv ==
  ASSUME IInv, NEW r \in Responses, Answer(r)
  PROVE  IInv'
<1> USE RpcAssumption DEF IInv, queue, resp, grpc, Answer
<1>1. TypeOK'
  BY DEF TypeOK
<1>2. CallInv'
  BY DEF CallInv
<1>3. RespInv'
  BY DEF RespInv, Submitting
<1>4. PlaceInv'
  BY DEF PlaceInv, Pending
<1>5. HeldInv'
  BY DEF HeldInv
<1> QED
  BY <1>1, <1>2, <1>3, <1>4, <1>5

\* One waiter gets an answer.
LEMMA TakeInv ==
  ASSUME IInv, NEW w \in Waiters, NEW r \in Responses, Take(w, r)
  PROVE  IInv'
<1> USE RpcAssumption DEF IInv, queue, resp, grpc, Take
<1>1. TypeOK'
  BY DEF TypeOK
<1>2. CallInv'
  BY DEF CallInv
<1>3. RespInv'
  BY DEF RespInv, Submitting
<1>4. PlaceInv'
  BY DEF PlaceInv, Pending
<1>5. HeldInv'
  BY DEF HeldInv
<1> QED
  BY <1>1, <1>2, <1>3, <1>4, <1>5

\* A waiter has as many arguments to detach as the response holds.
LEMMA LockResponseInv ==
  ASSUME IInv, NEW w \in Waiters, LockResponse(w)
  PROVE  IInv'
<1> USE RpcAssumption DEF IInv
<1>1. PICK r \in Responses : r = work[w].resp
  BY DEF LockResponse, TypeOK, PlaceInv
<1>2. /\ work[w].at = "lock" /\ ~mutex[r]
      /\ UNCHANGED <<it, cq, running, mem, owned, phase, cancelled, done, copy,
                     held, calls, answers, call>>
  BY <1>1 DEF LockResponse, queue, resp, grpc
<1>3. /\ work' \in [Waiters -> Works]
      /\ work'[w].at = "detach" /\ work'[w].resp = r /\ work'[w].left = copy[r]
      /\ \A v \in Waiters \ {w} : work'[v] = work[v]
  <2>1. [work[w] EXCEPT !.at = "detach", !.left = copy[r]] \in Works
    BY DEF TypeOK, Works
  <2>2. work' =
          [work EXCEPT ![w] = [work[w] EXCEPT !.at = "detach", !.left = copy[r]]]
    BY <1>1 DEF LockResponse, TypeOK
  <2> QED
    BY <1>1, <2>1, <2>2 DEF TypeOK, Works
<1>4. /\ mutex' \in [Responses -> BOOLEAN]
      /\ mutex'[r] = TRUE
      /\ \A q \in Responses \ {r} : mutex'[q] = mutex[q]
  BY <1>1 DEF LockResponse, TypeOK
<1>5. TypeOK'
  BY <1>2, <1>3, <1>4 DEF TypeOK, Works
<1>6. CallInv'
  BY <1>2 DEF CallInv
<1>7. RespInv'
  BY <1>2 DEF RespInv, Submitting
<1>8. PlaceInv'
  <2>1. \A q \in Responses : Pending(q)' <=> Pending(q)
    BY <1>2 DEF Pending
  <2>2. \A v \in Waiters :
          /\ work'[v].resp = work[v].resp
          /\ work'[v].at = "next" <=> work[v].at = "next"
    BY <1>1, <1>2, <1>3
  <2>3. \A v \in Waiters : work'[v].at = "detach" => mutex'[work'[v].resp]
    <3> SUFFICES ASSUME NEW v \in Waiters, v # w, work[v].at = "detach"
                 PROVE  mutex'[work[v].resp]
      BY <1>3, <1>4
    <3>1. mutex[work[v].resp] /\ work[v].resp \in Responses
      BY DEF TypeOK, PlaceInv
    <3> QED
      BY <1>4, <3>1
  <2>4. \A q \in Responses : mutex'[q] =>
          \E v \in Waiters : work'[v].at = "detach" /\ work'[v].resp = q
    BY <1>2, <1>3, <1>4 DEF PlaceInv
  <2> QED
    BY <1>2, <2>1, <2>2, <2>3, <2>4 DEF TypeOK, PlaceInv
<1>9. HeldInv'
  <2>1. held[r] = copy[r]
    BY <1>1, <1>2 DEF HeldInv
  <2> QED
    BY <1>2, <1>3, <2>1 DEF HeldInv
<1> QED
  BY <1>5, <1>6, <1>7, <1>8, <1>9

\* An argument is detached and one less is left.
LEMMA DetachInv ==
  ASSUME IInv, NEW w \in Waiters, Detach(w)
  PROVE  IInv'
<1> USE RpcAssumption DEF IInv, queue, resp, grpc, Detach
<1>1. TypeOK'
  BY DEF TypeOK, PlaceInv, HeldInv
<1>2. CallInv'
  BY DEF CallInv
<1>3. RespInv'
  BY DEF RespInv, Submitting
<1>4. PlaceInv'
  BY DEF PlaceInv, Pending
<1>5. HeldInv'
  BY DEF TypeOK, CallInv, PlaceInv, HeldInv, Pending
<1> QED
  BY <1>1, <1>2, <1>3, <1>4, <1>5

\* A response is done, or deleted, with nothing attached.
LEMMA CompleteInv ==
  ASSUME IInv, NEW w \in Waiters, Complete(w)
  PROVE  IInv'
<1> USE RpcAssumption DEF IInv, queue, resp, grpc, Complete, Detached, Abandoned, Served
<1>1. TypeOK'
  <2>1. call' \in [Threads -> Calls]
    BY BroadcastFrame DEF TypeOK, Calls
  <2>2. Resting \in Works
    BY DEF Resting, Works
  <2>3. work' \in [Waiters -> Works]
    BY <2>2 DEF TypeOK, Works
  <2> QED
    BY <2>1, <2>3 DEF TypeOK, Calls, Works
<1>2. CallInv'
  <2>1. /\ call' = call \/ call' = Broadcast(work[w].resp, call)
        /\ UNCHANGED <<owned, phase>>
    OBVIOUS
  <2> QED
    BY <2>1, BroadcastFrame DEF TypeOK, CallInv, Idle
<1>3. RespInv'
  <2>1. \A t \in Threads, q \in Responses :
          Submitting(t, q) => Submitting(t, q)'
    BY BroadcastFrame DEF Submitting
  <2>2. PICK r \in Responses : r = work[w].resp
    BY DEF TypeOK, PlaceInv
  <2>3. Pending(r) /\ UNCHANGED <<phase, owned, cancelled>>
    BY <2>2 DEF PlaceInv
  <2>4. \/ mem' = [mem EXCEPT ![r] = "freed"] /\ cancelled[r] /\ done' = done
        \/ done' = [done EXCEPT ![r] = TRUE] /\ mem' = mem
    BY <2>2
  <2> QED
    BY <2>1, <2>3, <2>4 DEF TypeOK, RespInv, Pending
<1>4. PlaceInv'
  <2>1. PICK r \in Responses : r = work[w].resp
    BY DEF TypeOK, PlaceInv
  <2>2. /\ \A v \in Waiters \ {w} : work'[v] = work[v] /\ work[v].resp # r
        /\ work'[w] = Resting
    BY <2>1 DEF TypeOK, PlaceInv
  <2>3. \A q \in Responses \ {r} :
          (Pending(q) => Pending(q)') /\ mutex'[q] = mutex[q]
    BY <2>1 DEF TypeOK, Pending
  <2>4. r \notin calls \cup answers /\ ~mutex'[r]
    BY <2>1 DEF TypeOK, PlaceInv
  <2>5. \A v \in Waiters \ {w} : work[v].resp # NoResponse =>
          /\ work[v].resp \in Responses \ {r}
          /\ Pending(work[v].resp)'
    BY <2>2, <2>3 DEF TypeOK, PlaceInv
  <2>6. \A v \in Waiters \ {w} : work[v].at = "detach" => mutex'[work[v].resp]
    BY <2>2, <2>3 DEF TypeOK, PlaceInv
  <2>7. \A q \in calls \cup answers : Pending(q)'
    <3> SUFFICES ASSUME NEW q \in calls \cup answers
                 PROVE  Pending(q)'
      OBVIOUS
    <3>1. q \in Responses \ {r} /\ Pending(q)
      BY <2>4 DEF TypeOK, PlaceInv
    <3> QED
      BY <2>3, <3>1
  <2>8. \A q \in Responses : mutex'[q] =>
          \E v \in Waiters \ {w} : work[v].at = "detach" /\ work[v].resp = q
    BY <2>1, <2>3, <2>4 DEF PlaceInv
  <2> QED
    BY <2>2, <2>5, <2>6, <2>7, <2>8 DEF PlaceInv, Resting
<1>5. HeldInv'
  <2>1. PICK r \in Responses : r = work[w].resp
    BY DEF TypeOK, PlaceInv
  <2>2. held[r] = 0 /\ Pending(r)
    BY <2>1 DEF HeldInv, PlaceInv
  <2>3. \A q \in Responses \ {r} : mem'[q] = mem[q] /\ done'[q] = done[q]
    BY <2>1 DEF TypeOK
  <2>4. \A q \in Responses :
          phase'[q] = "new" \/ done'[q] \/ mem'[q] = "freed" => held'[q] = 0
    BY <2>2, <2>3 DEF HeldInv
  <2>5. \A t \in Threads :
          /\ call'[t].op = call[t].op /\ call'[t].resp = call[t].resp
          /\ call'[t].arrays = call[t].arrays /\ call'[t].left = call[t].left
          /\ call'[t].op = "submit" => call'[t].at = call[t].at
    BY BroadcastFrame DEF CallInv
  <2>6. /\ work'[w].at = "next"
        /\ \A v \in Waiters \ {w} : work'[v] = work[v]
    BY DEF TypeOK, Resting
  <2> QED
    BY <2>4, <2>5, <2>6 DEF HeldInv
<1> QED
  BY <1>1, <1>2, <1>3, <1>4, <1>5

\* A process starts with nothing under way.
LEMMA InitInv ==
  ASSUME Init
  PROVE  IInv
<1> USE RpcAssumption DEF Init
<1>1. TypeOK
  BY DEF TypeOK, Idle, Resting
<1>2. CallInv
  BY DEF CallInv, Idle
<1>3. RespInv
  BY DEF RespInv
<1>4. PlaceInv
  BY DEF PlaceInv, Resting
<1>5. HeldInv
  BY DEF HeldInv, Idle, Resting
<1> QED
  BY <1>1, <1>2, <1>3, <1>4, <1>5 DEF IInv

\* Every step preserves the invariant: one lemma per action, above.
LEMMA NextInv ==
  ASSUME IInv, [Next]_vars
  PROVE  IInv'
<1>1. ASSUME NEW r \in Responses, Create(r) \/ Release(r) \/ Answer(r)
      PROVE  IInv'
  BY <1>1, CreateInv, ReleaseInv, AnswerInv
<1>2. ASSUME NEW t \in Threads, Begin(t)
      PROVE  IInv'
  BY <1>2, BeginSubmitInv, BeginWaitInv DEF Begin
<1>3. ASSUME NEW t \in Threads, Continue(t)
      PROVE  IInv'
  BY <1>3, AttachInv, AttachFailsInv, CopyInv, ThrowInv, QueueInv,
     DaemonFailsInv, QueueThrowsInv, StartInv, TestInv, WaitReturnInv,
     ExpireInv, WaitTimesOutInv DEF Continue
<1>4. ASSUME NEW w \in Waiters, Serve(w)
      PROVE  IInv'
  BY <1>4, TakeInv, LockResponseInv, DetachInv, CompleteInv DEF Serve
<1>5. CASE UNCHANGED vars
  BY <1>5 DEF vars, queue, resp, grpc, IInv, TypeOK, CallInv, RespInv,
              PlaceInv, HeldInv, Pending, Submitting
<1> QED
  BY <1>1, <1>2, <1>3, <1>4, <1>5 DEF Next

\* IInv holds in every reachable state.
THEOREM Invariance == Spec => []IInv
<1>1. Init => IInv
  BY InitInv
<1>2. IInv /\ [Next]_vars => IInv'
  BY NextInv
<1> QED
  BY <1>1, <1>2, PTL DEF Spec

\* Every variable of rpc.cpp keeps its type: in particular no more arguments are
\* detached than were attached, so no count goes below zero.
THEOREM TypeCorrect == Spec => []TypeOK
<1>1. IInv => TypeOK
  BY DEF IInv
<1> QED
  BY <1>1, Invariance, PTL

\* Neither the thread that submits a response, nor one that waits for it, nor
\* gRPC, nor the waiter reaches it after the second of inaccel_response_release
\* and the completion has deleted it.
THEOREM NeverUsedAfterFree == Spec => []NoUseAfterFree
<1>1. IInv => NoUseAfterFree
  <2> SUFFICES ASSUME IInv
               PROVE  NoUseAfterFree
    OBVIOUS
  <2>1. \A r \in owned : mem[r] = "live"
    BY DEF IInv, TypeOK, RespInv
  <2>2. \A t \in Threads : call[t] # Idle => call[t].resp \in owned
    BY DEF IInv, CallInv
  <2>3. \A r \in Underway \ {NoResponse} : mem[r] = "live"
    BY DEF IInv, PlaceInv, Pending, Underway
  <2> QED
    BY <2>1, <2>2, <2>3 DEF NoUseAfterFree
<1> QED
  BY <1>1, Invariance, PTL

\* From before its call starts until its answer is handled a response holds all
\* the arrays of its request, and none once it is done or deleted.
THEOREM ArraysHeldThroughout == Spec => []ArraysHeld
<1>1. IInv => ArraysHeld
  BY DEF IInv, HeldInv, ArraysHeld
<1> QED
  BY <1>1, Invariance, PTL

\* Only waiters that run have an answer, and there are none before the queue.
RunInv ==
  /\ \A w \in Waiters : work[w].resp # NoResponse => w \in running
  /\ ~cq => running = {}

\* A waiter that was started stays.
LEMMA RunNext ==
  ASSUME IInv, RunInv, [Next]_vars
  PROVE  RunInv'
<1> USE DEF IInv, RunInv
<1>1. ASSUME NEW t \in Threads, Queue(t) \/ DaemonFails(t)
      PROVE  RunInv'
  BY <1>1 DEF Queue, DaemonFails
<1>2. ASSUME NEW w \in Waiters, NEW r \in Responses, Take(w, r)
      PROVE  RunInv'
  BY <1>2 DEF Take, queue, TypeOK
<1>3. ASSUME NEW w \in Waiters, LockResponse(w) \/ Detach(w) \/ Complete(w)
      PROVE  RunInv'
  <2>1. UNCHANGED <<cq, running>>
    BY <1>3 DEF LockResponse, Detach, Complete, queue
  <2>2. \A v \in Waiters :
          work'[v].resp = work[v].resp \/ work'[v].resp = NoResponse
    BY <1>3 DEF LockResponse, Detach, Complete, Served, Resting, TypeOK
  <2> QED
    BY <2>1, <2>2
<1>4. CASE UNCHANGED <<cq, running, work>>
  BY <1>4
<1>5. ASSUME NEW r \in Responses, Create(r) \/ Release(r) \/ Answer(r)
      PROVE  UNCHANGED <<cq, running, work>>
  BY <1>5 DEF Create, Release, Answer, queue
<1>6. ASSUME NEW t \in Threads, Begin(t)
      PROVE  UNCHANGED <<cq, running, work>>
  BY <1>6 DEF Begin, BeginSubmit, BeginWait, queue
<1>7. ASSUME NEW t \in Threads, Continue(t), ~Queue(t), ~DaemonFails(t)
      PROVE  UNCHANGED <<cq, running, work>>
  BY <1>7 DEF Continue, Attach, AttachFails, Copy, Throw, QueueThrows, Start,
              Test, WaitReturn, Expire, WaitTimesOut, queue
<1>8. UNCHANGED vars => UNCHANGED <<cq, running, work>>
  BY DEF vars, queue
<1> QED
  BY <1>1, <1>2, <1>3, <1>4, <1>5, <1>6, <1>7, <1>8 DEF Next, Serve

\* Where a response is that was started and is not done.
Placed(r) == r \in calls \cup answers \/ \E w \in running : work[w].resp = r

\* A step that starts no call, ends none and moves no answer leaves each response
\* where it is.
LEMMA PlaceFrame ==
  ASSUME NotStranded, UNCHANGED <<mem, done, calls, answers>>,
         \A r \in Responses : phase'[r] = "sent" => phase[r] = "sent",
         \A r \in Responses : r \in owned => r \in owned',
         \A w \in running : w \in running' /\ work'[w].resp = work[w].resp
  PROVE  NotStranded'
BY DEF NotStranded

\* A call that starts is with the server.
LEMMA StartStrand ==
  ASSUME IInv, NotStranded, NEW t \in Threads, Start(t)
  PROVE  NotStranded'
<1>1. PICK r \in Responses : r = call[t].resp
  BY DEF IInv, TypeOK, CallInv, Start, In
<1>2. /\ phase' = [phase EXCEPT ![r] = "sent"]
      /\ calls' = calls \cup {r}
      /\ UNCHANGED <<mem, owned, done, answers, running, work>>
  BY <1>1 DEF Start, queue
<1>3. ~done[r]
  BY <1>1 DEF IInv, CallInv, RespInv, TypeOK, Start, In
<1> QED
  BY <1>2, <1>3 DEF NotStranded, IInv, TypeOK

\* inaccel_response_release deletes what is done, and leaves the rest in its place.
LEMMA ReleaseStrand ==
  ASSUME IInv, NotStranded, NEW r \in Responses, Release(r)
  PROVE  NotStranded'
<1>1. /\ owned' = owned \ {r}
      /\ mem' = IF done[r] THEN [mem EXCEPT ![r] = "freed"] ELSE mem
      /\ UNCHANGED <<phase, done, calls, answers, running, work>>
  BY DEF Release, ReleaseNow, queue, grpc
<1> QED
  BY <1>1 DEF NotStranded, IInv, TypeOK

\* An answer goes from the server to the queue, and from there to a waiter.
LEMMA AnswerStrand ==
  ASSUME IInv, NotStranded, NEW r \in Responses,
         Answer(r) \/ \E w \in Waiters : Take(w, r)
  PROVE  NotStranded'
<1>1. CASE Answer(r)
  <2>1. /\ calls' \cup answers' = calls \cup answers
        /\ UNCHANGED <<mem, owned, phase, done, running, work>>
    BY <1>1 DEF Answer, queue, resp
  <2> QED
    BY <2>1 DEF NotStranded
<1>2. ASSUME NEW w \in Waiters, Take(w, r)
      PROVE  NotStranded'
  <2>1. /\ w \in running
        /\ answers' = answers \ {r}
        /\ UNCHANGED <<mem, owned, phase, done, running, calls>>
    BY <1>2 DEF Take, queue, resp
  <2>2. work'[w].resp = r /\ \A v \in Waiters \ {w} : work'[v] = work[v]
    BY <1>2 DEF Take, IInv, TypeOK
  <2>3. work[w].resp \notin Responses
    BY <1>2, RpcAssumption DEF Take, IInv, PlaceInv
  <2>4. running \subseteq Waiters
    BY DEF IInv, TypeOK
  <2> QED
    BY <2>1, <2>2, <2>3, <2>4 DEF NotStranded
<1> QED
  BY <1>1, <1>2

\* A waiter lets go of a response that is done, and owned, or deleted.
LEMMA CompleteStrand ==
  ASSUME IInv, NotStranded, NEW w \in Waiters, Complete(w)
  PROVE  NotStranded'
<1>1. PICK r \in Responses : r = work[w].resp
  BY DEF IInv, TypeOK, PlaceInv, Complete
<1>2. /\ UNCHANGED <<owned, phase, calls, answers, running>>
      /\ \/ cancelled[r] /\ mem' = [mem EXCEPT ![r] = "freed"] /\ done' = done
         \/ ~cancelled[r] /\ mem' = mem /\ done' = [done EXCEPT ![r] = TRUE]
      /\ \A v \in Waiters \ {w} : work'[v] = work[v]
  BY <1>1 DEF Complete, Abandoned, queue, grpc, IInv, TypeOK
<1>3. ~cancelled[r] => r \in owned
  BY <1>1, RpcAssumption DEF IInv, PlaceInv, Pending, RespInv
<1>4. running \subseteq Waiters
  BY DEF IInv, TypeOK
<1>5. \A q \in Responses \ {r} : Placed(q) => Placed(q)'
  BY <1>1, <1>2, <1>4 DEF Placed
<1>6. ASSUME NEW q \in Responses \ {r}
      PROVE  mem'[q] = mem[q] /\ done'[q] = done[q]
  BY <1>2 DEF IInv, TypeOK
<1>7. mem'[r] = "live" => done'[r] /\ r \in owned
  BY <1>2, <1>3 DEF IInv, TypeOK
<1> QED
  BY <1>2, <1>5, <1>6, <1>7 DEF NotStranded, Placed

\* No step leaves a response behind.
LEMMA StrandNext ==
  ASSUME IInv, RunInv, NotStranded, [Next]_vars
  PROVE  NotStranded'
<1>1. ASSUME NEW r \in Responses, Create(r)
      PROVE  NotStranded'
  BY <1>1 DEF Create, queue, grpc, NotStranded, IInv, TypeOK
<1>2. ASSUME NEW t \in Threads, Begin(t)
      PROVE  NotStranded'
  <2>1. UNCHANGED <<mem, owned, done, calls, answers, running, work>>
    BY <1>2 DEF Begin, BeginSubmit, BeginWait, queue, resp, grpc
  <2>2. \A r \in Responses : phase'[r] = "sent" => phase[r] = "sent"
    BY <1>2 DEF Begin, BeginSubmit, BeginWait, resp, IInv, TypeOK
  <2> QED
    BY <2>1, <2>2, PlaceFrame
<1>3. ASSUME NEW t \in Threads, Continue(t), ~Start(t)
      PROVE  NotStranded'
  <2>1. UNCHANGED <<mem, owned, done, calls, answers, work>>
    BY <1>3 DEF Continue, Attach, AttachFails, Copy, Throw, Queue, DaemonFails,
                QueueThrows, Test, WaitReturn, Expire, WaitTimesOut, resp, grpc
  <2>2. \A r \in Responses : phase'[r] = "sent" => phase[r] = "sent"
    <3>1. \/ UNCHANGED phase
          \/ phase' = [phase EXCEPT ![call[t].resp] = "failed"]
      BY <1>3 DEF Continue, Attach, AttachFails, Copy, Throw, Queue, DaemonFails,
                  QueueThrows, Test, WaitReturn, Expire, WaitTimesOut, Fail, resp
    <3> QED
      BY <3>1 DEF IInv, TypeOK
  <2>3. running \subseteq running'
    BY <1>3 DEF Continue, Attach, AttachFails, Copy, Throw, Queue, DaemonFails,
                QueueThrows, Test, WaitReturn, Expire, WaitTimesOut, RunInv, queue
  <2> QED
    BY <2>1, <2>2, <2>3, PlaceFrame
<1>4. ASSUME NEW w \in Waiters, LockResponse(w) \/ Detach(w)
      PROVE  NotStranded'
  <2>1. UNCHANGED <<mem, owned, phase, done, calls, answers, running>>
    BY <1>4 DEF LockResponse, Detach, queue, resp, grpc
  <2>2. \A v \in Waiters : work'[v].resp = work[v].resp
    BY <1>4 DEF LockResponse, Detach, IInv, TypeOK
  <2>3. running \subseteq Waiters
    BY DEF IInv, TypeOK
  <2> QED
    BY <2>1, <2>2, <2>3, PlaceFrame
<1>5. CASE UNCHANGED vars
  BY <1>5 DEF vars, queue, resp, grpc, NotStranded
<1> QED
  BY <1>1, <1>2, <1>3, <1>4, <1>5, StartStrand, ReleaseStrand, AnswerStrand,
     CompleteStrand DEF Next, Serve

\* A submission is never left behind: until it is done or deleted its response is
\* with the server, in the queue or at a waiter that runs, and one that is done has
\* an owner to release it, in any order of release, answer, failure and fork.
THEOREM NeverStranded == Spec => []NotStranded
<1>1. Init => RunInv /\ NotStranded
  BY DEF Init, RunInv, NotStranded, Resting
<1>2. IInv /\ RunInv /\ NotStranded /\ [Next]_vars => RunInv' /\ NotStranded'
  BY RunNext, StrandNext
<1> QED
  BY <1>1, <1>2, Invariance, PTL DEF Spec

\* A thread goes to sleep on a response with the flags it saw under the mutex,
\* and each of the two steps that set one wakes all that sleep on it.
LEMMA WakeInv ==
  ASSUME IInv, NoLostWakeup, [Next]_vars
  PROVE  NoLostWakeup'
<1> USE RpcAssumption
<1>1. ASSUME NEW r \in Responses, Create(r) \/ Release(r) \/ Answer(r)
      PROVE  NoLostWakeup'
  <2>1. CASE Create(r)
    BY <2>1 DEF Create, IInv, TypeOK, CallInv, RespInv, NoLostWakeup, In
  <2>2. CASE Release(r)
    <3>1. \A t \in Threads : call'[t].at = "sleep" =>
            call'[t] = call[t] /\ call[t].resp # r
      BY <2>2, BroadcastFrame DEF Release, InUse, IInv
    <3>2. \A q \in Responses \ {r} : cancelled'[q] = cancelled[q]
      BY <2>2 DEF Release, IInv, TypeOK
    <3>3. \A t \in Threads : call[t].at = "sleep" => call[t].resp \in Responses
      BY DEF IInv, TypeOK, CallInv
    <3> QED
      BY <2>2, <3>1, <3>2, <3>3 DEF Release, NoLostWakeup, In
  <2>3. CASE Answer(r)
    BY <2>3 DEF Answer, resp, NoLostWakeup, In
  <2> QED
    BY <1>1, <2>1, <2>2, <2>3
<1>2. ASSUME UNCHANGED <<cancelled, done>>,
             NEW t \in Threads,
             \A u \in Threads \ {t} : call'[u] = call[u],
             call'[t].at # "sleep"
      PROVE  NoLostWakeup'
  BY <1>2 DEF NoLostWakeup, In
<1>3. ASSUME NEW t \in Threads, Begin(t)
      PROVE  NoLostWakeup'
  <2>1. CASE \E r \in Responses, n \in Arrays : BeginSubmit(t, r, n)
    BY <1>2, <2>1 DEF BeginSubmit, IInv, TypeOK
  <2>2. ASSUME NEW r \in Responses, NEW op \in {"wait", "wait_for"},
               BeginWait(t, r, op)
        PROVE  NoLostWakeup'
    <3>1. [Idle EXCEPT !.op = op, !.at = "test", !.resp = r].at # "sleep"
      BY DEF Idle
    <3> QED
      BY <1>2, <2>2, <3>1 DEF BeginWait, resp, IInv, TypeOK
  <2> QED
    BY <1>3, <2>1, <2>2 DEF Begin
<1>4. ASSUME NEW t \in Threads, Continue(t)
      PROVE  NoLostWakeup'
  <2>1. CASE Attach(t)
    BY <1>2, <2>1 DEF Attach, resp, In, IInv, TypeOK
  <2>2. CASE AttachFails(t) \/ Throw(t) \/ DaemonFails(t) \/ QueueThrows(t)
    BY <1>2, <2>2 DEF AttachFails, Throw, DaemonFails, QueueThrows, Fail,
                      Return, Idle, IInv, TypeOK
  <2>3. CASE Copy(t) \/ Queue(t) \/ Expire(t)
    <3>1. UNCHANGED <<cancelled, done>>
      BY <2>3 DEF Copy, Queue, Expire, resp
    <3>2. \E at \in {"queue", "start", "expired"} : Goto(t, at)
      BY <2>3 DEF Copy, Queue, Expire
    <3>3. call'[t].at # "sleep"
      BY <3>2 DEF Goto, IInv, TypeOK
    <3>4. \A u \in Threads \ {t} : call'[u] = call[u]
      BY <3>2 DEF Goto, IInv, TypeOK
    <3> QED
      BY <1>2, <3>1, <3>3, <3>4
  <2>4. CASE Start(t) \/ WaitReturn(t) \/ WaitTimesOut(t)
    BY <1>2, <2>4 DEF Start, WaitReturn, WaitTimesOut, Return, resp, Idle,
                      IInv, TypeOK
  <2>5. CASE Test(t)
    BY <2>5 DEF Test, Goto, resp, IInv, TypeOK, NoLostWakeup, In
  <2> QED
    BY <1>4, <2>1, <2>2, <2>3, <2>4, <2>5 DEF Continue
<1>5. ASSUME NEW w \in Waiters, Serve(w)
      PROVE  NoLostWakeup'
  <2>1. CASE Complete(w)
    <3>1. PICK r \in Responses : r = work[w].resp
      BY <2>1 DEF Complete, IInv, TypeOK, PlaceInv
    <3>2. CASE UNCHANGED <<done, call>>
      BY <2>1, <3>2 DEF Complete, NoLostWakeup, In
    <3>3. CASE done' = [done EXCEPT ![r] = TRUE] /\ call' = Broadcast(r, call)
      <4>1. \A t \in Threads : call'[t].at = "sleep" =>
              call'[t] = call[t] /\ call[t].resp # r
        BY <3>3, BroadcastFrame DEF IInv
      <4>2. \A q \in Responses \ {r} : done'[q] = done[q]
        BY <3>3 DEF IInv, TypeOK
      <4>3. \A t \in Threads : call[t].at = "sleep" => call[t].resp \in Responses
        BY DEF IInv, TypeOK, CallInv
      <4> QED
        BY <2>1, <4>1, <4>2, <4>3 DEF Complete, NoLostWakeup, In
    <3> QED
      BY <2>1, <3>1, <3>2, <3>3 DEF Complete
  <2>2. CASE UNCHANGED <<cancelled, done, call>>
    BY <2>2 DEF NoLostWakeup, In
  <2> QED
    BY <1>5, <2>1, <2>2 DEF Serve, Take, LockResponse, Detach, resp
<1>6. CASE UNCHANGED vars
  BY <1>6 DEF vars, resp, NoLostWakeup, In
<1> QED
  BY <1>1, <1>3, <1>4, <1>5, <1>6 DEF Next

\* No thread sleeps in inaccel_response_wait on a response that is done or
\* released: the completion or the release wakes it, however they interleave.
THEOREM NeverLostWakeup == Spec => []NoLostWakeup
<1>1. Init => NoLostWakeup
  BY DEF Init, NoLostWakeup, In, Idle
<1>2. IInv /\ NoLostWakeup /\ [Next]_vars => NoLostWakeup'
  BY WakeInv
<1> QED
  BY <1>1, <1>2, Invariance, PTL DEF Spec

\* The task of a response that is being submitted is asked for what its one
\* submitter attaches.
Lending(t) ==
  /\ call[t].resp \in Responses \cap owned
  /\ StageOf(call[t].resp) = "lending"
  /\ AskedOf(call[t].resp) = call[t].arrays

\* Each submitter has a response of its own that is in this stage.
LEMMA SubmitterLends ==
  IInv => \A t \in Threads : call[t].op = "submit" => Lending(t)
<1> SUFFICES ASSUME IInv, NEW t \in Threads, call[t].op = "submit"
             PROVE  Lending(t)
  OBVIOUS
<1> USE RpcAssumption DEF IInv
<1>1. PICK r \in Responses \cap owned : r = call[t].resp
  BY DEF TypeOK, CallInv
<1>2. StageOf(r) = "lending"
  BY <1>1 DEF StageOf, CallInv, RespInv
<1>3. \A u \in Threads : call[u].resp = r => u = t
  <2> SUFFICES ASSUME NEW u \in Threads, call[u].resp = r
               PROVE  u = t
    OBVIOUS
  <2>1. call[u].op # "none"
    BY <1>1 DEF CallInv, Idle
  <2>2. call[u].op = "submit"
    BY <1>1, <2>1 DEF TypeOK, CallInv
  <2> QED
    BY <1>1, <2>2 DEF CallInv
<1>4. (CHOOSE u \in Threads : call[u].resp = r) = t
  BY <1>1, <1>3
<1>5. AskedOf(r) = call[CHOOSE u \in Threads : call[u].resp = r].arrays
  BY <1>2 DEF AskedOf
<1> QED
  BY <1>1, <1>2, <1>4, <1>5 DEF Lending

\* The same in the next state.
LEMMA SubmitterLendsNext ==
  IInv' => \A t \in Threads : call'[t].op = "submit" => Lending(t)'
<1>1. (IInv => \A t \in Threads : call[t].op = "submit" => Lending(t))'
  BY SubmitterLends, PTL
<1> QED
  BY <1>1

\* The stage of a task depends on its response alone.
LEMMA StageFrame ==
  ASSUME NEW r,
         mem'[r] = mem[r], phase'[r] = phase[r], done'[r] = done[r],
         Handled(r)' <=> Handled(r)
  PROVE  StageOf(r)' = StageOf(r)
BY DEF StageOf

\* So does what it is asked for, and on its submitter while it has one.
LEMMA AskedFrame ==
  ASSUME IInv, IInv', NEW r \in Responses, StageOf(r)' = StageOf(r),
         copy'[r] = copy[r] \/ StageOf(r) = "lending",
         \A t \in Threads :
           Submitting(t, r) => Submitting(t, r)' /\ call'[t].arrays = call[t].arrays
  PROVE  AskedOf(r)' = AskedOf(r)
<1>1. CASE StageOf(r) = "lending"
  <2>1. phase[r] = "submitting"
    BY <1>1, RpcAssumption DEF StageOf, IInv, TypeOK
  <2>2. PICK t \in Threads : Submitting(t, r)
    BY <2>1 DEF IInv, RespInv
  <2>3. AskedOf(r) = call[t].arrays
    BY <2>2, SubmitterLends DEF Submitting, Lending
  <2>4. Submitting(t, r)' /\ call'[t].arrays = call[t].arrays
    BY <2>2
  <2>5. AskedOf(r)' = call'[t].arrays
    <3>1. call'[t].op = "submit" /\ call'[t].resp = r
      BY <2>4 DEF Submitting
    <3> QED
      BY <3>1, SubmitterLendsNext DEF Lending
  <2> QED
    BY <2>3, <2>4, <2>5
<1>2. CASE StageOf(r) # "lending"
  BY <1>2 DEF AskedOf
<1> QED
  BY <1>1, <1>2

\* The tasks other than r are as they were.
Others(r) ==
  \A q \in Responses \ {r} :
    StageOf(q)' = StageOf(q) /\ AskedOf(q)' = AskedOf(q)

\* A step that touches one response, and no submitter of another, touches the
\* task of that response alone.
LEMMA OthersFrame ==
  ASSUME IInv, IInv', NEW r,
         \A q \in Responses \ {r} :
           /\ mem'[q] = mem[q] /\ phase'[q] = phase[q] /\ done'[q] = done[q]
           /\ copy'[q] = copy[q]
           /\ Handled(q)' <=> Handled(q),
         \A t \in Threads : call[t].op = "submit" /\ call[t].resp # r =>
           /\ call'[t].op = "submit" /\ call'[t].resp = call[t].resp
           /\ call'[t].arrays = call[t].arrays
  PROVE  Others(r)
<1> SUFFICES ASSUME NEW q \in Responses, q # r
             PROVE  StageOf(q)' = StageOf(q) /\ AskedOf(q)' = AskedOf(q)
  BY DEF Others
<1>1. StageOf(q)' = StageOf(q)
  BY StageFrame
<1>2. \A t \in Threads :
        Submitting(t, q) => Submitting(t, q)' /\ call'[t].arrays = call[t].arrays
  BY DEF Submitting
<1> QED
  BY <1>1, <1>2, AskedFrame

\* The same when the response is as it was.
LEMMA TaskFrame ==
  ASSUME NEW r, Others(r),
         r \in Responses => StageOf(r)' = StageOf(r) /\ AskedOf(r)' = AskedOf(r),
         UNCHANGED <<held, owned>>
  PROVE  UNCHANGED T!task
BY DEF Others, T!task

\* inaccel_response_create makes a task.
LEMMA CreateTask ==
  ASSUME IInv, IInv', NEW r \in Responses, Create(r)
  PROVE  T!Create(r)
<1> USE DEF IInv, Create
<1>1. Others(r)
  BY OthersFrame DEF TypeOK, Handled
<1>2. StageOf(r) = "none" /\ AskedOf(r) = 0
  BY DEF StageOf, AskedOf
<1>3. StageOf(r)' = "new" /\ AskedOf(r)' = 0
  BY DEF TypeOK, StageOf, AskedOf
<1> QED
  BY <1>1, <1>2, <1>3 DEF Others, T!Create, T!Move

\* inaccel_response_release lets go of a task, which is gone if it was done.
LEMMA ReleaseTask ==
  ASSUME IInv, IInv', NEW r \in Responses, Release(r)
  PROVE  T!Release(r)
<1>1. /\ r \in owned /\ ~InUse(r) /\ owned' = owned \ {r}
      /\ UNCHANGED <<phase, done, copy, held, work>>
      /\ \/ done[r] /\ mem' = [mem EXCEPT ![r] = "freed"] /\ call' = call
         \/ ~done[r] /\ mem' = mem /\ call' = Broadcast(r, call)
  BY DEF Release, ReleaseNow
<1>2. Handled(r)' <=> Handled(r)
  BY <1>1 DEF Handled
<1>3. \A t \in Threads :
        /\ call'[t].op = call[t].op /\ call'[t].resp = call[t].resp
        /\ call'[t].arrays = call[t].arrays
  BY <1>1, BroadcastFrame DEF IInv
<1>4. Others(r)
  BY <1>1, <1>3, OthersFrame DEF IInv, TypeOK, Handled
<1>5. CASE done[r]
  <2>1. StageOf(r) = "done" /\ StageOf(r)' = "none" /\ AskedOf(r)' = 0
    BY <1>1, <1>5 DEF IInv, TypeOK, RespInv, StageOf, AskedOf
  <2> QED
    BY <1>1, <1>4, <2>1 DEF Others, T!Release, T!Gone
<1>6. CASE ~done[r]
  <2>1. StageOf(r)' = StageOf(r)
    BY <1>1, <1>2, <1>6, StageFrame
  <2>2. AskedOf(r)' = AskedOf(r)
    BY <1>1, <1>3, <2>1, AskedFrame DEF Submitting
  <2>3. StageOf(r) # "done"
    BY <1>6 DEF IInv, TypeOK, StageOf
  <2> QED
    BY <1>1, <1>4, <2>1, <2>2, <2>3 DEF Others, T!Release
<1> QED
  BY <1>5, <1>6

\* inaccel_submit begins to lend the arrays of the request.
LEMMA BeginSubmitTask ==
  ASSUME IInv, IInv', NEW t \in Threads, NEW r \in Responses, NEW n \in Arrays,
         BeginSubmit(t, r, n)
  PROVE  T!Submit(r, n)
<1> USE DEF IInv, BeginSubmit
<1>1. /\ \A u \in Threads \ {t} : call'[u] = call[u]
      /\ call[t].op # "submit"
      /\ call'[t].op = "submit" /\ call'[t].resp = r /\ call'[t].arrays = n
  BY DEF TypeOK, Idle
<1>2. Others(r)
  BY <1>1, OthersFrame DEF TypeOK, Handled
<1>3. StageOf(r) = "new"
  BY DEF TypeOK, RespInv, StageOf
<1>4. StageOf(r)' = "lending" /\ AskedOf(r)' = n
  BY <1>1, SubmitterLendsNext DEF Lending
<1> QED
  BY <1>2, <1>3, <1>4 DEF Others, T!Submit, T!Move

\* __attach lends an array.
LEMMA AttachTask ==
  ASSUME IInv, IInv', NEW t \in Threads, Attach(t)
  PROVE  T!Lend(call[t].resp)
<1>1. PICK r : r = call[t].resp
  OBVIOUS
<1>2. /\ call[t].op = "submit" /\ call[t].left > 0
      /\ held' = [held EXCEPT ![r] = @ + 1]
      /\ UNCHANGED <<mem, owned, phase, done, copy, work>>
      /\ \A u \in Threads :
           /\ call'[u].op = call[u].op /\ call'[u].resp = call[u].resp
           /\ call'[u].arrays = call[u].arrays
  BY <1>1 DEF Attach, Hold, In, resp, IInv, TypeOK, CallInv
<1>3. /\ r \in Responses \cap owned
      /\ StageOf(r) = "lending" /\ AskedOf(r) = call[t].arrays
  BY <1>1, <1>2, SubmitterLends DEF Lending
<1>4. StageOf(r)' = "lending" /\ AskedOf(r)' = call[t].arrays
  BY <1>1, <1>2, SubmitterLendsNext DEF Lending
<1>5. Others(r)
  BY <1>2, OthersFrame DEF Handled
<1>6. held[r] < call[t].arrays
  BY <1>1, <1>2, <1>3 DEF IInv, TypeOK, HeldInv
<1> QED
  BY <1>1, <1>2, <1>3, <1>4, <1>5, <1>6 DEF Others, T!Lend

\* A submission that fails, wherever it does, keeps what it has lent.
LEMMA FailTask ==
  ASSUME IInv, IInv', NEW t \in Threads, call[t].op = "submit", Fail(t),
         UNCHANGED <<mem, owned, done, copy, held, work>>
  PROVE  T!Fail(call[t].resp)
<1>1. PICK r : r = call[t].resp
  OBVIOUS
<1>2. StageOf(r) = "lending" /\ r \in Responses \cap owned
  BY <1>1, SubmitterLends DEF Lending
<1>3. /\ phase' = [phase EXCEPT ![r] = "failed"]
      /\ \A u \in Threads \ {t} : call'[u] = call[u]
  BY <1>1 DEF Fail, Return, IInv, TypeOK
<1>4. Others(r)
  BY <1>1, <1>3, OthersFrame DEF IInv, TypeOK, Handled
<1>5. StageOf(r)' = "failed" /\ AskedOf(r)' = 0
  BY <1>2, <1>3 DEF IInv, TypeOK, RespInv, StageOf, AskedOf
<1> QED
  BY <1>1, <1>2, <1>4, <1>5 DEF Others, T!Fail, T!Move

\* The call starts with all the arrays lent.
LEMMA StartTask ==
  ASSUME IInv, IInv', NEW t \in Threads, Start(t)
  PROVE  T!Send(call[t].resp)
<1>1. PICK r : r = call[t].resp
  OBVIOUS
<1>2. /\ call[t].op = "submit" /\ call[t].at = "start"
      /\ phase' = [phase EXCEPT ![r] = "sent"]
      /\ UNCHANGED <<mem, owned, done, copy, held, work>>
      /\ \A u \in Threads \ {t} : call'[u] = call[u]
  BY <1>1 DEF Start, Return, In, IInv, TypeOK, CallInv
<1>3. /\ r \in Responses \cap owned
      /\ StageOf(r) = "lending" /\ AskedOf(r) = call[t].arrays
  BY <1>1, <1>2, SubmitterLends DEF Lending
<1>4. held[r] = call[t].arrays /\ copy[r] = call[t].arrays
  BY <1>1, <1>2, <1>3 DEF IInv, TypeOK, HeldInv
<1>5. mem[r] = "live" /\ phase[r] = "submitting" /\ ~done[r]
  BY <1>1, <1>2, <1>3 DEF IInv, TypeOK, CallInv, RespInv
<1>6. ~Handled(r)
  BY <1>3, <1>5, RpcAssumption DEF IInv, TypeOK, PlaceInv, Pending, Handled
<1>7. StageOf(r)' = "flight" /\ AskedOf(r)' = call[t].arrays
  BY <1>2, <1>3, <1>4, <1>5, <1>6 DEF IInv, TypeOK, StageOf, AskedOf, Handled
<1>8. Others(r)
  BY <1>1, <1>2, OthersFrame DEF IInv, TypeOK, Handled
<1> QED
  BY <1>1, <1>2, <1>3, <1>4, <1>7, <1>8 DEF Others, T!Send, T!Move

\* A response whose answer is being handled is returning its arrays.
LEMMA Returning ==
  ASSUME IInv, NEW w \in Waiters, work[w].at = "detach"
  PROVE  /\ work[w].resp \in Responses
         /\ Pending(work[w].resp)
         /\ StageOf(work[w].resp) = "returning"
         /\ AskedOf(work[w].resp) = copy[work[w].resp]
         /\ \A v \in Waiters \ {w} : work[v].resp # work[w].resp
<1>1. PICK r \in Responses : r = work[w].resp
  BY DEF IInv, TypeOK, PlaceInv
<1>2. Pending(r) /\ Handled(r)
  BY <1>1, RpcAssumption DEF IInv, PlaceInv, Handled
<1>3. StageOf(r) = "returning" /\ AskedOf(r) = copy[r]
  BY <1>2 DEF Pending, StageOf, AskedOf
<1> QED
  BY <1>1, <1>2, <1>3, RpcAssumption DEF IInv, PlaceInv

\* A waiter begins to handle an answer.
LEMMA LockResponseTask ==
  ASSUME IInv, IInv', NEW w \in Waiters, LockResponse(w)
  PROVE  T!Answer(work[w].resp)
<1>1. PICK r \in Responses : r = work[w].resp
  BY DEF IInv, TypeOK, PlaceInv, LockResponse
<1>2. /\ work[w].at = "lock"
      /\ UNCHANGED <<mem, owned, phase, done, copy, held, call>>
  BY DEF LockResponse, resp
<1>3. /\ work'[w].at = "detach" /\ work'[w].resp = r
      /\ \A v \in Waiters \ {w} : work'[v] = work[v]
  BY <1>1 DEF LockResponse, IInv, TypeOK
<1>4. Pending(r) /\ \A v \in Waiters \ {w} : work[v].resp # r
  BY <1>1, RpcAssumption DEF IInv, PlaceInv
<1>5. ~Handled(r) /\ Handled(r)'
  BY <1>1, <1>2, <1>3, <1>4 DEF Handled
<1>6. StageOf(r) = "flight" /\ AskedOf(r) = copy[r]
  BY <1>4, <1>5 DEF Pending, StageOf, AskedOf
<1>7. StageOf(r)' = "returning" /\ AskedOf(r)' = copy[r]
  BY <1>2, <1>4, <1>5 DEF Pending, StageOf, AskedOf
<1>8. \A q \in Responses \ {r} : Handled(q)' <=> Handled(q)
  BY <1>1, <1>3 DEF Handled
<1>9. Others(r)
  BY <1>2, <1>8, OthersFrame
<1> QED
  BY <1>1, <1>2, <1>6, <1>7, <1>9 DEF Others, T!Answer, T!Move

\* __detach returns an array.
LEMMA DetachTask ==
  ASSUME IInv, IInv', NEW w \in Waiters, Detach(w)
  PROVE  T!Return(work[w].resp)
<1>1. PICK r : r = work[w].resp
  OBVIOUS
<1>2. /\ work[w].at = "detach" /\ work[w].left > 0
      /\ held' = [held EXCEPT ![r] = @ - 1]
      /\ UNCHANGED <<mem, owned, phase, done, copy, call>>
      /\ \A v \in Waiters :
           work'[v].at = work[v].at /\ work'[v].resp = work[v].resp
  BY <1>1 DEF Detach, resp, IInv, TypeOK
<1>3. r \in Responses /\ StageOf(r) = "returning"
  BY <1>1, <1>2, Returning
<1>4. held[r] > 0
  BY <1>1, <1>2 DEF IInv, HeldInv
<1>5. Handled(r)' <=> Handled(r)
  BY <1>2 DEF Handled
<1>6. StageOf(r)' = StageOf(r)
  BY <1>2, <1>5, StageFrame
<1>7. AskedOf(r)' = AskedOf(r)
  BY <1>2, <1>3, <1>6 DEF AskedOf
<1>8. Others(r)
  BY <1>2, OthersFrame DEF Handled
<1> QED
  BY <1>1, <1>2, <1>3, <1>4, <1>6, <1>7, <1>8 DEF Others, T!Return

\* A task whose arrays are back is done, or gone if the application has let go
\* of it.
LEMMA CompleteTask ==
  ASSUME IInv, IInv', NEW w \in Waiters, Complete(w)
  PROVE  T!Finish(work[w].resp)
<1>1. PICK r : r = work[w].resp
  OBVIOUS
<1>2. /\ work[w].at = "detach" /\ work[w].left = 0
      /\ UNCHANGED <<owned, phase, copy, held>>
      /\ \/ cancelled[r] /\ mem' = [mem EXCEPT ![r] = "freed"] /\ done' = done
              /\ call' = call
         \/ ~cancelled[r] /\ done' = [done EXCEPT ![r] = TRUE] /\ mem' = mem
              /\ call' = Broadcast(r, call)
      /\ work' = [work EXCEPT ![w] = Resting]
  BY <1>1 DEF Complete, Detached, Abandoned, Served
<1>3. /\ r \in Responses /\ Pending(r) /\ StageOf(r) = "returning"
      /\ AskedOf(r) = copy[r]
      /\ \A v \in Waiters \ {w} : work[v].resp # r
  BY <1>1, <1>2, Returning
<1>4. held[r] = 0
  BY <1>1, <1>2 DEF IInv, HeldInv
<1>5. \A t \in Threads :
        /\ call'[t].op = call[t].op /\ call'[t].resp = call[t].resp
        /\ call'[t].arrays = call[t].arrays
  BY <1>2, BroadcastFrame DEF IInv
<1>6. \A q \in Responses \ {r} : Handled(q)' <=> Handled(q)
  BY <1>1, <1>2 DEF IInv, TypeOK, Handled, Resting
<1>7. Others(r)
  BY <1>2, <1>3, <1>5, <1>6, OthersFrame DEF IInv, TypeOK
<1>8. CASE cancelled[r]
  <2>1. r \notin owned
    BY <1>8 DEF IInv, RespInv, TypeOK
  <2>2. StageOf(r)' = "none" /\ AskedOf(r)' = 0
    BY <1>2, <1>3, <1>8 DEF IInv, TypeOK, StageOf, AskedOf
  <2> QED
    BY <1>1, <1>2, <1>3, <1>4, <1>7, <2>1, <2>2 DEF Others, T!Finish, T!Gone
<1>9. CASE ~cancelled[r]
  <2>1. r \in owned
    BY <1>3, <1>9 DEF IInv, RespInv, Pending
  <2>2. StageOf(r)' = "done" /\ AskedOf(r)' = copy[r]
    BY <1>2, <1>3, <1>9 DEF IInv, TypeOK, Pending, StageOf, AskedOf
  <2> QED
    BY <1>1, <1>2, <1>3, <1>4, <1>7, <2>1, <2>2 DEF Others, T!Finish, T!Move
<1> QED
  BY <1>8, <1>9

\* A step that moves no response to another place, and no argument, is none of a
\* task.
LEMMA StutterTask ==
  ASSUME IInv, IInv', NEW r,
         UNCHANGED <<mem, owned, phase, done, held>>,
         \A q \in Responses : q # r => copy'[q] = copy[q],
         r \in Responses => copy'[r] = copy[r] \/ StageOf(r) = "lending",
         \A q \in Responses : Handled(q)' <=> Handled(q),
         \A t \in Threads : call[t].op = "submit" =>
           /\ call'[t].op = "submit" /\ call'[t].resp = call[t].resp
           /\ call'[t].arrays = call[t].arrays
  PROVE  UNCHANGED T!task
<1>1. Others(r)
  BY OthersFrame
<1>2. ASSUME r \in Responses
      PROVE  StageOf(r)' = StageOf(r) /\ AskedOf(r)' = AskedOf(r)
  <2>1. StageOf(r)' = StageOf(r)
    BY <1>2, StageFrame
  <2> QED
    BY <1>2, <2>1, AskedFrame DEF Submitting
<1> QED
  BY <1>1, <1>2, TaskFrame

\* Waits, and the steps of a submission between its last array and its start,
\* are none of a task.
LEMMA ThreadTask ==
  ASSUME IInv, IInv', NEW t \in Threads, Begin(t) \/ Continue(t)
  PROVE  T!Next \/ UNCHANGED T!task
<1>1. ASSUME NEW r \in Responses, NEW n \in Arrays, BeginSubmit(t, r, n)
      PROVE  T!Next
  BY <1>1, BeginSubmitTask DEF T!Next
<1>2. ASSUME NEW r \in Responses, NEW op \in {"wait", "wait_for"},
             BeginWait(t, r, op)
      PROVE  UNCHANGED T!task
  <2>1. /\ call[t].op # "submit"
        /\ \A u \in Threads \ {t} : call'[u] = call[u]
        /\ UNCHANGED <<mem, owned, phase, done, held, copy, work>>
    BY <1>2 DEF BeginWait, resp, Idle, IInv, TypeOK
  <2> QED
    BY <2>1, StutterTask DEF Handled
<1>3. call[t].op = "submit" => call[t].resp \in Responses
  BY SubmitterLends DEF Lending
<1>4. ASSUME call[t].op = "submit", Fail(t),
             UNCHANGED <<mem, owned, done, copy, held, work>>
      PROVE  T!Next
  BY <1>3, <1>4, FailTask DEF T!Next
<1>5. call[t].at \in {"attach", "queue", "start"} => call[t].op = "submit"
  BY DEF IInv, CallInv
<1>6. CASE Attach(t)
  BY <1>3, <1>5, <1>6, AttachTask DEF Attach, In, T!Next
<1>7. CASE AttachFails(t) \/ Throw(t) \/ DaemonFails(t) \/ QueueThrows(t)
  BY <1>4, <1>5, <1>7
     DEF AttachFails, Throw, DaemonFails, QueueThrows, In
<1>8. CASE Start(t)
  BY <1>3, <1>5, <1>8, StartTask DEF Start, In, T!Next
<1>9. ASSUME NEW at, Goto(t, at)
      PROVE  \A u \in Threads :
               /\ call'[u].op = call[u].op /\ call'[u].resp = call[u].resp
               /\ call'[u].arrays = call[u].arrays
  BY <1>9 DEF Goto, IInv, TypeOK
<1>10. CASE Copy(t)
  <2>1. StageOf(call[t].resp) = "lending"
    BY <1>5, <1>10, SubmitterLends DEF Copy, In, Lending
  <2>2. /\ UNCHANGED <<mem, owned, phase, done, held, work>>
        /\ \A q \in Responses : q # call[t].resp => copy'[q] = copy[q]
    BY <1>10 DEF Copy, resp, IInv, TypeOK
  <2>3. Goto(t, "queue")
    BY <1>10 DEF Copy
  <2> QED
    BY <1>9, <2>1, <2>2, <2>3, StutterTask DEF Handled
<1>11. CASE Queue(t) \/ Test(t) \/ Expire(t)
  <2>1. UNCHANGED <<mem, owned, phase, done, held, copy, work>>
    BY <1>11 DEF Queue, Test, Expire, resp
  <2>2. \E at : Goto(t, at)
    BY <1>11 DEF Queue, Test, Expire
  <2> QED
    BY <1>9, <2>1, <2>2, StutterTask DEF Handled
<1>12. CASE WaitReturn(t) \/ WaitTimesOut(t)
  <2>1. UNCHANGED <<mem, owned, phase, done, held, copy, work>>
    BY <1>12 DEF WaitReturn, WaitTimesOut, resp
  <2>2. call[t].op # "submit" /\ Return(t)
    BY <1>12 DEF WaitReturn, WaitTimesOut, In, IInv, CallInv
  <2>3. \A u \in Threads \ {t} : call'[u] = call[u]
    BY <2>2 DEF Return, IInv, TypeOK
  <2> QED
    BY <2>1, <2>2, <2>3, StutterTask DEF Handled
<1> QED
  BY <1>1, <1>2, <1>6, <1>7, <1>8, <1>10, <1>11, <1>12 DEF Begin, Continue

\* Taking an answer from the queue is no step of a task; handling it is.
LEMMA WaiterTask ==
  ASSUME IInv, IInv', NEW w \in Waiters, Serve(w)
  PROVE  T!Next \/ UNCHANGED T!task
<1>1. ASSUME NEW r \in Responses, Take(w, r)
      PROVE  UNCHANGED T!task
  <2>1. UNCHANGED <<mem, owned, phase, done, held, copy, call>>
    BY <1>1 DEF Take, resp
  <2>2. \A q \in Responses : Handled(q)' <=> Handled(q)
    BY <1>1 DEF Take, Handled, IInv, TypeOK
  <2> QED
    BY <2>1, <2>2, StutterTask
<1>2. CASE LockResponse(w)
  <2>1. work[w].resp \in Responses
    BY <1>2 DEF LockResponse, IInv, TypeOK, PlaceInv
  <2> QED
    BY <1>2, <2>1, LockResponseTask DEF T!Next
<1>3. CASE Detach(w)
  BY <1>3, DetachTask, Returning DEF Detach, T!Next
<1>4. CASE Complete(w)
  BY <1>4, CompleteTask, Returning DEF Complete, T!Next
<1> QED
  BY <1>1, <1>2, <1>3, <1>4 DEF Serve

\* Submissions are tasks, for any number of threads, waiters, responses and
\* arguments and whatever fails: all arrays are lent before the server has the
\* call, all are back before the response can be seen done, and the response
\* goes when the second of application and completion lets go of it.
THEOREM RpcImplementsTask == Spec => ImplementsTask
<1>1. Init => T!Init
  <2> SUFFICES ASSUME Init
               PROVE  T!Init
    OBVIOUS
  <2>1. \A r \in Responses : StageOf(r) = "none" /\ AskedOf(r) = 0
    BY DEF Init, StageOf, AskedOf
  <2> QED
    BY <2>1 DEF Init, T!Init
<1>2. IInv /\ IInv' /\ [Next]_vars => [T!Next]_(T!task)
  <2> SUFFICES ASSUME IInv, IInv', [Next]_vars
               PROVE  T!Next \/ UNCHANGED T!task
    OBVIOUS
  <2>1. ASSUME NEW r \in Responses, Create(r) \/ Release(r)
        PROVE  T!Next
    BY <2>1, CreateTask, ReleaseTask DEF T!Next
  <2>2. ASSUME NEW r \in Responses, Answer(r)
        PROVE  UNCHANGED T!task
    BY <2>2, StutterTask DEF Answer, resp, Handled
  <2>3. CASE UNCHANGED vars
    BY <2>3, StutterTask DEF vars, resp, Handled
  <2> QED
    BY <2>1, <2>2, <2>3, ThreadTask, WaiterTask DEF Next
<1> QED
  BY <1>1, <1>2, Invariance, PTL DEF Spec, ImplementsTask, T!Spec

=============================================================================
