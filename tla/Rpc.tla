--------------------------------- MODULE Rpc ---------------------------------
(***************************************************************************)
(* src/main/c/shared/rpc.cpp: submissions, the completion queue and its    *)
(* waiter threads, and the life of a response.                             *)
(*                                                                         *)
(* inaccel_submit attaches the array arguments of a request one by one,    *)
(* makes the completion queue and its waiters on first use, and starts the *)
(* call.  When the answer is in the queue a waiter detaches the arguments  *)
(* and marks the response done, or deletes it when it has been released    *)
(* meanwhile.                                                              *)
(*                                                                         *)
(* Grain.  A critical section that cannot block is one step.  A waiter     *)
(* holds response->mutex while it detaches, which blocks on cube->mutex    *)
(* (module Cube), so its section is made of several.  gRPC and the server  *)
(* are external: every call that is started gets one answer, good or bad.  *)
(* A request is only read here, and its arguments are counted, not named.  *)
(***************************************************************************)
EXTENDS Integers, FiniteSets

CONSTANTS
  Threads,    \* threads of the application
  Waiters,    \* the completion threads: INACCEL_EXTRA_WAITERS and one more
  Responses,  \* the addresses inaccel_response objects have
  Arrays,     \* the numbers of array arguments a request may have
  Failures,   \* what may fail: "attach", "daemon" (pthread_create), "throw"
  Forked,     \* whether the process may be a child made by fork
  NoResponse

ASSUME RpcAssumption ==
  /\ Threads \cap Waiters = {}
  /\ Arrays \subseteq Nat
  /\ NoResponse \notin Responses

VARIABLES
  it,         \* whether the mutex of the queue is held by nobody who is there
  cq,         \* whether the completion queue exists
  running,    \* the waiters that were started
  mem,        \* each response: "none", "live" or "freed"
  owned,      \* responses the application has and has not released
  phase,      \* "new", "submitting", "sent" or "failed"
  cancelled,  \* response->cancelled
  done,       \* response->done
  mutex,      \* whether a waiter holds response->mutex
  copy,       \* array arguments of response->request
  held,       \* array arguments attached for the response and not detached
  calls,      \* responses whose call the server has not answered
  answers,    \* responses whose answer is in the completion queue
  call,       \* the call each application thread is in
  work        \* the response each waiter is at, and the arguments to detach

queue == <<it, cq, running>>
resp == <<mem, owned, phase, cancelled, done>>
grpc == <<calls, answers>>
vars == <<queue, resp, mutex, copy, held, grpc, call, work>>

Idle == [op |-> "none", at |-> "idle", resp |-> NoResponse, arrays |-> 0,
         left |-> 0]
Resting == [at |-> "next", resp |-> NoResponse, left |-> 0]

TypeOK ==
  /\ it \in BOOLEAN
  /\ cq \in BOOLEAN
  /\ running \subseteq Waiters
  /\ mem \in [Responses -> {"none", "live", "freed"}]
  /\ owned \subseteq Responses
  /\ phase \in [Responses -> {"new", "submitting", "sent", "failed"}]
  /\ cancelled \in [Responses -> BOOLEAN]
  /\ done \in [Responses -> BOOLEAN]
  /\ mutex \in [Responses -> BOOLEAN]
  /\ copy \in [Responses -> Nat]
  /\ held \in [Responses -> Nat]
  /\ calls \subseteq Responses
  /\ answers \subseteq Responses
  /\ call \in [Threads -> [op : {"none", "submit", "wait", "wait_for"},
                           at : {"idle", "attach", "queue", "start", "test",
                                 "sleep", "expired", "read"},
                           resp : Responses \cup {NoResponse},
                           arrays : Nat,
                           left : Nat]]
  /\ work \in [Waiters -> [at : {"next", "lock", "detach"},
                           resp : Responses \cup {NoResponse},
                           left : Nat]]

\* A process starts without a queue.  No atfork handler knows of it: a child of
\* one that had it has a queue without waiters, and the queue's mutex as another
\* thread held it.
Init ==
  /\ \/ it = FALSE /\ cq = FALSE
     \/ Forked /\ it \in BOOLEAN /\ cq = TRUE
  /\ running = {}
  /\ mem = [r \in Responses |-> "none"]
  /\ owned = {}
  /\ phase = [r \in Responses |-> "new"]
  /\ cancelled = [r \in Responses |-> FALSE]
  /\ done = [r \in Responses |-> FALSE]
  /\ mutex = [r \in Responses |-> FALSE]
  /\ copy = [r \in Responses |-> 0]
  /\ held = [r \in Responses |-> 0]
  /\ calls = {}
  /\ answers = {}
  /\ call = [t \in Threads |-> Idle]
  /\ work = [w \in Waiters |-> Resting]

-----------------------------------------------------------------------------

In(t, at) == call[t].at = at
Goto(t, at) == call' = [call EXCEPT ![t].at = at]

Return(t) == call' = [call EXCEPT ![t] = Idle]

\* Calls on a response are the application's to keep apart from its release.
InUse(r) == \E t \in Threads : call[t].resp = r

\* pthread_cond_broadcast(&response->cond): the sleepers test again.
MutBroadcast(r, cs) == cs
Broadcast(r, cs) ==
  [t \in Threads |-> IF cs[t].at = "sleep" /\ cs[t].resp = r
                     THEN [cs[t] EXCEPT !.at = "test"] ELSE cs[t]]

-----------------------------------------------------------------------------
(* inaccel_response_create and inaccel_response_release *)

\* A new object, perhaps where a deleted one was.
Create(r) ==
  /\ mem[r] # "live"
  /\ mem' = [mem EXCEPT ![r] = "live"]
  /\ owned' = owned \cup {r}
  /\ phase' = [phase EXCEPT ![r] = "new"]
  /\ cancelled' = [cancelled EXCEPT ![r] = FALSE]
  /\ done' = [done EXCEPT ![r] = FALSE]
  /\ copy' = [copy EXCEPT ![r] = 0]
  /\ UNCHANGED <<queue, mutex, held, grpc, call, work>>

\* Deleted now if the submission is over, otherwise left to the waiter.
MutReleaseNow(r) == TRUE
ReleaseNow(r) == done[r]

Release(r) ==
  /\ r \in owned
  /\ ~InUse(r)
  /\ ~mutex[r]
  /\ owned' = owned \ {r}
  /\ IF ReleaseNow(r)
     THEN /\ mem' = [mem EXCEPT ![r] = "freed"]
          /\ UNCHANGED <<cancelled, call>>
     ELSE /\ cancelled' = [cancelled EXCEPT ![r] = TRUE]
          /\ call' = Broadcast(r, call)
          /\ UNCHANGED mem
  /\ UNCHANGED <<queue, phase, done, mutex, copy, held, grpc, work>>

-----------------------------------------------------------------------------
(* inaccel_submit *)

\* A response is submitted once.
BeginSubmit(t, r, n) ==
  /\ call[t] = Idle
  /\ r \in owned
  /\ phase[r] = "new"
  /\ ~InUse(r)
  /\ phase' = [phase EXCEPT ![r] = "submitting"]
  /\ call' = [call EXCEPT ![t] = [op |-> "submit", at |-> "attach",
                                  resp |-> r, arrays |-> n, left |-> n]]
  /\ UNCHANGED <<queue, mem, owned, cancelled, done, mutex, copy, held, grpc,
                 work>>

\* __attach of one argument.
Hold(r) == held' = [held EXCEPT ![r] = @ + 1]

Attach(t) ==
  /\ In(t, "attach")
  /\ call[t].left > 0
  /\ Hold(call[t].resp)
  /\ call' = [call EXCEPT ![t].left = @ - 1]
  /\ UNCHANGED <<queue, resp, mutex, copy, grpc, work>>

\* inaccel_submit returns -1, with what it has attached left attached.
Fail(t) ==
  /\ phase' = [phase EXCEPT ![call[t].resp] = "failed"]
  /\ Return(t)

AttachFails(t) ==
  /\ "attach" \in Failures
  /\ In(t, "attach")
  /\ call[t].left > 0
  /\ Fail(t)
  /\ UNCHANGED <<queue, mem, owned, cancelled, done, mutex, copy, held, grpc,
                 work>>

\* The request is copied into the response, and stamped.
Copy(t) ==
  /\ In(t, "attach")
  /\ call[t].left = 0
  /\ copy' = [copy EXCEPT ![call[t].resp] = call[t].arrays]
  /\ Goto(t, "queue")
  /\ UNCHANGED <<queue, resp, mutex, held, grpc, work>>

\* An allocation throws, in the copy or when the call is made.
Throw(t) ==
  /\ "throw" \in Failures
  /\ \/ In(t, "attach") /\ call[t].left = 0
     \/ In(t, "start")
  /\ Fail(t)
  /\ UNCHANGED <<queue, mem, owned, cancelled, done, mutex, copy, held, grpc,
                 work>>

\* The waiters the first submission starts.
MutStarted == {}
Started == Waiters

\* The queue exists, or it is made and its waiters are started.
Queue(t) ==
  /\ In(t, "queue")
  /\ ~it
  /\ cq' = TRUE
  /\ running' = IF cq THEN running ELSE Started
  /\ Goto(t, "start")
  /\ UNCHANGED <<it, resp, mutex, copy, held, grpc, work>>

\* A waiter does not start, and the queue is there for the next submission.
DaemonFails(t) ==
  /\ "daemon" \in Failures
  /\ In(t, "queue")
  /\ ~it /\ ~cq
  /\ cq' = TRUE
  /\ running' \in (SUBSET Waiters) \ {Waiters}
  /\ Fail(t)
  /\ UNCHANGED <<it, mem, owned, cancelled, done, mutex, copy, held, grpc,
                 work>>

\* new grpc::CompletionQueue throws, out of the critical section.
QueueThrows(t) ==
  /\ "throw" \in Failures
  /\ In(t, "queue")
  /\ ~it /\ ~cq
  /\ it' = TRUE
  /\ Fail(t)
  /\ UNCHANGED <<cq, running, mem, owned, cancelled, done, mutex, copy,
                 held, grpc, work>>

\* The call is started: AsyncServe and Finish.
Start(t) ==
  /\ In(t, "start")
  /\ phase' = [phase EXCEPT ![call[t].resp] = "sent"]
  /\ calls' = calls \cup {call[t].resp}
  /\ Return(t)
  /\ UNCHANGED <<queue, mem, owned, cancelled, done, mutex, copy, held,
                 answers, work>>

-----------------------------------------------------------------------------
(* inaccel_response_wait and inaccel_response_wait_for *)

BeginWait(t, r, op) ==
  /\ call[t] = Idle
  /\ r \in owned
  /\ phase[r] = "sent"
  /\ call' = [call EXCEPT ![t] = [Idle EXCEPT !.op = op, !.at = "test",
                                             !.resp = r]]
  /\ UNCHANGED <<queue, resp, mutex, copy, held, grpc, work>>

\* Under the mutex: over, or asleep until the next broadcast.
Test(t) ==
  LET r == call[t].resp IN
  /\ In(t, "test")
  /\ ~mutex[r]
  /\ Goto(t, IF cancelled[r] \/ done[r] THEN "read" ELSE "sleep")
  /\ UNCHANGED <<queue, resp, mutex, copy, held, grpc, work>>

\* The status is read after the unlock.
WaitReturn(t) ==
  /\ In(t, "read")
  /\ Return(t)
  /\ UNCHANGED <<queue, resp, mutex, copy, held, grpc, work>>

Expire(t) ==
  /\ In(t, "sleep")
  /\ call[t].op = "wait_for"
  /\ Goto(t, "expired")
  /\ UNCHANGED <<queue, resp, mutex, copy, held, grpc, work>>

\* pthread_cond_timedwait takes the mutex again and returns ETIMEDOUT; the flags
\* are not looked at again.
WaitTimesOut(t) ==
  /\ In(t, "expired")
  /\ ~mutex[call[t].resp]
  /\ Return(t)
  /\ UNCHANGED <<queue, resp, mutex, copy, held, grpc, work>>

-----------------------------------------------------------------------------
(* The server and the waiters *)

\* gRPC puts the answer of a call in the completion queue.
Answer(r) ==
  /\ r \in calls
  /\ calls' = calls \ {r}
  /\ answers' = answers \cup {r}
  /\ UNCHANGED <<queue, resp, mutex, copy, held, call, work>>

\* cq->Next
Take(w, r) ==
  /\ w \in running
  /\ work[w].at = "next"
  /\ r \in answers
  /\ answers' = answers \ {r}
  /\ work' = [work EXCEPT ![w] = [at |-> "lock", resp |-> r, left |-> 0]]
  /\ UNCHANGED <<queue, resp, mutex, copy, held, calls, call>>

LockResponse(w) ==
  LET r == work[w].resp IN
  /\ work[w].at = "lock"
  /\ ~mutex[r]
  /\ mutex' = [mutex EXCEPT ![r] = TRUE]
  /\ work' = [work EXCEPT ![w].at = "detach", ![w].left = copy[r]]
  /\ UNCHANGED <<queue, resp, copy, held, grpc, call>>

Detach(w) ==
  /\ work[w].at = "detach"
  /\ work[w].left > 0
  /\ held' = [held EXCEPT ![work[w].resp] = @ - 1]
  /\ work' = [work EXCEPT ![w].left = @ - 1]
  /\ UNCHANGED <<queue, resp, mutex, copy, grpc, call>>

\* All arguments are detached.
MutDetached(w) == TRUE
Detached(w) == work[w].left = 0

\* The response was released while it was in flight.
MutAbandoned(r) == FALSE
Abandoned(r) == cancelled[r]

\* The waiter goes back to the queue, for as long as the process lives.
MutServed == [Resting EXCEPT !.at = "exit"]
Served == Resting

\* The response is deleted if it is nobody's, otherwise done.
Complete(w) ==
  LET r == work[w].resp IN
  /\ work[w].at = "detach"
  /\ Detached(w)
  /\ IF Abandoned(r)
     THEN /\ mem' = [mem EXCEPT ![r] = "freed"]
          /\ UNCHANGED <<done, call>>
     ELSE /\ done' = [done EXCEPT ![r] = TRUE]
          /\ call' = Broadcast(r, call)
          /\ UNCHANGED mem
  /\ mutex' = [mutex EXCEPT ![r] = FALSE]
  /\ work' = [work EXCEPT ![w] = Served]
  /\ UNCHANGED <<queue, owned, phase, cancelled, copy, held, grpc>>

-----------------------------------------------------------------------------

Begin(t) ==
  \E r \in Responses :
    \/ \E n \in Arrays : BeginSubmit(t, r, n)
    \/ \E op \in {"wait", "wait_for"} : BeginWait(t, r, op)

Continue(t) ==
  \/ Attach(t) \/ AttachFails(t) \/ Copy(t) \/ Throw(t)
  \/ Queue(t) \/ DaemonFails(t) \/ QueueThrows(t) \/ Start(t)
  \/ Test(t) \/ WaitReturn(t) \/ Expire(t) \/ WaitTimesOut(t)

Serve(w) ==
  \/ \E r \in Responses : Take(w, r)
  \/ LockResponse(w) \/ Detach(w) \/ Complete(w)

Next ==
  \/ \E r \in Responses : Create(r) \/ Release(r) \/ Answer(r)
  \/ \E t \in Threads : Begin(t) \/ Continue(t)
  \/ \E w \in Waiters : Serve(w)

Spec == Init /\ [][Next]_vars

\* Threads inside a call and waiters run and get the mutexes they want in the
\* end, time passes, and (gRPC, external) every call that is started is
\* answered and no answer is passed over in the queue for ever.
FairSpec ==
  /\ Spec
  /\ \A t \in Threads : SF_vars(Continue(t))
  /\ \A w \in Waiters : SF_vars(Serve(w))
  /\ \A r \in Responses : WF_vars(Answer(r)) /\ SF_vars(\E w \in Waiters : Take(w, r))

-----------------------------------------------------------------------------

\* Calls gRPC or a waiter has to deal with yet.
Underway == calls \cup answers \cup {work[w].resp : w \in Waiters}

\* Nobody touches a response that has been deleted: not the thread that submits
\* it, not one that waits on it or reads its status, not gRPC when the answer
\* comes, not the waiter; and only the last of application and waiter, whichever
\* that is, deletes it.
NoUseAfterFree ==
  /\ \A t \in Threads : call[t] # Idle => mem[call[t].resp] = "live"
  /\ \A r \in Underway \ {NoResponse} : mem[r] = "live"
  /\ \A r \in owned : mem[r] = "live"

\* A response is a synchronization point: all array arguments are attached from
\* before the call starts until its answer is handled, and none is by the time
\* the response is seen done or is deleted.
ArraysHeld ==
  \A r \in Responses :
    /\ r \in calls \cup answers => held[r] = copy[r]
    /\ done[r] \/ mem[r] = "freed" => held[r] = 0

\* A response whose call was started is never left behind, whoever releases,
\* answers or waits in between: until it is done it is with the server, in the
\* queue or at a waiter that runs; and one that is done is the application's to
\* release yet.
NotStranded ==
  \A r \in Responses :
    phase[r] = "sent" /\ mem[r] = "live" =>
      \/ done[r] /\ r \in owned
      \/ /\ ~done[r]
         /\ \/ r \in calls \cup answers
            \/ \E w \in running : work[w].resp = r

\* A thread sleeps on a response only while it is neither done nor released.
NoLostWakeup ==
  \A t \in Threads :
    In(t, "sleep") => ~done[call[t].resp] /\ ~cancelled[call[t].resp]

\* The queue is there but nobody serves it, after a waiter failed to start or in
\* a child; or its mutex is never given back, after an exception or in a child.
Unserved == cq /\ running = {}
QueueLost == it

\* inaccel_submit returned 0: the response ends done, or is deleted, as long as
\* one waiter runs.
SubmittedCompletes ==
  \A r \in Responses :
    phase[r] = "sent" ~> done[r] \/ mem[r] = "freed" \/ Unserved

\* A submitted response the application has released is deleted.
SubmittedReclaimed ==
  \A r \in Responses :
    phase[r] = "sent" /\ r \notin owned ~> mem[r] = "freed" \/ Unserved

\* Every call of the application returns, unless it needs the queue's mutex or
\* waits for a response that nobody completes.
CallsReturn ==
  \A t \in Threads :
    call[t] # Idle ~>
      \/ call[t] = Idle
      \/ In(t, "queue") /\ QueueLost
      \/ In(t, "sleep") /\ Unserved

=============================================================================
