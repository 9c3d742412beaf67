------------------------------ MODULE Bindings ------------------------------
(***************************************************************************)
(* The C++, Java and Python bindings (src/main/cpp/headers/rpc.hpp,        *)
(* InAccel.java, inaccel/coral/_rpc.py) and the request they build.        *)
(*                                                                         *)
(* A request object wraps a request and a cursor, the index of the next    *)
(* argument.  Submitting it attaches its arrays and gives a future, whose  *)
(* function waits for the response, makes an exception of an error and     *)
(* releases the response.  Who runs the function tells the three apart:    *)
(* the thread that asks (C++), a thread of its own (Java), a thread of a   *)
(* bounded pool (Python).  The request may be changed and submitted again  *)
(* while earlier submissions are in flight.                                *)
(*                                                                         *)
(* Module Rpc has the steps inside a submission and the life of the        *)
(* response; here a submission is one step, every response is answered,    *)
(* and only whether the binding has released it is kept.  std::future,     *)
(* java.util.concurrent and concurrent.futures are external.               *)
(***************************************************************************)
EXTENDS Integers, Sequences, FiniteSets

CONSTANTS
  Threads,   \* threads of the application
  Futures,   \* futures, and the responses behind them
  Arrays,    \* regions of blocks, as __slice gives them
  PoolSize,  \* threads of the pool of the Python binding
  Failures,  \* what may fail: "slice", "memory", "submit", "wait", "print"
  MaxArgs,   \* bound on the length of the argument list
  NoFuture

ASSUME BindingsAssumption ==
  /\ PoolSize \in Nat \ {0}
  /\ MaxArgs \in Nat
  /\ IsFiniteSet(Futures)
  /\ Arrays \cap {"scalar", "empty"} = {}
  /\ NoFuture \notin Futures

VARIABLES
  args,      \* the argument list of the request: arrays, "scalar" or "empty"
  index,     \* the cursor of the request object
  links,     \* how often each array is attached
  copy,      \* how often each array is in the request of each response, while
             \* it is not answered
  language,  \* the binding of each future, "none" when there is none
  response,  \* "none", "live", "released", or "twice" when released again
  answer,    \* what the server answered: "none", "ok" or "error"
  future,    \* "none", "pending", "value", "error" or "cancelled"
  task,      \* where the function of the future is
  pool,      \* futures in the queue of the pool
  service,   \* whether the executor of a Java future is up
  getting    \* the future each application thread asks for its value

request == <<args, index>>
memory == <<links, copy>>
executors == <<pool, service>>
vars == <<request, memory, language, response, answer, future, task,
          executors, getting>>

Kinds == Arrays \cup {"scalar"}
Running == {"wait", "size", "text"}
None == [a \in Arrays |-> 0]

Init ==
  /\ args = <<>>
  /\ index = 0
  /\ links = None
  /\ copy = [f \in Futures |-> None]
  /\ language = [f \in Futures |-> "none"]
  /\ response = [f \in Futures |-> "none"]
  /\ answer = [f \in Futures |-> "none"]
  /\ future = [f \in Futures |-> "none"]
  /\ task = [f \in Futures |-> "none"]
  /\ pool = <<>>
  /\ service = [f \in Futures |-> FALSE]
  /\ getting = [t \in Threads |-> NoFuture]

-----------------------------------------------------------------------------
(* Building the request, by one thread at a time.                          *)

\* The list as it is when there is an argument at i, a new one unset.
Grown(i) ==
  [j \in 1..(IF Len(args) <= i THEN i + 1 ELSE Len(args)) |->
     IF j <= Len(args) THEN args[j] ELSE "empty"]

\* The array and the scalar of an argument are a oneof: one replaces the other.
Put(i, kind) == [Grown(i) EXCEPT ![i + 1] = kind]

\* inaccel_request_arg_array or _scalar returns -1: EINVAL for no bytes, or an
\* array that is no part of a block, leaves the list as it was; memory that
\* runs out leaves it grown by some part.
ArgFails(i, kind) ==
  \/ "slice" \in Failures /\ kind \in Arrays /\ args' = args
  \/ "memory" \in Failures /\ \E j \in Len(args)..i : args' = Grown(j)

\* The cursor moves when the call has not raised.
Advance == index + 1
MutStay == index + 1
Stay == index

\* arg, arg_array and arg_scalar without an index.
Arg(kind) ==
  /\ index < MaxArgs
  /\ \/ args' = Put(index, kind) /\ index' = Advance
     \/ ArgFails(index, kind) /\ index' = Stay

\* The same with an index, which leaves the cursor where it is.
ArgAt(i, kind) ==
  /\ args' = Put(i, kind) \/ ArgFails(i, kind)
  /\ index' = index

\* A bound: what is changed after the last submission is not looked at.
MoreToSubmit == \E f \in Futures : response[f] = "none"

Build ==
  /\ MoreToSubmit
  /\ \E kind \in Kinds : Arg(kind) \/ \E i \in 0..MaxArgs - 1 : ArgAt(i, kind)
  /\ UNCHANGED <<memory, language, response, answer, future, task, executors,
                 getting>>

-----------------------------------------------------------------------------
(* Submitting it.                                                          *)

\* How often each array is among the first n arguments.
ArraysIn(n) == [a \in Arrays |-> Cardinality({j \in 1..n : args[j] = a})]

Plus(c, d) == [a \in Arrays |-> c[a] + d[a]]
Minus(c, d) == [a \in Arrays |-> c[a] - d[a]]

\* A thread asks for the value of one future at a time.
Idle(t) == getting[t] = NoFuture

\* inaccel_response_create, and an inaccel_submit that returns 0: the arrays
\* are attached, and the response has a copy of the request.
Submit(t, f) ==
  /\ Idle(t)
  /\ response[f] = "none"
  /\ links' = Plus(links, ArraysIn(Len(args)))
  /\ copy' = [copy EXCEPT ![f] = ArraysIn(Len(args))]
  /\ response' = [response EXCEPT ![f] = "live"]
  /\ future' = [future EXCEPT ![f] = "pending"]
  /\ task' = [task EXCEPT ![f] = "ready"]
  /\ UNCHANGED <<request, answer, getting>>

\* The future keeps a deferred function until it is asked.
CppSubmit(t, f) ==
  /\ Submit(t, f)
  /\ language' = [language EXCEPT ![f] = "cpp"]
  /\ UNCHANGED executors

\* Each submission has an executor of its own, with one thread.
JavaSubmit(t, f) ==
  /\ Submit(t, f)
  /\ language' = [language EXCEPT ![f] = "java"]
  /\ service' = [service EXCEPT ![f] = TRUE]
  /\ UNCHANGED pool

\* The process has one executor.
PythonSubmit(t, f) ==
  /\ Submit(t, f)
  /\ language' = [language EXCEPT ![f] = "python"]
  /\ pool' = Append(pool, f)
  /\ UNCHANGED service

\* inaccel_submit returns -1, with the first n arguments attached and left so
\* (AttachFails of Rpc).  The binding releases the response and raises.
SubmitFails(t, f) ==
  /\ "submit" \in Failures
  /\ Idle(t)
  /\ response[f] = "none"
  /\ \E n \in 0..Len(args) : links' = Plus(links, ArraysIn(n))
  /\ response' = [response EXCEPT ![f] = "released"]
  /\ UNCHANGED <<request, copy, language, answer, future, task, executors,
                 getting>>

\* The arrays a completion thread gives back: those of the response's copy.
MutReturned(f) == ArraysIn(Len(args))
Returned(f) == copy[f]

\* The server answers and a completion thread completes the response.
Answer(f, status) ==
  /\ future[f] # "none"
  /\ answer[f] = "none"
  /\ answer' = [answer EXCEPT ![f] = status]
  /\ links' = Minus(links, Returned(f))
  /\ copy' = [copy EXCEPT ![f] = None]
  /\ UNCHANGED <<request, language, response, future, task, executors, getting>>

-----------------------------------------------------------------------------
(* The future.                                                             *)

\* response after inaccel_response_release by the function of the future.
MutReleased(f) == response
Released(f) ==
  [response EXCEPT ![f] = IF @ = "live" THEN "released" ELSE "twice"]

\* A deferred function is run by the thread that asks.
MutAsked(f) == task
Asked(f) == [task EXCEPT ![f] = IF language[f] = "cpp" THEN "wait" ELSE @]

\* response.get(), response.result().  A C++ future is asked once.
Get(t, f) ==
  /\ Idle(t)
  /\ future[f] # "none"
  /\ language[f] = "cpp" => task[f] = "ready"
  /\ getting' = [getting EXCEPT ![t] = f]
  /\ task' = Asked(f)
  /\ UNCHANGED <<request, memory, language, response, answer, future, executors>>

GetReturns(t) ==
  /\ ~Idle(t)
  /\ future[getting[t]] # "pending"
  /\ getting' = [getting EXCEPT ![t] = NoFuture]
  /\ UNCHANGED <<request, memory, language, response, answer, future, task,
                 executors>>

\* A thread takes the function; that of a cancelled future is not called.
Begin(f) == [task EXCEPT ![f] = IF future[f] = "pending" THEN "wait" ELSE "skipped"]

JavaStart(f) ==
  /\ language[f] = "java"
  /\ task[f] = "ready"
  /\ task' = Begin(f)
  /\ UNCHANGED <<request, memory, language, response, answer, future, executors,
                 getting>>

Busy == {f \in Futures : language[f] = "python" /\ task[f] \in Running}

PythonStart ==
  /\ pool # <<>>
  /\ Cardinality(Busy) < PoolSize
  /\ task' = Begin(Head(pool))
  /\ pool' = Tail(pool)
  /\ UNCHANGED <<request, memory, language, response, answer, future, service,
                 getting>>

\* cancel() of a Java future takes effect while it has no value, of a Python
\* one before its function runs.  The response is left to the function.
MutAbandoned(f) == Released(f)
Abandoned(f) == response

Cancel(t, f) ==
  /\ Idle(t)
  /\ future[f] = "pending"
  /\ \/ language[f] = "java"
     \/ language[f] = "python" /\ task[f] = "ready"
  /\ future' = [future EXCEPT ![f] = "cancelled"]
  /\ response' = Abandoned(f)
  /\ UNCHANGED <<request, memory, language, answer, task, executors, getting>>

\* A C++ future is destroyed without being asked.
Drop(t, f) ==
  /\ Idle(t)
  /\ language[f] = "cpp"
  /\ task[f] = "ready"
  /\ future' = [future EXCEPT ![f] = "cancelled"]
  /\ task' = [task EXCEPT ![f] = "skipped"]
  /\ UNCHANGED <<request, memory, language, response, answer, executors, getting>>

-----------------------------------------------------------------------------
(* The function of a future.                                               *)

\* The value or the exception is lost on a future that was cancelled.
Settle(f, result) ==
  [future EXCEPT ![f] = IF @ = "pending" THEN result ELSE @]

\* The way out of the function.
Finish(f, result) ==
  /\ response' = Released(f)
  /\ service' = [service EXCEPT ![f] = FALSE]
  /\ task' = [task EXCEPT ![f] = "ended"]
  /\ future' = Settle(f, result)

\* What inaccel_response_wait may return: the error code, or -1.
Codes(f) ==
  (CASE answer[f] = "ok" -> {0} [] answer[f] = "error" -> {1} [] OTHER -> {})
    \cup (IF "wait" \in Failures THEN {-1} ELSE {})

MutIsError(code) == code > 0
IsError(code) == code # 0

Wait(f) ==
  /\ task[f] = "wait"
  /\ \E code \in Codes(f) :
       \/ ~IsError(code) /\ Finish(f, "value")
       \/ IsError(code) /\ code = -1 /\ Finish(f, "error")
       \/ /\ IsError(code) /\ code # -1
          /\ task' = [task EXCEPT ![f] = "size"]
          /\ UNCHANGED <<response, service, future>>
  /\ UNCHANGED <<request, memory, language, answer, pool, getting>>

\* The first inaccel_response_snprint gives the size of the text.
Size(f) ==
  /\ task[f] = "size"
  /\ \/ /\ task' = [task EXCEPT ![f] = "text"]
        /\ UNCHANGED <<response, service, future>>
     \/ "print" \in Failures /\ Finish(f, "error")
  /\ UNCHANGED <<request, memory, language, answer, pool, getting>>

\* The second fills the buffer: an exception with the text, or one of errno.
Text(f) ==
  /\ task[f] = "text"
  /\ Finish(f, "error")
  /\ UNCHANGED <<request, memory, language, answer, pool, getting>>

\* The buffer cannot be allocated: bad_alloc, OutOfMemoryError or MemoryError
\* leaves the function past its release and its shutdown.
Escape(f) ==
  /\ "memory" \in Failures
  /\ task[f] = "text"
  /\ task' = [task EXCEPT ![f] = "escaped"]
  /\ future' = Settle(f, "error")
  /\ UNCHANGED <<request, memory, language, response, answer, executors, getting>>

Function(f) == Wait(f) \/ Size(f) \/ Text(f) \/ Escape(f)

Next ==
  \/ Build
  \/ \E t \in Threads, f \in Futures :
       \/ CppSubmit(t, f) \/ JavaSubmit(t, f) \/ PythonSubmit(t, f)
       \/ SubmitFails(t, f)
       \/ Get(t, f) \/ Cancel(t, f) \/ Drop(t, f)
  \/ \E t \in Threads : GetReturns(t)
  \/ \E f \in Futures, status \in {"ok", "error"} : Answer(f, status)
  \/ \E f \in Futures : JavaStart(f) \/ Function(f)
  \/ PythonStart

Spec == Init /\ [][Next]_vars

\* The threads run, and every call is answered (SubmittedCompletes of Rpc).
\* Nothing makes the application build, submit, ask or cancel.
Fairness ==
  /\ \A t \in Threads : WF_vars(GetReturns(t))
  /\ \A f \in Futures :
       /\ WF_vars(\E status \in {"ok", "error"} : Answer(f, status))
       /\ WF_vars(JavaStart(f) \/ Function(f))
  /\ WF_vars(PythonStart)

FairSpec == Spec /\ Fairness

-----------------------------------------------------------------------------
(* Properties.                                                             *)

\* Every variable has its type; a response is never released twice, whatever
\* path the function of its future leaves by.
TypeOK ==
  /\ args \in UNION {[1..n -> Kinds \cup {"empty"}] : n \in 0..MaxArgs}
  /\ index \in 0..MaxArgs
  /\ links \in [Arrays -> Nat]
  /\ copy \in [Futures -> [Arrays -> Nat]]
  /\ language \in [Futures -> {"none", "cpp", "java", "python"}]
  /\ response \in [Futures -> {"none", "live", "released"}]
  /\ answer \in [Futures -> {"none", "ok", "error"}]
  /\ future \in [Futures -> {"none", "pending", "value", "error", "cancelled"}]
  /\ task \in [Futures -> {"none", "ready", "skipped", "ended", "escaped"}
                            \cup Running]
  /\ pool \in UNION {[1..n -> Futures] : n \in 0..Cardinality(Futures)}
  /\ service \in [Futures -> BOOLEAN]
  /\ getting \in [Threads -> Futures \cup {NoFuture}]

\* Every argument before the cursor has been set, however calls that raise and
\* calls with an index come between: a request built without indices has no
\* hole.
CursorFilled == \A j \in 1..index : j \in DOMAIN args /\ args[j] # "empty"

\* The places an array has in the requests of submissions in flight.
Places(a) == {p \in Futures \X (1..MaxArgs) : p[2] <= copy[p[1]][a]}

\* An array is attached at least as often as submissions in flight name it,
\* though the request they came from is changed and submitted again meanwhile:
\* no completion gives back an array of another submission.
InFlightAttached == \A a \in Arrays : links[a] >= Cardinality(Places(a))

\* A thread in the function of a future, or about to run it, has a response
\* that was not released: also when the future was cancelled.
NoUseAfterRelease ==
  \A f \in Futures : task[f] \in Running \cup {"ready"} => response[f] = "live"

\* A future that has its value was answered and its arrays are the
\* application's again, which is what makes get() a point of synchronization.
Synchronized ==
  \A f \in Futures : future[f] = "value" => answer[f] = "ok" /\ copy[f] = None

\* Nothing waits for a function nobody runs, however submissions, gets, cancels
\* and errors come: a value that is awaited has a function that runs or is to
\* run, one of C++ that is asked for has begun, one of Python is in the queue of
\* the pool until it begins; and a response is released, once, and its executor
\* shut down, by a function that ends.
NotForgotten ==
  \A f \in Futures :
    /\ future[f] = "pending" => task[f] \in Running \cup {"ready"}
    /\ language[f] = "cpp" /\ (\E t \in Threads : getting[t] = f)
         => task[f] # "ready"
    /\ language[f] = "python" /\ task[f] = "ready"
         => \E i \in DOMAIN pool : pool[i] = f
    /\ task[f] = "ended" => response[f] = "released" /\ ~service[f]

\* A function that is called ends with the response released and its executor
\* shut down, unless memory runs out for the text of an error.
Reclaimed ==
  \A f \in Futures :
    task[f] = "wait" ~> \/ response[f] = "released" /\ ~service[f]
                        \/ task[f] = "escaped"

\* A thread that asks for a value gets it or an exception, though futures wait
\* for a thread of the pool.
GetEnds == \A t \in Threads : ~Idle(t) ~> Idle(t)
=============================================================================
