--------------------------- MODULE BindingsProofs ---------------------------
(***************************************************************************)
(* Proofs about module Bindings, for any number of threads, futures,       *)
(* arguments and pool threads, and whatever fails: its type invariant,     *)
(* that requests built without indices have no hole, that no completion    *)
(* gives back an array of another submission, that no thread is in the     *)
(* function of a future whose response was released, that a value is read  *)
(* after the arrays are the application's again, and that none is awaited  *)
(* that no function will give.                                             *)
(*                                                                         *)
(* The inductive invariant ties the life of a response to the place of the *)
(* function of its future: it is live while the function is in the queue   *)
(* or runs, the futures in the queue of the pool are distinct and not      *)
(* begun, and what is not answered is the only thing that is counted.      *)
(***************************************************************************)
EXTENDS Bindings, SequenceTheorems, FiniteSetTheorems, TLAPS

\* The arguments set so far: those before the cursor, and perhaps later ones.
ArgsInv ==
  /\ args \in Seq(Kinds \cup {"empty"})
  /\ Len(args) <= MaxArgs
  /\ index \in 0..Len(args)
  /\ \A j \in 1..index : args[j] # "empty"

\* The place of the function of a future, its response and its value.
FutureInv ==
  /\ language \in [Futures -> {"none", "cpp", "java", "python"}]
  /\ response \in [Futures -> {"none", "live", "released"}]
  /\ answer \in [Futures -> {"none", "ok", "error"}]
  /\ future \in [Futures -> {"none", "pending", "value", "error", "cancelled"}]
  /\ task \in [Futures -> {"none", "ready", "skipped", "ended", "escaped"}
                            \cup Running]
  /\ service \in [Futures -> BOOLEAN]
  /\ getting \in [Threads -> Futures \cup {NoFuture}]
  /\ \A f \in Futures :
       /\ response[f] = "none" => task[f] = "none"
       /\ future[f] = "none" <=> task[f] = "none"
       /\ future[f] = "none" => answer[f] = "none"
       /\ task[f] \in Running \cup {"ready"} => response[f] = "live"
       /\ future[f] = "value" => answer[f] = "ok"

\* The queue of the pool: distinct futures, none of them begun.
PoolInv ==
  /\ pool \in Seq(Futures)
  /\ \A i \in 1..Len(pool) :
       language[pool[i]] = "python" /\ task[pool[i]] = "ready"
  /\ \A i, j \in 1..Len(pool) : pool[i] = pool[j] => i = j

\* The arrays in flight.
CountInv ==
  /\ links \in [Arrays -> Nat]
  /\ copy \in [Futures -> [Arrays -> 0..MaxArgs]]
  /\ \A f \in Futures : future[f] = "none" \/ answer[f] # "none" => copy[f] = None
  /\ InFlightAttached

IInv == ArgsInv /\ FutureInv /\ PoolInv /\ CountInv

-----------------------------------------------------------------------------
(* The argument list.                                                      *)

\* A function on an interval from 1 is a sequence.
LEMMA SequenceOn ==
  ASSUME NEW S, NEW n \in Nat, NEW s \in [1..n -> S]
  PROVE  s \in Seq(S) /\ Len(s) = n
OBVIOUS

\* A list that is made longer keeps what it holds.
LEMMA GrownList ==
  ASSUME ArgsInv, NEW i \in Nat, i < MaxArgs
  PROVE  /\ Grown(i) \in Seq(Kinds \cup {"empty"})
         /\ Len(Grown(i)) = IF Len(args) <= i THEN i + 1 ELSE Len(args)
         /\ \A j \in 1..Len(args) : Grown(i)[j] = args[j]
<1> DEFINE n == IF Len(args) <= i THEN i + 1 ELSE Len(args)
<1>1. n \in Nat /\ Len(args) \in Nat
  BY LenProperties DEF ArgsInv
<1>2. Grown(i) \in [1..n -> Kinds \cup {"empty"}]
  BY <1>1, ElementOfSeq DEF Grown, ArgsInv
<1>3. Grown(i) \in Seq(Kinds \cup {"empty"}) /\ Len(Grown(i)) = n
  BY <1>1, <1>2, SequenceOn
<1>4. \A j \in 1..Len(args) : Grown(i)[j] = args[j]
  BY <1>1 DEF Grown
<1> QED
  BY <1>3, <1>4

\* An argument that is set is the only one that changes.
LEMMA PutList ==
  ASSUME ArgsInv, NEW i \in Nat, i < MaxArgs, NEW kind \in Kinds
  PROVE  /\ Put(i, kind) \in Seq(Kinds \cup {"empty"})
         /\ Len(Put(i, kind)) = IF Len(args) <= i THEN i + 1 ELSE Len(args)
         /\ Put(i, kind)[i + 1] = kind
         /\ \A j \in 1..Len(args) : j # i + 1 => Put(i, kind)[j] = args[j]
<1>1. Len(args) \in Nat
  BY LenProperties DEF ArgsInv
<1>2. /\ Grown(i) \in Seq(Kinds \cup {"empty"})
      /\ Len(Grown(i)) = IF Len(args) <= i THEN i + 1 ELSE Len(args)
      /\ \A j \in 1..Len(args) : Grown(i)[j] = args[j]
  BY GrownList
<1>3. i + 1 \in 1..Len(Grown(i)) /\ Len(args) <= Len(Grown(i))
  BY <1>1, <1>2
<1>4. /\ Put(i, kind) \in Seq(Kinds \cup {"empty"})
      /\ Len(Put(i, kind)) = Len(Grown(i))
      /\ \A j \in 1..Len(Grown(i)) :
           Put(i, kind)[j] = IF j = i + 1 THEN kind ELSE Grown(i)[j]
  BY <1>2, <1>3, ExceptSeq DEF Put
<1> QED
  BY <1>1, <1>2, <1>3, <1>4

\* A call that raises sets no argument, and takes none away.
LEMMA ArgFailsList ==
  ASSUME ArgsInv, NEW i \in Nat, i < MaxArgs, NEW kind \in Kinds,
         ArgFails(i, kind)
  PROVE  /\ args' \in Seq(Kinds \cup {"empty"})
         /\ Len(args) <= Len(args') /\ Len(args') <= MaxArgs
         /\ \A j \in 1..Len(args) : args'[j] = args[j]
<1>1. Len(args) \in Nat
  BY LenProperties DEF ArgsInv
<1>2. ASSUME NEW j \in Len(args)..i, args' = Grown(j)
      PROVE  /\ args' \in Seq(Kinds \cup {"empty"})
             /\ Len(args) <= Len(args') /\ Len(args') <= MaxArgs
             /\ \A k \in 1..Len(args) : args'[k] = args[k]
  <2>1. j \in Nat /\ j < MaxArgs
    BY <1>1, BindingsAssumption
  <2> QED
    BY <1>1, <1>2, <2>1, GrownList, BindingsAssumption
<1>3. CASE args' = args
  BY <1>1, <1>3 DEF ArgsInv
<1> QED
  BY <1>2, <1>3 DEF ArgFails

\* The calls that build the request keep it without a hole before the cursor.
LEMMA BuildArgs ==
  ASSUME ArgsInv, Build
  PROVE  ArgsInv'
<1>1. Len(args) \in Nat /\ MaxArgs \in Nat
  BY LenProperties, BindingsAssumption DEF ArgsInv
<1>2. PICK kind \in Kinds :
        Arg(kind) \/ \E i \in 0..MaxArgs - 1 : ArgAt(i, kind)
  BY DEF Build
<1>3. kind # "empty"
  BY BindingsAssumption DEF Kinds
<1>4. ASSUME NEW i \in Nat, i < MaxArgs, ArgFails(i, kind), index' = index
      PROVE  ArgsInv'
  BY <1>1, <1>4, ArgFailsList DEF ArgsInv
<1>5. ASSUME NEW i \in Nat, i < MaxArgs, args' = Put(i, kind),
             index' = index \/ (index' = i + 1 /\ i = index)
      PROVE  ArgsInv'
  <2>1. /\ args' \in Seq(Kinds \cup {"empty"})
        /\ Len(args') = IF Len(args) <= i THEN i + 1 ELSE Len(args)
        /\ args'[i + 1] = kind
        /\ \A j \in 1..Len(args) : j # i + 1 => args'[j] = args[j]
    BY <1>5, PutList
  <2>2. /\ index \in 0..Len(args) /\ Len(args) <= MaxArgs
        /\ \A j \in 1..index : args[j] # "empty"
    BY DEF ArgsInv
  <2>3. index' \in 0..Len(args') /\ Len(args') <= MaxArgs
    BY <1>1, <1>5, <2>1, <2>2
  <2>4. \A j \in 1..index' : args'[j] # "empty"
    BY <1>1, <1>3, <1>5, <2>1, <2>2
  <2> QED
    BY <2>1, <2>3, <2>4 DEF ArgsInv
<1>6. CASE Arg(kind)
  <2>1. index \in Nat /\ index < MaxArgs
    BY <1>1, <1>6 DEF Arg, ArgsInv
  <2> QED
    BY <1>4, <1>5, <1>6, <2>1 DEF Arg, Advance, Stay
<1>7. ASSUME NEW i \in Nat, i < MaxArgs, ArgAt(i, kind)
      PROVE  ArgsInv'
  <2>1. CASE args' = Put(i, kind)
    <3>1. index' = index
      BY <1>7 DEF ArgAt
    <3> QED
      BY <1>5, <1>7, <2>1, <3>1
  <2>2. CASE ArgFails(i, kind)
    BY <1>4, <1>7, <2>2 DEF ArgAt
  <2> QED
    BY <1>7, <2>1, <2>2 DEF ArgAt
<1> QED
  <2>1. \A i \in 0..MaxArgs - 1 : i \in Nat /\ i < MaxArgs
    BY <1>1
  <2> QED
    BY <1>2, <1>6, <1>7, <2>1

-----------------------------------------------------------------------------
(* The arrays in flight.                                                   *)

\* An array is in a request at most as often as the request has arguments.
LEMMA ArraysInRequest ==
  ASSUME ArgsInv, NEW n \in 0..Len(args)
  PROVE  ArraysIn(n) \in [Arrays -> 0..MaxArgs]
<1> SUFFICES ASSUME NEW a \in Arrays
             PROVE  Cardinality({j \in 1..n : args[j] = a}) \in 0..MaxArgs
  BY DEF ArraysIn
<1>1. n \in Nat /\ n <= MaxArgs /\ MaxArgs \in Nat
  BY LenProperties, BindingsAssumption DEF ArgsInv
<1>2. IsFiniteSet(1..n) /\ Cardinality(1..n) = n
  BY <1>1, FS_Interval
<1>3. {j \in 1..n : args[j] = a} \in SUBSET (1..n)
  OBVIOUS
<1>4. /\ IsFiniteSet({j \in 1..n : args[j] = a})
      /\ Cardinality({j \in 1..n : args[j] = a}) <= n
  BY <1>2, <1>3, FS_Subset
<1> QED
  BY <1>1, <1>4, FS_CardinalityType

\* The places an array has in the requests of all futures but f.
Others(f, a) == {p \in Places(a) : p[1] # f}

CopyType == copy \in [Futures -> [Arrays -> 0..MaxArgs]]

\* The places of an array are those in the request of f, and the others.
LEMMA CountPlaces ==
  CopyType => \A f \in Futures, a \in Arrays :
    /\ Cardinality(Others(f, a)) \in Nat
    /\ Cardinality(Places(a)) = Cardinality(Others(f, a)) + copy[f][a]
<1> SUFFICES ASSUME CopyType, NEW f \in Futures, NEW a \in Arrays
             PROVE  /\ Cardinality(Others(f, a)) \in Nat
                    /\ Cardinality(Places(a)) =
                         Cardinality(Others(f, a)) + copy[f][a]
  OBVIOUS
<1>1. PICK m \in Nat : m = copy[f][a] /\ m <= MaxArgs
  BY BindingsAssumption DEF CopyType
<1>2. IsFiniteSet({f} \X (1..m)) /\ Cardinality({f} \X (1..m)) = m
  <2>1. IsFiniteSet(1..m) /\ Cardinality(1..m) = m
    BY FS_Interval
  <2>2. IsFiniteSet({f}) /\ Cardinality({f}) = 1
    BY FS_Singleton
  <2>3. /\ IsFiniteSet({f} \X (1..m))
        /\ Cardinality({f} \X (1..m)) = Cardinality({f}) * Cardinality(1..m)
    BY <2>1, <2>2, FS_Product
  <2> QED
    BY <2>1, <2>2, <2>3
<1>3. IsFiniteSet(Others(f, a))
  <2>1. IsFiniteSet(1..MaxArgs)
    BY FS_Interval, BindingsAssumption
  <2>2. IsFiniteSet(Futures \X (1..MaxArgs))
    BY <2>1, FS_Product, BindingsAssumption
  <2>3. Others(f, a) \in SUBSET (Futures \X (1..MaxArgs))
    BY DEF Others, Places
  <2> QED
    BY <2>2, <2>3, FS_Subset
<1>4. /\ Places(a) = Others(f, a) \cup ({f} \X (1..m))
      /\ Others(f, a) \cap ({f} \X (1..m)) = {}
  BY <1>1, BindingsAssumption DEF Others, Places
<1>5. Cardinality(Others(f, a)) \in Nat
  BY <1>3, FS_CardinalityType
<1>6. Cardinality(Others(f, a) \cap ({f} \X (1..m))) = 0
  BY <1>4, FS_EmptySet
<1>7. Cardinality(Places(a)) =
        Cardinality(Others(f, a)) + Cardinality({f} \X (1..m)) - 0
  BY <1>2, <1>3, <1>4, <1>6, FS_Union
<1> QED
  BY <1>1, <1>2, <1>5, <1>7

\* The same in the next state.
LEMMA CountPlacesNext ==
  CopyType' => \A f \in Futures, a \in Arrays :
    /\ Cardinality(Others(f, a)') \in Nat
    /\ Cardinality(Places(a)') = Cardinality(Others(f, a)') + copy'[f][a]
<1>1. (CopyType => \A f \in Futures, a \in Arrays :
         /\ Cardinality(Others(f, a)) \in Nat
         /\ Cardinality(Places(a)) = Cardinality(Others(f, a)) + copy[f][a])'
  BY CountPlaces, PTL
<1> QED
  BY <1>1

\* A submission attaches what its response has a copy of, and a completion gives
\* back the copy: what is attached covers what is in flight.
LEMMA CopyCounts ==
  ASSUME CountInv, NEW f \in Futures, NEW d \in [Arrays -> 0..MaxArgs],
         copy' = [copy EXCEPT ![f] = d],
         links' = [a \in Arrays |-> links[a] + d[a] - copy[f][a]]
  PROVE  CopyType' /\ links' \in [Arrays -> Nat] /\ InFlightAttached'
<1>1. CopyType /\ CopyType'
  BY DEF CountInv, CopyType
<1>2. ASSUME NEW a \in Arrays
      PROVE  links'[a] \in Nat /\ links'[a] >= Cardinality(Places(a)')
  <2>1. Others(f, a)' = Others(f, a)
    BY DEF Others, Places, CountInv
  <2>2. PICK n \in Nat : /\ n = Cardinality(Others(f, a))
                         /\ Cardinality(Places(a)) = n + copy[f][a]
                         /\ Cardinality(Places(a)') = n + copy'[f][a]
    BY <1>1, <2>1, CountPlaces, CountPlacesNext
  <2>3. /\ links[a] \in Nat /\ copy[f][a] \in Nat /\ d[a] \in Nat
        /\ copy'[f][a] = d[a]
        /\ links[a] >= n + copy[f][a]
    BY <2>2, BindingsAssumption DEF CountInv, InFlightAttached
  <2>4. links'[a] = links[a] + d[a] - copy[f][a]
    OBVIOUS
  <2> QED
    BY <2>2, <2>3, <2>4
<1>3. links' \in [Arrays -> Nat]
  BY <1>2
<1> QED
  BY <1>1, <1>2, <1>3 DEF InFlightAttached

\* Steps that leave the arrays alone.
LEMMA MemoryFrame ==
  ASSUME CountInv, UNCHANGED memory,
         \A f \in Futures : future'[f] = "none" => future[f] = "none",
         answer' = answer
  PROVE  CountInv'
<1>1. \A a \in Arrays : Places(a)' = Places(a)
  BY DEF memory, Places
<1>2. InFlightAttached'
  BY <1>1 DEF memory, CountInv, InFlightAttached
<1> QED
  BY <1>2 DEF memory, CountInv

-----------------------------------------------------------------------------
(* The steps.                                                              *)

\* inaccel_submit returns 0.
LEMMA SubmitInv ==
  ASSUME IInv, NEW t \in Threads, NEW f \in Futures,
         CppSubmit(t, f) \/ JavaSubmit(t, f) \/ PythonSubmit(t, f)
  PROVE  IInv'
<1>1. Submit(t, f)
  BY DEF CppSubmit, JavaSubmit, PythonSubmit
<1>2. /\ response[f] = "none" /\ task[f] = "none" /\ future[f] = "none"
      /\ answer[f] = "none" /\ copy[f] = None
  BY <1>1 DEF Submit, IInv, FutureInv, CountInv
<1>3. ArgsInv'
  BY <1>1 DEF Submit, request, IInv, ArgsInv
<1>4. PICK n \in {"cpp", "java", "python"} :
        language' = [language EXCEPT ![f] = n]
  BY DEF CppSubmit, JavaSubmit, PythonSubmit
<1>5. FutureInv'
  <2>1. service' \in [Futures -> BOOLEAN]
    BY DEF CppSubmit, JavaSubmit, PythonSubmit, executors, IInv, FutureInv
  <2> QED
    BY <1>1, <1>2, <1>4, <2>1 DEF Submit, Running, IInv, FutureInv
<1>6. CountInv'
  <2>1. ArraysIn(Len(args)) \in [Arrays -> 0..MaxArgs]
    BY LenProperties, ArraysInRequest DEF IInv, ArgsInv
  <2>2. links' = [a \in Arrays |->
                    links[a] + ArraysIn(Len(args))[a] - copy[f][a]]
    <3>1. \A a \in Arrays : copy[f][a] = 0
      BY <1>2 DEF None
    <3>2. \A a \in Arrays :
            links[a] + ArraysIn(Len(args))[a]
              = links[a] + ArraysIn(Len(args))[a] - copy[f][a]
      BY <2>1, <3>1, BindingsAssumption DEF IInv, CountInv
    <3>3. links' = [a \in Arrays |-> links[a] + ArraysIn(Len(args))[a]]
      BY <1>1 DEF Submit, Plus
    <3> QED
      BY <3>2, <3>3
  <2>3. CopyType' /\ links' \in [Arrays -> Nat] /\ InFlightAttached'
    BY <1>1, <2>1, <2>2, CopyCounts DEF Submit, IInv
  <2>4. \A g \in Futures :
          future'[g] = "none" \/ answer'[g] # "none" => copy'[g] = None
    BY <1>1, <1>2 DEF Submit, IInv, CountInv, FutureInv
  <2> QED
    BY <2>3, <2>4 DEF CountInv, CopyType
<1>7. PoolInv'
  <2>1. \A i \in 1..Len(pool) : pool[i] # f
    BY <1>2 DEF IInv, PoolInv
  <2>2. Len(pool) \in Nat /\ \A i \in 1..Len(pool) : pool[i] \in Futures
    BY LenProperties, ElementOfSeq DEF IInv, PoolInv
  <2>3. \A i \in 1..Len(pool) :
          language'[pool[i]] = "python" /\ task'[pool[i]] = "ready"
    BY <1>1, <1>4, <2>1, <2>2 DEF Submit, IInv, PoolInv, FutureInv
  <2>4. CASE pool' = pool
    BY <2>3, <2>4 DEF IInv, PoolInv
  <2>5. CASE PythonSubmit(t, f)
    <3>1. /\ pool' \in Seq(Futures) /\ Len(pool') = Len(pool) + 1
          /\ \A i \in 1..Len(pool) : pool'[i] = pool[i]
          /\ pool'[Len(pool) + 1] = f
      BY <2>5 DEF PythonSubmit, IInv, PoolInv
    <3>2. language'[f] = "python" /\ task'[f] = "ready"
      BY <1>1, <2>5 DEF PythonSubmit, Submit, IInv, FutureInv
    <3>3. \A i \in 1..Len(pool') :
            i \in 1..Len(pool) \/ i = Len(pool) + 1
      BY <2>2, <3>1
    <3> QED
      BY <2>1, <2>2, <2>3, <3>1, <3>2, <3>3 DEF IInv, PoolInv
  <2> QED
    BY <2>4, <2>5 DEF CppSubmit, JavaSubmit, PythonSubmit, executors
<1> QED
  BY <1>3, <1>5, <1>6, <1>7 DEF IInv

\* inaccel_submit fails: what it attached is counted and never given back.
LEMMA SubmitFailsInv ==
  ASSUME IInv, NEW t \in Threads, NEW f \in Futures, SubmitFails(t, f)
  PROVE  IInv'
<1>1. ArgsInv' /\ PoolInv'
  BY DEF SubmitFails, request, executors, IInv, ArgsInv, PoolInv
<1>2. FutureInv'
  BY DEF SubmitFails, executors, IInv, FutureInv, Running
<1>3. CountInv'
  <2>1. PICK n \in 0..Len(args) : links' = Plus(links, ArraysIn(n))
    BY DEF SubmitFails
  <2>2. ArraysIn(n) \in [Arrays -> 0..MaxArgs]
    BY ArraysInRequest DEF IInv
  <2>3. /\ links' \in [Arrays -> Nat]
        /\ \A a \in Arrays : links'[a] >= links[a]
    BY <2>1, <2>2, BindingsAssumption DEF Plus, IInv, CountInv
  <2>4. \A a \in Arrays : Places(a)' = Places(a)
    BY DEF SubmitFails, Places
  <2>5. \A a \in Arrays : Cardinality(Places(a)) \in Nat
    <3>1. IsFiniteSet(1..MaxArgs)
      BY FS_Interval, BindingsAssumption
    <3>2. IsFiniteSet(Futures \X (1..MaxArgs))
      BY <3>1, FS_Product, BindingsAssumption
    <3>3. \A a \in Arrays : Places(a) \in SUBSET (Futures \X (1..MaxArgs))
      BY DEF Places
    <3> QED
      BY <3>2, <3>3, FS_Subset, FS_CardinalityType
  <2>6. InFlightAttached'
    BY <2>3, <2>4, <2>5 DEF InFlightAttached, IInv, CountInv
  <2> QED
    BY <2>3, <2>6 DEF SubmitFails, IInv, CountInv
<1> QED
  BY <1>1, <1>2, <1>3 DEF IInv

\* A completion gives back the arrays of its own response.
LEMMA AnswerInv ==
  ASSUME IInv, NEW f \in Futures, NEW status \in {"ok", "error"},
         Answer(f, status)
  PROVE  IInv'
<1>1. ArgsInv' /\ PoolInv'
  BY DEF Answer, request, executors, IInv, ArgsInv, PoolInv
<1>2. FutureInv'
  BY DEF Answer, executors, IInv, FutureInv
<1>3. CountInv'
  <2>1. None \in [Arrays -> 0..MaxArgs] /\ \A a \in Arrays : None[a] = 0
    BY BindingsAssumption DEF None
  <2>2. links' = [a \in Arrays |-> links[a] + None[a] - copy[f][a]]
    <3>1. \A a \in Arrays :
            links[a] - copy[f][a] = links[a] + None[a] - copy[f][a]
      BY <2>1, BindingsAssumption DEF IInv, CountInv
    <3>2. links' = [a \in Arrays |-> links[a] - copy[f][a]]
      BY DEF Answer, Minus, Returned
    <3> QED
      BY <3>1, <3>2
  <2>3. CopyType' /\ links' \in [Arrays -> Nat] /\ InFlightAttached'
    BY <2>1, <2>2, CopyCounts DEF Answer, IInv
  <2>4. \A g \in Futures :
          future'[g] = "none" \/ answer'[g] # "none" => copy'[g] = None
    BY DEF Answer, IInv, CountInv, FutureInv
  <2> QED
    BY <2>3, <2>4 DEF CountInv, CopyType
<1> QED
  BY <1>1, <1>2, <1>3 DEF IInv

\* Asking, cancelling and dropping: the function of a future in the queue of the
\* pool stays where it is.
LEMMA AskInv ==
  ASSUME IInv, NEW t \in Threads, NEW f \in Futures,
         Get(t, f) \/ Cancel(t, f) \/ Drop(t, f)
  PROVE  IInv'
<1>1. UNCHANGED <<request, memory, language, answer, executors, response>>
  BY DEF Get, Cancel, Drop, Abandoned
<1>2. ArgsInv'
  BY <1>1 DEF request, IInv, ArgsInv
<1>3. FutureInv'
  <2>1. CASE Get(t, f)
    BY <2>1 DEF Get, Asked, executors, IInv, FutureInv, Running
  <2>2. CASE Cancel(t, f)
    BY <2>2 DEF Cancel, Abandoned, executors, IInv, FutureInv
  <2>3. CASE Drop(t, f)
    BY <2>3 DEF Drop, executors, IInv, FutureInv, Running
  <2> QED
    BY <2>1, <2>2, <2>3
<1>4. CountInv'
  BY <1>1, MemoryFrame DEF Get, Cancel, Drop, IInv, FutureInv
<1>5. PoolInv'
  <2>1. \A g \in Futures : language[g] = "python" => task'[g] = task[g]
    BY DEF Get, Asked, Cancel, Drop, IInv, FutureInv
  <2>2. \A i \in 1..Len(pool) : pool[i] \in Futures
    BY ElementOfSeq DEF IInv, PoolInv
  <2> QED
    BY <1>1, <2>1, <2>2 DEF executors, IInv, PoolInv
<1> QED
  BY <1>2, <1>3, <1>4, <1>5 DEF IInv

\* A thread takes the function of a Java future, or that at the head of the
\* queue of the pool, which is in it once.
LEMMA StartInv ==
  ASSUME IInv, PythonStart \/ \E f \in Futures : JavaStart(f)
  PROVE  IInv'
<1>1. /\ UNCHANGED <<request, memory, language, response, answer, future,
                     service, getting>>
  BY DEF PythonStart, JavaStart, executors
<1>2. ArgsInv'
  BY <1>1 DEF request, IInv, ArgsInv
<1>3. CountInv'
  BY <1>1, MemoryFrame DEF IInv
<1>4. ASSUME NEW f \in Futures, task[f] = "ready", task' = Begin(f)
      PROVE  FutureInv' /\ \A g \in Futures \ {f} : task'[g] = task[g]
  BY <1>1, <1>4 DEF Begin, Running, IInv, FutureInv
<1>5. ASSUME NEW f \in Futures, JavaStart(f)
      PROVE  IInv'
  <2>1. FutureInv' /\ \A g \in Futures \ {f} : task'[g] = task[g]
    BY <1>4, <1>5 DEF JavaStart
  <2>2. \A i \in 1..Len(pool) : pool[i] \in Futures \ {f}
    BY <1>5, ElementOfSeq DEF JavaStart, IInv, PoolInv
  <2>3. PoolInv'
    BY <1>1, <1>5, <2>1, <2>2 DEF JavaStart, executors, IInv, PoolInv
  <2> QED
    BY <1>2, <1>3, <2>1, <2>3 DEF IInv
<1>6. CASE PythonStart
  <2>1. /\ pool \in Seq(Futures) /\ pool # <<>>
        /\ task' = Begin(Head(pool)) /\ pool' = Tail(pool)
    BY <1>6 DEF PythonStart, IInv, PoolInv
  <2>2. /\ Len(pool) \in Nat /\ 1 \in 1..Len(pool)
        /\ Head(pool) = pool[1] /\ pool[1] \in Futures
    BY <2>1, EmptySeq, LenProperties, ElementOfSeq
  <2>3. /\ pool' \in Seq(Futures) /\ Len(pool') = Len(pool) - 1
        /\ \A i \in 1..Len(pool') : pool'[i] = pool[i + 1]
    BY <2>1, HeadTailProperties
  <2>4. /\ FutureInv'
        /\ \A g \in Futures \ {pool[1]} : task'[g] = task[g]
    BY <1>4, <2>1, <2>2 DEF IInv, PoolInv
  <2>5. \A i \in 1..Len(pool') :
          i + 1 \in 1..Len(pool) /\ pool[i + 1] \in Futures \ {pool[1]}
    <3>1. \A i \in 1..Len(pool') : i + 1 \in 1..Len(pool) /\ i + 1 # 1
      BY <2>2, <2>3
    <3> QED
      BY <2>1, <2>2, <3>1, ElementOfSeq DEF IInv, PoolInv
  <2>6. PoolInv'
    <3>1. ASSUME NEW i \in 1..Len(pool')
          PROVE  language'[pool'[i]] = "python" /\ task'[pool'[i]] = "ready"
      <4>1. pool'[i] = pool[i + 1] /\ i + 1 \in 1..Len(pool)
        BY <2>3, <2>5
      <4>2. language[pool[i + 1]] = "python" /\ task[pool[i + 1]] = "ready"
        BY <4>1 DEF IInv, PoolInv
      <4> QED
        BY <1>1, <2>4, <2>5, <4>1, <4>2
    <3>2. \A i, j \in 1..Len(pool') : pool'[i] = pool'[j] => i = j
      <4> SUFFICES ASSUME NEW i \in 1..Len(pool'), NEW j \in 1..Len(pool'),
                          pool'[i] = pool'[j]
                   PROVE  i = j
        OBVIOUS
      <4>1. i + 1 = j + 1
        BY <2>3, <2>5 DEF IInv, PoolInv
      <4> QED
        BY <2>2, <2>3, <4>1
    <3> QED
      BY <2>3, <3>1, <3>2 DEF PoolInv
  <2> QED
    BY <1>2, <1>3, <2>4, <2>6 DEF IInv
<1> QED
  BY <1>5, <1>6

\* The function of a future releases the response on each way out.
LEMMA FunctionInv ==
  ASSUME IInv, NEW f \in Futures, Function(f)
  PROVE  IInv'
<1>1. /\ UNCHANGED <<request, memory, language, answer, pool, getting>>
      /\ task[f] \in Running
  BY DEF Function, Wait, Size, Text, Escape, executors, Running
<1>2. ArgsInv'
  BY <1>1 DEF request, IInv, ArgsInv
<1>3. /\ FutureInv' /\ task'[f] # "none"
      /\ \A g \in Futures \ {f} : task'[g] = task[g]
  <2>1. ASSUME NEW result \in {"value", "error"}, Finish(f, result),
               result = "value" => answer[f] = "ok"
        PROVE  /\ FutureInv' /\ task'[f] # "none"
               /\ \A g \in Futures \ {f} : task'[g] = task[g]
    BY <1>1, <2>1 DEF Finish, Settle, Released, Running, IInv, FutureInv
  <2>2. ASSUME NEW p \in Running, task' = [task EXCEPT ![f] = p],
               UNCHANGED <<response, service, future>>
        PROVE  /\ FutureInv' /\ task'[f] # "none"
               /\ \A g \in Futures \ {f} : task'[g] = task[g]
    BY <1>1, <2>2 DEF Running, IInv, FutureInv
  <2>3. CASE Wait(f)
    <3>1. PICK code \in Codes(f) :
            \/ ~IsError(code) /\ Finish(f, "value")
            \/ Finish(f, "error")
            \/ /\ task' = [task EXCEPT ![f] = "size"]
               /\ UNCHANGED <<response, service, future>>
      BY <2>3 DEF Wait
    <3>2. ~IsError(code) => answer[f] = "ok"
      BY DEF Codes, IsError, IInv, FutureInv
    <3> QED
      BY <2>1, <2>2, <3>1, <3>2 DEF Running
  <2>4. CASE Size(f)
    BY <2>1, <2>2, <2>4 DEF Size, Running
  <2>5. CASE Text(f)
    BY <2>1, <2>5 DEF Text
  <2>6. CASE Escape(f)
    BY <1>1, <2>6 DEF Escape, Settle, executors, Running, IInv, FutureInv
  <2> QED
    BY <2>3, <2>4, <2>5, <2>6 DEF Function
<1>4. CountInv'
  <2>1. \A g \in Futures : future'[g] = "none" => future[g] = "none"
    BY <1>1, <1>3 DEF IInv, FutureInv, Running
  <2> QED
    BY <1>1, <2>1, MemoryFrame DEF IInv
<1>5. PoolInv'
  <2>1. \A i \in 1..Len(pool) : pool[i] \in Futures \ {f}
    BY <1>1, ElementOfSeq DEF IInv, PoolInv, Running
  <2> QED
    BY <1>1, <1>3, <2>1 DEF IInv, PoolInv
<1> QED
  BY <1>2, <1>3, <1>4, <1>5 DEF IInv

-----------------------------------------------------------------------------
(* The invariant and what it implies.                                      *)

\* The invariant holds in every reachable state.
THEOREM Invariance == Spec => []IInv
<1>1. Init => IInv
  <2> SUFFICES ASSUME Init
               PROVE  IInv
    OBVIOUS
  <2>1. ArgsInv
    <3>1. args \in Seq(Kinds \cup {"empty"}) /\ Len(args) = 0
      BY EmptySeq DEF Init
    <3> QED
      BY <3>1, BindingsAssumption DEF Init, ArgsInv
  <2>2. FutureInv
    BY DEF Init, FutureInv, Running
  <2>3. PoolInv
    <3>1. pool \in Seq(Futures) /\ Len(pool) = 0
      BY EmptySeq DEF Init
    <3> QED
      BY <3>1 DEF PoolInv
  <2>4. CountInv
    <3>1. links \in [Arrays -> Nat] /\ copy \in [Futures -> [Arrays -> 0..MaxArgs]]
      BY BindingsAssumption DEF Init, None
    <3>2. \A a \in Arrays : Places(a) = {} /\ links[a] = 0
      BY BindingsAssumption DEF Init, None, Places
    <3>3. InFlightAttached
      BY <3>2, FS_EmptySet DEF InFlightAttached
    <3> QED
      BY <3>1, <3>3 DEF Init, CountInv
  <2> QED
    BY <2>1, <2>2, <2>3, <2>4 DEF IInv
<1>2. IInv /\ [Next]_vars => IInv'
  <2> SUFFICES ASSUME IInv, [Next]_vars
               PROVE  IInv'
    OBVIOUS
  <2>1. CASE Build
    <3>1. ArgsInv'
      BY <2>1, BuildArgs DEF IInv
    <3>2. FutureInv' /\ PoolInv'
      BY <2>1 DEF Build, executors, IInv, FutureInv, PoolInv
    <3>3. CountInv'
      BY <2>1, MemoryFrame DEF Build, IInv
    <3> QED
      BY <3>1, <3>2, <3>3 DEF IInv
  <2>2. ASSUME NEW t \in Threads, GetReturns(t)
        PROVE  IInv'
    <3>1. ArgsInv' /\ FutureInv' /\ PoolInv'
      BY <2>2 DEF GetReturns, request, executors, IInv, ArgsInv, FutureInv,
                  PoolInv
    <3>2. CountInv'
      BY <2>2, MemoryFrame DEF GetReturns, IInv
    <3> QED
      BY <3>1, <3>2 DEF IInv
  <2>3. CASE UNCHANGED vars
    <3>1. ArgsInv' /\ FutureInv' /\ PoolInv'
      BY <2>3 DEF vars, request, executors, IInv, ArgsInv, FutureInv, PoolInv
    <3>2. CountInv'
      BY <2>3, MemoryFrame DEF vars, IInv
    <3> QED
      BY <3>1, <3>2 DEF IInv
  <2> QED
    BY <2>1, <2>2, <2>3, SubmitInv, SubmitFailsInv, AnswerInv, AskInv, StartInv,
       FunctionInv DEF Next
<1> QED
  BY <1>1, <1>2, PTL DEF Spec

\* Every variable has its type in every reachable state: a response is released
\* once, and the queue of the pool is no longer than there are futures.
THEOREM TypeCorrect == Spec => []TypeOK
<1>1. IInv => TypeOK
  <2> SUFFICES ASSUME IInv
               PROVE  TypeOK
    OBVIOUS
  <2>1. args \in UNION {[1..n -> Kinds \cup {"empty"}] : n \in 0..MaxArgs}
    <3>1. Len(args) \in 0..MaxArgs
      BY LenProperties, BindingsAssumption DEF IInv, ArgsInv
    <3>2. args \in [1..Len(args) -> Kinds \cup {"empty"}]
      BY LenProperties DEF IInv, ArgsInv
    <3> QED
      BY <3>1, <3>2
  <2>2. index \in 0..MaxArgs
    BY LenProperties, BindingsAssumption DEF IInv, ArgsInv
  <2>3. copy \in [Futures -> [Arrays -> Nat]]
    BY BindingsAssumption DEF IInv, CountInv
  <2>4. pool \in UNION {[1..n -> Futures] : n \in 0..Cardinality(Futures)}
    <3>1. pool \in [1..Len(pool) -> Futures] /\ Len(pool) \in Nat
      BY LenProperties DEF IInv, PoolInv
    <3>2. pool \in Injection(1..Len(pool), Futures)
      BY <3>1 DEF Injection, IsInjective, IInv, PoolInv
    <3>3. Cardinality(1..Len(pool)) <= Cardinality(Futures)
      BY <3>2, FS_Injection, BindingsAssumption
    <3>4. \A n \in Nat : Cardinality(1..n) = n
      BY FS_Interval
    <3>5. Len(pool) \in 0..Cardinality(Futures)
      BY <3>1, <3>3, <3>4, FS_CardinalityType, BindingsAssumption
    <3> QED
      BY <3>1, <3>5
  <2> QED
    BY <2>1, <2>2, <2>3, <2>4 DEF TypeOK, IInv, FutureInv, CountInv
<1> QED
  BY <1>1, Invariance, PTL

\* A request built without indices has no hole, whatever calls raise between.
THEOREM CursorAlwaysFilled == Spec => []CursorFilled
<1>1. IInv => CursorFilled
  BY LenProperties DEF IInv, ArgsInv, CursorFilled
<1> QED
  BY <1>1, Invariance, PTL

\* No completion gives back an array of another submission, however the request
\* they came from is changed and submitted again meanwhile.
THEOREM AlwaysAttached == Spec => []InFlightAttached
<1>1. IInv => InFlightAttached
  BY DEF IInv, CountInv
<1> QED
  BY <1>1, Invariance, PTL

\* No function of a future runs, or will run, on a response that was released.
THEOREM NeverUsedAfterRelease == Spec => []NoUseAfterRelease
<1>1. IInv => NoUseAfterRelease
  BY DEF IInv, FutureInv, NoUseAfterRelease
<1> QED
  BY <1>1, Invariance, PTL

\* A future with its value has been answered and its arrays given back.
THEOREM AlwaysSynchronized == Spec => []Synchronized
<1>1. IInv => Synchronized
  BY DEF IInv, FutureInv, CountInv, Synchronized
<1> QED
  BY <1>1, Invariance, PTL


-----------------------------------------------------------------------------
(* Nothing is forgotten.                                                   *)

\* A thread asks for a value there is, or is to be.
AskedInv ==
  \A t \in Threads : getting[t] \in Futures => future[getting[t]] # "none"

\* What NotForgotten says of one future.
Remembered(f) ==
  /\ future[f] = "pending" => task[f] \in Running \cup {"ready"}
  /\ language[f] = "cpp" /\ (\E t \in Threads : getting[t] = f)
       => task[f] # "ready"
  /\ language[f] = "python" /\ task[f] = "ready"
       => \E i \in DOMAIN pool : pool[i] = f
  /\ task[f] = "ended" => response[f] = "released" /\ ~service[f]

ForgetInv == AskedInv /\ NotForgotten

\* Whoever asks keeps to what there is, when no future disappears.
LEMMA AskedFrame ==
  ASSUME AskedInv, UNCHANGED getting,
         \A f \in Futures : future'[f] = "none" => future[f] = "none"
  PROVE  AskedInv'
BY DEF AskedInv

\* A future that a step leaves alone is as it was, if the queue keeps it.
LEMMA RememberedFrame ==
  ASSUME NEW f \in Futures, Remembered(f),
         future'[f] = future[f], task'[f] = task[f],
         language'[f] = language[f], response'[f] = response[f],
         service'[f] = service[f],
         \A t \in Threads : getting'[t] = f => getting[t] = f,
         (\E i \in DOMAIN pool : pool[i] = f)
           => \E i \in DOMAIN pool' : pool'[i] = f
  PROVE  Remembered(f)'
BY DEF Remembered

\* A submission puts the function where the binding will find it; nobody asks
\* for the value yet.
LEMMA SubmitForget ==
  ASSUME IInv, ForgetInv, NEW t \in Threads, NEW f \in Futures,
         CppSubmit(t, f) \/ JavaSubmit(t, f) \/ PythonSubmit(t, f)
  PROVE  ForgetInv'
<1> USE DEF IInv, ForgetInv
<1>1. Submit(t, f)
  BY DEF CppSubmit, JavaSubmit, PythonSubmit
<1>2. /\ future[f] = "none" /\ UNCHANGED getting
      /\ future'[f] = "pending" /\ task'[f] = "ready"
      /\ \A g \in Futures \ {f} :
           future'[g] = future[g] /\ task'[g] = task[g] /\ response'[g] = response[g]
  BY <1>1 DEF Submit, FutureInv
<1>3. \A g \in Futures \ {f} :
        language'[g] = language[g] /\ service'[g] = service[g]
  BY DEF CppSubmit, JavaSubmit, PythonSubmit, executors, FutureInv
<1>4. AskedInv'
  BY <1>2, AskedFrame
<1>5. /\ \A i \in DOMAIN pool : i \in DOMAIN pool' /\ pool'[i] = pool[i]
      /\ language'[f] = "python" => \E i \in DOMAIN pool' : pool'[i] = f
  <2>1. pool \in Seq(Futures) /\ Len(pool) \in Nat /\ DOMAIN pool = 1..Len(pool)
    BY LenProperties DEF PoolInv
  <2>2. CASE PythonSubmit(t, f)
    <3>1. /\ pool' \in Seq(Futures) /\ Len(pool') = Len(pool) + 1
          /\ \A i \in 1..Len(pool) : pool'[i] = pool[i]
          /\ pool'[Len(pool) + 1] = f
      BY <2>1, <2>2, AppendProperties DEF PythonSubmit
    <3>2. DOMAIN pool' = 1..Len(pool')
      BY <3>1, LenProperties
    <3>3. Len(pool) + 1 \in DOMAIN pool'
      BY <2>1, <3>1, <3>2
    <3> QED
      BY <2>1, <3>1, <3>2, <3>3
  <2>3. CASE CppSubmit(t, f) \/ JavaSubmit(t, f)
    BY <2>3 DEF CppSubmit, JavaSubmit, executors, FutureInv
  <2> QED
    BY <2>2, <2>3
<1>6. Remembered(f)'
  <2>1. \A u \in Threads : getting'[u] # f
    BY <1>2 DEF AskedInv
  <2> QED
    BY <1>2, <1>5, <2>1 DEF Remembered
<1>7. \A g \in Futures \ {f} : Remembered(g)'
  BY <1>2, <1>3, <1>5, RememberedFrame DEF NotForgotten, Remembered
<1> QED
  BY <1>4, <1>6, <1>7 DEF NotForgotten, Remembered

\* Asking for the value of a C++ future begins its function; what is cancelled or
\* dropped has no value to come.
LEMMA AskForget ==
  ASSUME IInv, ForgetInv, NEW t \in Threads, NEW f \in Futures,
         Get(t, f) \/ Cancel(t, f) \/ Drop(t, f)
  PROVE  ForgetInv'
<1> USE DEF IInv, ForgetInv
<1>1. UNCHANGED <<language, executors, response>>
  BY DEF Get, Cancel, Drop, Abandoned
<1>2. \A g \in Futures \ {f} :
        /\ future'[g] = future[g] /\ task'[g] = task[g]
        /\ \A u \in Threads : getting'[u] = g => getting[u] = g
  BY DEF Get, Asked, Cancel, Drop, FutureInv
<1>3. \A g \in Futures \ {f} : Remembered(g)'
  BY <1>1, <1>2, RememberedFrame DEF executors, NotForgotten, Remembered
<1>4. Remembered(f) /\ AskedInv
  BY DEF NotForgotten, Remembered
<1>5. CASE Get(t, f)
  <2>1. AskedInv'
    BY <1>4, <1>5 DEF Get, AskedInv, FutureInv
  <2>2. Remembered(f)'
    BY <1>1, <1>4, <1>5 DEF Get, Asked, Remembered, executors, FutureInv, Running
  <2> QED
    BY <1>3, <2>1, <2>2 DEF NotForgotten, Remembered
<1>6. CASE Cancel(t, f)
  <2>1. AskedInv'
    BY <1>6, AskedFrame DEF Cancel, FutureInv
  <2>2. Remembered(f)'
    BY <1>1, <1>4, <1>6 DEF Cancel, Remembered, executors, FutureInv
  <2> QED
    BY <1>3, <2>1, <2>2 DEF NotForgotten, Remembered
<1>7. CASE Drop(t, f)
  <2>1. AskedInv'
    BY <1>7, AskedFrame DEF Drop, FutureInv
  <2>2. Remembered(f)'
    BY <1>1, <1>4, <1>7 DEF Drop, Remembered, executors, FutureInv
  <2> QED
    BY <1>3, <2>1, <2>2 DEF NotForgotten, Remembered
<1> QED
  BY <1>5, <1>6, <1>7

\* A function leaves its place to run, unless its future was cancelled; the
\* others stay in the queue.
LEMMA StartForget ==
  ASSUME IInv, ForgetInv, PythonStart \/ \E f \in Futures : JavaStart(f)
  PROVE  ForgetInv'
<1> USE DEF IInv, ForgetInv
<1>1. UNCHANGED <<language, response, future, service, getting>>
  BY DEF PythonStart, JavaStart, executors
<1>2. AskedInv'
  BY <1>1, AskedFrame
<1>3. PICK f \in Futures :
        /\ task[f] = "ready" /\ language[f] # "cpp" /\ task' = Begin(f)
        /\ \A g \in Futures \ {f} : (\E i \in DOMAIN pool : pool[i] = g)
             => \E i \in DOMAIN pool' : pool'[i] = g
  <2>1. ASSUME NEW f \in Futures, JavaStart(f)
        PROVE  /\ task[f] = "ready" /\ language[f] # "cpp" /\ task' = Begin(f)
               /\ UNCHANGED pool
    BY <2>1 DEF JavaStart, executors
  <2>2. CASE PythonStart
    <3>1. /\ pool \in Seq(Futures) /\ pool # <<>>
          /\ task' = Begin(Head(pool)) /\ pool' = Tail(pool)
      BY <2>2 DEF PythonStart, PoolInv
    <3>2. /\ Len(pool) \in Nat /\ 1 \in 1..Len(pool)
          /\ DOMAIN pool = 1..Len(pool)
          /\ Head(pool) = pool[1] /\ pool[1] \in Futures
      BY <3>1, EmptySeq, LenProperties, ElementOfSeq
    <3>3. /\ pool' \in Seq(Futures) /\ Len(pool') = Len(pool) - 1
          /\ \A i \in 1..Len(pool') : pool'[i] = pool[i + 1]
      BY <3>1, HeadTailProperties
    <3>4. DOMAIN pool' = 1..Len(pool')
      BY <3>3, LenProperties
    <3>5. ASSUME NEW g \in Futures \ {pool[1]},
                 NEW i \in DOMAIN pool, pool[i] = g
          PROVE  \E j \in DOMAIN pool' : pool'[j] = g
      <4>1. i \in 1..Len(pool) /\ i # 1
        BY <3>2, <3>5
      <4>2. i - 1 \in DOMAIN pool' /\ (i - 1) + 1 = i
        BY <3>2, <3>3, <3>4, <4>1
      <4> QED
        BY <3>3, <3>4, <3>5, <4>2
    <3>6. task[pool[1]] = "ready" /\ language[pool[1]] # "cpp"
      BY <3>2 DEF PoolInv
    <3> QED
      BY <3>1, <3>2, <3>5, <3>6
  <2> QED
    BY <2>1, <2>2
<1>4. /\ \A g \in Futures \ {f} : task'[g] = task[g]
      /\ task'[f] = IF future[f] = "pending" THEN "wait" ELSE "skipped"
  BY <1>3 DEF Begin, FutureInv
<1>5. Remembered(f)'
  BY <1>1, <1>4 DEF Remembered, Running
<1>6. \A g \in Futures \ {f} : Remembered(g)'
  BY <1>1, <1>3, <1>4, RememberedFrame DEF NotForgotten, Remembered
<1> QED
  BY <1>2, <1>5, <1>6 DEF NotForgotten, Remembered

\* The function of a future settles it on each way out, and releases the response
\* on each that ends it.
LEMMA FunctionForget ==
  ASSUME IInv, ForgetInv, NEW f \in Futures, Function(f)
  PROVE  ForgetInv'
<1> USE DEF IInv, ForgetInv
<1>1. /\ UNCHANGED <<language, pool, getting>> /\ task[f] \in Running
      /\ response[f] = "live" /\ future[f] # "none"
  BY DEF Function, Wait, Size, Text, Escape, executors, Running, FutureInv
<1>2. \/ \E result \in {"value", "error"} : Finish(f, result)
      \/ \E p \in Running : /\ task' = [task EXCEPT ![f] = p]
                           /\ UNCHANGED <<response, service, future>>
      \/ /\ task' = [task EXCEPT ![f] = "escaped"]
         /\ future' = Settle(f, "error")
         /\ UNCHANGED <<response, service>>
  BY DEF Function, Wait, Size, Text, Escape, executors, Running
<1>3. /\ \A g \in Futures \ {f} :
           /\ future'[g] = future[g] /\ task'[g] = task[g]
           /\ response'[g] = response[g] /\ service'[g] = service[g]
      /\ future'[f] # "none"
      /\ \/ task'[f] \in Running
         \/ task'[f] = "escaped" /\ future'[f] # "pending"
         \/ /\ task'[f] = "ended" /\ future'[f] # "pending"
            /\ response'[f] = "released" /\ ~service'[f]
  BY <1>1, <1>2 DEF Finish, Settle, Released, FutureInv
<1>4. AskedInv'
  BY <1>1, <1>3, AskedFrame
<1>5. Remembered(f)'
  BY <1>3 DEF Remembered, Running
<1>6. \A g \in Futures \ {f} : Remembered(g)'
  BY <1>1, <1>3, RememberedFrame DEF NotForgotten, Remembered
<1> QED
  BY <1>4, <1>5, <1>6 DEF NotForgotten, Remembered

\* No step forgets a future.
LEMMA ForgetNext ==
  ASSUME IInv, ForgetInv, [Next]_vars
  PROVE  ForgetInv'
<1> USE DEF IInv, ForgetInv
<1>1. ASSUME UNCHANGED <<language, future, task, pool, service, getting>>,
             \A f \in Futures : task[f] # "none" => response'[f] = response[f]
      PROVE  ForgetInv'
  BY <1>1 DEF AskedInv, NotForgotten
<1>2. CASE Build
  BY <1>1, <1>2 DEF Build, executors
<1>3. ASSUME NEW t \in Threads, NEW f \in Futures, SubmitFails(t, f)
      PROVE  ForgetInv'
  BY <1>1, <1>3 DEF SubmitFails, executors, FutureInv
<1>4. ASSUME NEW f \in Futures, NEW status \in {"ok", "error"}, Answer(f, status)
      PROVE  ForgetInv'
  BY <1>1, <1>4 DEF Answer, executors
<1>5. ASSUME NEW t \in Threads, GetReturns(t)
      PROVE  ForgetInv'
  <2>1. /\ UNCHANGED <<language, future, task, response, executors>>
        /\ getting' = [getting EXCEPT ![t] = NoFuture]
    BY <1>5 DEF GetReturns
  <2>2. \A u \in Threads : getting'[u] \in Futures => getting[u] = getting'[u]
    BY <2>1, BindingsAssumption DEF FutureInv
  <2>3. AskedInv'
    BY <2>1, <2>2 DEF AskedInv
  <2>4. \A g \in Futures : Remembered(g)'
    BY <2>1, <2>2, RememberedFrame DEF executors, NotForgotten, Remembered
  <2> QED
    BY <2>3, <2>4 DEF NotForgotten, Remembered
<1>6. CASE UNCHANGED vars
  BY <1>1, <1>6 DEF vars, executors
<1> QED
  BY <1>2, <1>3, <1>4, <1>5, <1>6, SubmitForget, AskForget, StartForget,
     FunctionForget DEF Next

\* No get waits for a function that nobody will run, and no function ends with
\* its response unreleased or its executor up, for any number of threads, futures
\* and pool threads, and whatever fails or is cancelled.
THEOREM NeverForgotten == Spec => []NotForgotten
<1>1. Init => ForgetInv
  BY BindingsAssumption DEF Init, ForgetInv, AskedInv, NotForgotten
<1>2. IInv /\ ForgetInv /\ [Next]_vars => ForgetInv'
  BY ForgetNext
<1>3. ForgetInv => NotForgotten
  BY DEF ForgetInv
<1> QED
  BY <1>1, <1>2, <1>3, Invariance, PTL DEF Spec

=============================================================================
