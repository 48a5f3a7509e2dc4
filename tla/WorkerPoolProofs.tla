-------------------------- MODULE WorkerPoolProofs --------------------------
(***************************************************************************)
(* Proofs about the pools of workers, for any number of tasks and workers  *)
(* and for all four pools: no task is lost or done twice, nobody sends on  *)
(* a closed channel, and the caller gets every answer before the end.      *)
(***************************************************************************)
EXTENDS WorkerPool, FiniteSetTheorems, TLAPS

(* TypeOK without the capacities. *)
Types ==
  /\ pool \in Pools /\ started \in Staff(pool)
  /\ unfed \subseteq Task /\ taskCh \subseteq Task
  /\ at \in [Worker -> WorkerPlaces]
  /\ held \in [Worker -> Task \cup {NoTask}]
  /\ results \subseteq Task /\ answered \subseteq Task
  /\ feeding \in BOOLEAN /\ closed \in BOOLEAN
  /\ caller \in {"reading", "done", "gone"}

(***************************************************************************)
(* A worker leaves only when there is nothing left to take, only workers   *)
(* that were started do anything, and the results are closed after them.   *)
(***************************************************************************)
Endings ==
  /\ ~feeding => unfed = {}
  /\ \A w \in Worker : at[w] = "exited" => ~feeding /\ taskCh = {}
  /\ \A w \in Worker \ started : at[w] = "receive"
  /\ closed => \A w \in started : at[w] = "exited"
  /\ caller = "done" /\ started # {} => answered = Task
  /\ started = {} => results = {} /\ answered = {}

IInv == Types /\ EachTaskOnce /\ Endings

LEMMA InitIInv == Init => IInv
  BY PoolAssumption
  DEF Init, IInv, Types, EachTaskOnce, Endings, Pools, Staff, WorkerPlaces, InHand, Busy

LEMMA NextTypes == IInv /\ [Next]_vars => Types'
<1> SUFFICES ASSUME IInv, [Next]_vars PROVE Types'
  OBVIOUS
<1> USE DEF IInv, Types, Staff, Pools, WorkerPlaces
<1>1. CASE Feeder
  BY <1>1 DEF Feeder, Feed, CloseTasks, workerVars, resultVars, callerVars
<1>2. CASE CloseResults
  BY <1>2 DEF CloseResults, feedVars, workerVars, callerVars
<1>3. CASE Read
  BY <1>3 DEF Read, ReadOne, ReadArray, StopReading, feedVars, workerVars, resultVars
<1>4. CASE Abandon
  BY <1>4 DEF Abandon, feedVars, workerVars, resultVars
<1>5. ASSUME NEW w \in Worker, Work(w) PROVE Types'
  <2>1. CASE Measure(w)
    BY <2>1 DEF Measure, feedVars, resultVars, callerVars
  <2>2. CASE Send(w)
    <3>1. held[w] \in Task
      BY <2>2 DEF Send, EachTaskOnce, InHand, Busy
    <3> QED BY <2>2, <3>1 DEF Send, feedVars, callerVars
  <2>3. CASE Exit(w)
    BY <2>3 DEF Exit, feedVars, resultVars, callerVars
  <2>4. CASE \E t \in Task : Receive(w, t)
    BY <2>4 DEF Receive, resultVars, callerVars
  <2> QED BY <1>5, <2>1, <2>2, <2>3, <2>4 DEF Work
<1>6. CASE UNCHANGED vars
  BY <1>6 DEF vars, feedVars, workerVars, resultVars, callerVars
<1> QED BY <1>1, <1>2, <1>3, <1>4, <1>5, <1>6 DEF Next

(* Where the tasks in hand are after a step that moves no worker. *)
LEMMA SameHands ==
  ASSUME UNCHANGED workerVars
  PROVE  InHand' = InHand /\ \A w \in Worker : (Busy(w) <=> Busy(w)') /\ held'[w] = held[w]
  BY DEF workerVars, InHand, Busy

LEMMA NextEachTaskOnce == IInv /\ [Next]_vars => EachTaskOnce'
<1> SUFFICES ASSUME IInv, [Next]_vars PROVE EachTaskOnce'
  OBVIOUS
<1> USE DEF IInv
<1>1. ASSUME NEW t \in Task, Feed(t) PROVE EachTaskOnce'
  BY <1>1, SameHands DEF Feed, EachTaskOnce, resultVars, callerVars
<1>2. CASE CloseTasks \/ CloseResults \/ Abandon \/ StopReading
  BY <1>2, SameHands
  DEF CloseTasks, CloseResults, Abandon, StopReading, EachTaskOnce, feedVars, resultVars, callerVars
<1>3. ASSUME NEW t \in Task, ReadOne(t) PROVE EachTaskOnce'
  BY <1>3, SameHands DEF ReadOne, EachTaskOnce, feedVars
<1>4. CASE ReadArray
  BY <1>4, SameHands DEF ReadArray, EachTaskOnce, feedVars
<1>5. ASSUME NEW w \in Worker, Measure(w) \/ Exit(w) PROVE EachTaskOnce'
  <2>1. \A v \in Worker : (Busy(v) <=> Busy(v)') /\ held'[v] = held[v]
    BY <1>5 DEF Measure, Exit, Busy, Types
  <2>2. InHand' = InHand
    BY <2>1 DEF InHand
  <2> QED
    BY <1>5, <2>1, <2>2 DEF Measure, Exit, EachTaskOnce, feedVars, resultVars, callerVars
<1>6. ASSUME NEW w \in Worker, NEW t \in Task, Receive(w, t) PROVE EachTaskOnce'
  <2>1. ~Busy(w) /\ Busy(w)' /\ held'[w] = t
    BY <1>6 DEF Receive, Busy, Types
  <2>2. \A v \in Worker \ {w} : (Busy(v) <=> Busy(v)') /\ held'[v] = held[v]
    BY <1>6 DEF Receive, Busy, Types
  <2>3. InHand' = InHand \cup {t}
    BY <2>1, <2>2 DEF InHand
  <2>4. t \notin InHand
    BY <1>6 DEF Receive, EachTaskOnce
  <2>5. \A v \in Worker : Busy(v) => held[v] # t
    BY <2>4 DEF InHand
  <2>6. \A u, v \in Worker : Busy(u)' /\ Busy(v)' /\ held'[u] = held'[v] => u = v
    BY <2>1, <2>2, <2>5 DEF EachTaskOnce
  <2> QED
    BY <1>6, <2>3, <2>6 DEF Receive, EachTaskOnce, resultVars, callerVars
<1>7. ASSUME NEW w \in Worker, Send(w) PROVE EachTaskOnce'
  <2>1. Busy(w) /\ ~Busy(w)'
    BY <1>7 DEF Send, Busy, Types
  <2>2. \A v \in Worker \ {w} : (Busy(v) <=> Busy(v)') /\ held'[v] = held[v]
    BY <1>7 DEF Send, Busy, Types
  <2>3. \A v \in Worker \ {w} : Busy(v) => held[v] # held[w]
    BY <2>1 DEF EachTaskOnce
  <2>4. InHand' = InHand \ {held[w]} /\ held[w] \in InHand
    BY <2>1, <2>2, <2>3 DEF InHand
  <2>5. \A u, v \in Worker : Busy(u)' /\ Busy(v)' /\ held'[u] = held'[v] => u = v
    BY <2>1, <2>2 DEF EachTaskOnce
  <2> QED
    BY <1>7, <2>4, <2>5 DEF Send, EachTaskOnce, feedVars, callerVars
<1>8. CASE UNCHANGED vars
  BY <1>8, SameHands DEF vars, EachTaskOnce, feedVars, resultVars, callerVars
<1> QED
  BY <1>1, <1>2, <1>3, <1>4, <1>5, <1>6, <1>7, <1>8 DEF Next, Feeder, Read, Work

(* When the caller stops reading, somebody was there and nothing is left. *)
LEMMA AllAnswered ==
  ASSUME IInv, closed, results = {}, started # {}
  PROVE  answered = Task
<1>1. PICK w \in started : at[w] = "exited"
  BY DEF IInv, Endings
<1>2. unfed = {} /\ taskCh = {}
  BY <1>1 DEF IInv, Endings, Types, Staff
<1>3. \A v \in Worker : ~Busy(v)
  BY DEF IInv, Endings, Busy
<1>4. InHand = {}
  BY <1>3 DEF InHand
<1> QED BY <1>2, <1>4 DEF IInv, EachTaskOnce

LEMMA NextEndings == IInv /\ [Next]_vars => Endings'
<1> SUFFICES ASSUME IInv, [Next]_vars PROVE Endings'
  OBVIOUS
<1> USE DEF IInv, Endings
<1>1. CASE Feeder
  BY <1>1 DEF Feeder, Feed, CloseTasks, workerVars, resultVars, callerVars
<1>2. CASE CloseResults
  BY <1>2 DEF CloseResults, feedVars, workerVars, callerVars
<1>3. ASSUME NEW t \in Task, ReadOne(t) PROVE Endings'
  BY <1>3 DEF ReadOne, feedVars, workerVars
<1>4. CASE ReadArray
  BY <1>4 DEF ReadArray, feedVars, workerVars
<1>5. CASE StopReading
  BY <1>5, AllAnswered DEF StopReading, feedVars, workerVars, resultVars
<1>6. CASE Abandon
  BY <1>6 DEF Abandon, feedVars, workerVars, resultVars
<1>7. ASSUME NEW w \in Worker, Work(w) PROVE Endings'
  BY <1>7
  DEF Work, Measure, Send, Exit, Receive, Types, feedVars, resultVars, callerVars
<1>8. CASE UNCHANGED vars
  BY <1>8 DEF vars, feedVars, workerVars, resultVars, callerVars
<1> QED BY <1>1, <1>2, <1>3, <1>4, <1>5, <1>6, <1>7, <1>8 DEF Next, Read

(* The inductive invariant: types, the partition of the tasks, the endings. *)
THEOREM Inductive == Spec => []IInv
<1>1. IInv /\ [Next]_vars => IInv'
  BY NextTypes, NextEachTaskOnce, NextEndings DEF IInv
<1> QED BY InitIInv, <1>1, PTL DEF Spec

(* No task is lost and none is done twice, in any pool. *)
THEOREM TasksOnce == Spec => []EachTaskOnce
<1>1. IInv => EachTaskOnce
  BY DEF IInv
<1> QED BY Inductive, <1>1, PTL

(* Nobody sends on a closed channel. *)
THEOREM NoPanic == Spec => []NoSendOnClosed
<1>1. IInv => NoSendOnClosed
  BY DEF IInv, Endings, NoSendOnClosed, Busy
<1> QED BY Inductive, <1>1, PTL

(***************************************************************************)
(* Every pool keeps the promise of ResultStream: its steps are answers or  *)
(* the end, and the end comes only after every answer.                     *)
(***************************************************************************)
THEOREM StreamRefinement == Spec => RefinesStream
<1>1. Init => Stream!Init
  BY DEF Init, Stream!Init
<1>2. IInv /\ [Next]_vars => [Stream!Next]_(Stream!vars)
  <2> SUFFICES ASSUME IInv, [Next]_vars PROVE [Stream!Next]_(Stream!vars)
    OBVIOUS
  <2> USE DEF Stream!Next, Stream!vars, feedVars, workerVars, resultVars, callerVars
  <2>1. CASE Feeder \/ CloseResults \/ Abandon
    BY <2>1 DEF Feeder, Feed, CloseTasks, CloseResults, Abandon
  <2>2. ASSUME NEW t \in Task, ReadOne(t) PROVE Stream!Answer
    <3>1. t \notin answered
      BY <2>2 DEF ReadOne, IInv, EachTaskOnce
    <3>2. started # {}
      BY <2>2 DEF ReadOne, IInv, Endings
    <3> QED BY <2>2, <3>1, <3>2 DEF ReadOne, Stream!Answer
  <2>3. CASE ReadArray
    <3>1. started # {}
      BY <2>3 DEF ReadArray, IInv, Endings
    <3>2. results \in SUBSET (Task \ answered) /\ results # {}
      BY <2>3 DEF ReadArray, IInv, EachTaskOnce, Types
    <3> QED BY <2>3, <3>1, <3>2 DEF ReadArray, Stream!Answer, Arrays
  <2>4. CASE StopReading
    BY <2>4, AllAnswered DEF StopReading, Stream!End
  <2>5. ASSUME NEW w \in Worker, Work(w) PROVE UNCHANGED Stream!vars
    BY <2>5 DEF Work, Measure, Send, Exit, Receive
  <2>6. CASE UNCHANGED vars
    BY <2>6 DEF vars
  <2> QED BY <2>1, <2>2, <2>3, <2>4, <2>5, <2>6 DEF Next, Read
<1> QED BY Inductive, <1>1, <1>2, PTL DEF Spec, RefinesStream, Stream!Spec

(* How much is in the channels. *)
Bounds == Cardinality(taskCh) <= TaskCap /\ Cardinality(results) <= ResultCap

LEMMA Sizes ==
  ASSUME Types
  PROVE  /\ IsFiniteSet(taskCh) /\ IsFiniteSet(results)
         /\ TaskCap \in Nat /\ ResultCap \in Nat
         /\ \A S \in SUBSET Task : Cardinality(S) \in Nat /\ Cardinality(S) <= Cardinality(Task)
<1>1. IsFiniteSet(Task) /\ IsFiniteSet(Worker)
  BY PoolAssumption
<1>2. IsFiniteSet(taskCh) /\ IsFiniteSet(results) /\ IsFiniteSet(started)
  BY <1>1, FS_Subset DEF Types, Staff
<1>3. Concurrency \in Nat /\ Cardinality(Task) \in Nat
  BY <1>1, <1>2, FS_CardinalityType DEF Concurrency
<1>4. \A S \in SUBSET Task : Cardinality(S) \in Nat /\ Cardinality(S) <= Cardinality(Task)
  BY <1>1, FS_Subset, FS_CardinalityType
<1> QED BY <1>2, <1>3, <1>4 DEF TaskCap, ResultCap

LEMMA OneMore ==
  ASSUME NEW S, IsFiniteSet(S), NEW x
  PROVE  Cardinality(S \cup {x}) <= Cardinality(S) + 1
<1>1. Cardinality(S) \in Nat
  BY FS_CardinalityType
<1>2. Cardinality(S \cup {x}) = IF x \in S THEN Cardinality(S) ELSE Cardinality(S) + 1
  BY FS_AddElement
<1> QED BY <1>1, <1>2

LEMMA NextBounds == IInv /\ Bounds /\ [Next]_vars => Bounds'
<1> SUFFICES ASSUME IInv, Bounds, [Next]_vars PROVE Bounds'
  OBVIOUS
<1> USE DEF Bounds
<1>1. TaskCap' = TaskCap /\ ResultCap' = ResultCap
  <2>1. pool' = pool /\ started' = started
    BY DEF Next, vars, Feeder, Feed, CloseTasks, CloseResults, Read, ReadOne, ReadArray,
           StopReading, Abandon, Work, Measure, Send, Exit, Receive
  <2> QED BY <2>1 DEF TaskCap, ResultCap, Concurrency
<1>2. ASSUME NEW t \in Task, Feed(t) PROVE Bounds'
  <2>1. Cardinality(taskCh \cup {t}) <= Cardinality(taskCh) + 1
    BY Sizes, OneMore DEF IInv
  <2>2. Cardinality(taskCh) \in Nat /\ Cardinality(taskCh \cup {t}) \in Nat
    BY Sizes DEF IInv, Types
  <2> QED BY <1>1, <1>2, <2>1, <2>2, Sizes DEF Feed, IInv, resultVars
<1>3. ASSUME NEW w \in Worker, NEW t \in Task, Receive(w, t) PROVE Bounds'
  <2>1. Cardinality(taskCh \ {t}) <= Cardinality(taskCh)
    BY Sizes, FS_Subset DEF IInv
  <2>2. Cardinality(taskCh) \in Nat /\ Cardinality(taskCh \ {t}) \in Nat
    BY Sizes DEF IInv, Types
  <2> QED BY <1>1, <1>3, <2>1, <2>2, Sizes DEF Receive, IInv, resultVars
<1>4. ASSUME NEW w \in Worker, Send(w) PROVE Bounds'
  <2>1. held[w] \in Task
    BY <1>4 DEF Send, IInv, EachTaskOnce, InHand, Busy
  <2>2. Cardinality(results \cup {held[w]}) <= Cardinality(results) + 1
    BY Sizes, OneMore DEF IInv
  <2>3. Cardinality(results) \in Nat /\ Cardinality(results \cup {held[w]}) \in Nat
    BY <2>1, Sizes DEF IInv, Types
  <2> QED BY <1>1, <1>4, <2>2, <2>3, Sizes DEF Send, IInv, feedVars
<1>5. ASSUME NEW t \in Task, ReadOne(t) PROVE Bounds'
  <2>1. Cardinality(results \ {t}) <= Cardinality(results)
    BY Sizes, FS_Subset DEF IInv
  <2>2. Cardinality(results) \in Nat /\ Cardinality(results \ {t}) \in Nat
    BY Sizes DEF IInv, Types
  <2> QED BY <1>1, <1>5, <2>1, <2>2, Sizes DEF ReadOne, IInv, feedVars
<1>6. CASE ReadArray
  <2>1. Cardinality({}) = 0
    BY FS_EmptySet
  <2> QED BY <1>1, <1>6, <2>1, Sizes DEF ReadArray, IInv, feedVars
<1>7. CASE UNCHANGED <<taskCh, results>>
  BY <1>1, <1>7
<1>8. (\/ CloseTasks \/ CloseResults \/ StopReading \/ Abandon \/ UNCHANGED vars
       \/ \E w \in Worker : Measure(w) \/ Exit(w)) => UNCHANGED <<taskCh, results>>
  BY DEF CloseTasks, CloseResults, StopReading, Abandon, Measure, Exit, vars, feedVars, resultVars
<1> QED
  BY <1>2, <1>3, <1>4, <1>5, <1>6, <1>7, <1>8 DEF Next, Feeder, Read, Work

(* Type correctness; the channels stay within their capacity. *)
THEOREM TypeCorrect == Spec => []TypeOK
<1>1. Init => Bounds
  <2> SUFFICES ASSUME Init PROVE Bounds
    OBVIOUS
  <2>1. Cardinality({}) = 0
    BY FS_EmptySet
  <2> QED BY <2>1, InitIInv, Sizes DEF Init, Bounds, IInv
<1>2. IInv /\ Bounds => TypeOK
  BY DEF IInv, Types, Bounds, TypeOK
<1> QED BY Inductive, NextBounds, <1>1, <1>2, PTL DEF Spec
=============================================================================
