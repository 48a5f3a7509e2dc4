----------------------------- MODULE WorkerPool -----------------------------
(***************************************************************************)
(* The pools of worker goroutines between a list of tasks and its results. *)
(*                                                                         *)
(*   engine     BenchmarkEngine.Run   (src/engine/benchmark.go)            *)
(*   prefilter  PreFilterTCP          (src/engine/prefilter.go)            *)
(*   verify     VerifyTasksCountryCodes (src/geo/batch_verify.go)          *)
(*   risk       FilterByRisk          (src/engine/risk.go)                 *)
(*                                                                         *)
(* All four start their workers, feed a bounded channel and close it, and  *)
(* wait for the workers.  They differ in who feeds, in where the results   *)
(* go, in when they are read, and in what they do without workers.         *)
(*                                                                         *)
(* A channel is the set of what is in it: several workers receive from it, *)
(* so its order shows nowhere.  A worker that panics ends the process and  *)
(* has no step.                                                            *)
(***************************************************************************)
EXTENDS Naturals, FiniteSets

CONSTANTS
  Task,    \* the tasks of one call
  Worker,  \* the most goroutines a pool may start
  NoTask   \* "this worker has no task"

ASSUME PoolAssumption ==
  IsFiniteSet(Task) /\ IsFiniteSet(Worker) /\ NoTask \notin Task

VARIABLES
  pool,       \* which of the four pools this is
  started,    \* its worker goroutines
  unfed,      \* the tasks that have not been sent to the workers
  taskCh,     \* the tasks in the channel
  feeding,    \* the channel is not closed
  at,         \* where each worker is in its loop
  held,       \* the task of each worker
  results,    \* the results in resultCh, or written to the array
  closed,     \* resultCh is closed; for the arrays, wg.Wait has returned
  caller,     \* the caller reads, has read everything, or has panicked
  answered    \* the tasks whose results the caller has

feedVars   == <<unfed, taskCh, feeding>>
workerVars == <<at, held>>
resultVars == <<results, closed>>
callerVars == <<caller, answered>>
vars == <<pool, started, feedVars, workerVars, resultVars, callerVars>>

Pools  == {"engine", "prefilter", "verify", "risk"}
Arrays == {"prefilter", "verify"}

(* The engine takes its concurrency as it is; the others replace a zero. *)
Staff(p) == IF p = "engine" THEN SUBSET Worker ELSE SUBSET Worker \ {{}}

Init ==
  /\ pool \in Pools
  /\ started \in Staff(pool)
  /\ unfed = Task /\ taskCh = {} /\ feeding = TRUE
  /\ at = [w \in Worker |-> "receive"]
  /\ held = [w \in Worker |-> NoTask]
  /\ results = {} /\ closed = FALSE
  /\ caller = "reading" /\ answered = {}

Concurrency == Cardinality(started)

TaskCap == IF pool = "engine" THEN 2 * Concurrency ELSE Concurrency

(* A slot for every task, save for the engine. *)
ResultCapMutant == IF pool \in Arrays THEN Cardinality(Task) ELSE Concurrency
ResultCap == IF pool = "engine" THEN 2 * Concurrency ELSE Cardinality(Task)

-----------------------------------------------------------------------------
(* The feeder: a goroutine of the engine, the caller itself of the others *)

Feed(t) ==
  /\ t \in unfed
  /\ Cardinality(taskCh) < TaskCap
  /\ unfed' = unfed \ {t}
  /\ taskCh' = taskCh \cup {t}
  /\ UNCHANGED <<pool, started, feeding, workerVars, resultVars, callerVars>>

CloseTasks ==
  /\ feeding /\ unfed = {}
  /\ feeding' = FALSE
  /\ UNCHANGED <<pool, started, unfed, taskCh, workerVars, resultVars, callerVars>>

-----------------------------------------------------------------------------
(* Worker w: for task := range taskCh *)

ReceiveMutant(w, t) ==
  /\ w \in started /\ at[w] = "receive" /\ t \in taskCh
  /\ at' = [at EXCEPT ![w] = "measure"]
  /\ held' = [held EXCEPT ![w] = t]
  /\ UNCHANGED <<pool, started, feedVars, resultVars, callerVars>>

Receive(w, t) ==
  /\ w \in started /\ at[w] = "receive" /\ t \in taskCh
  /\ taskCh' = taskCh \ {t}
  /\ at' = [at EXCEPT ![w] = "measure"]
  /\ held' = [held EXCEPT ![w] = t]
  /\ UNCHANGED <<pool, started, unfed, feeding, resultVars, callerVars>>

(***************************************************************************)
(* The handshakes, requests, downloads and their bounded retries, each     *)
(* with a timeout.  Well or badly, they end in a result.                   *)
(***************************************************************************)
Measure(w) ==
  /\ at[w] = "measure"
  /\ at' = [at EXCEPT ![w] = "send"]
  /\ UNCHANGED <<pool, started, feedVars, held, resultVars, callerVars>>

Send(w) ==
  /\ at[w] = "send"
  /\ Cardinality(results) < ResultCap
  /\ results' = results \cup {held[w]}
  /\ at' = [at EXCEPT ![w] = "receive"]
  /\ held' = [held EXCEPT ![w] = NoTask]
  /\ UNCHANGED <<pool, started, feedVars, closed, callerVars>>

(* The channel is closed and empty: wg.Done. *)
ExitMutant(w) ==
  /\ w \in started /\ at[w] = "receive" /\ taskCh = {}
  /\ at' = [at EXCEPT ![w] = "exited"]
  /\ UNCHANGED <<pool, started, feedVars, held, resultVars, callerVars>>

Exit(w) ==
  /\ w \in started /\ at[w] = "receive" /\ taskCh = {} /\ ~feeding
  /\ at' = [at EXCEPT ![w] = "exited"]
  /\ UNCHANGED <<pool, started, feedVars, held, resultVars, callerVars>>

-----------------------------------------------------------------------------
(* The end of the results, and the caller *)

(* wg.Wait; in all pools but the engine it starts when the feeding is over. *)
CloseResultsMutant ==
  /\ ~closed /\ unfed = {} /\ taskCh = {}
  /\ pool # "engine" => ~feeding
  /\ closed' = TRUE
  /\ UNCHANGED <<pool, started, feedVars, workerVars, results, callerVars>>

CloseResults ==
  /\ ~closed /\ \A w \in started : at[w] = "exited"
  /\ pool # "engine" => ~feeding
  /\ closed' = TRUE
  /\ UNCHANGED <<pool, started, feedVars, workerVars, results, callerVars>>

(* The caller of FilterByRisk comes to its results after the feeding. *)
ReadOne(t) ==
  /\ caller = "reading" /\ pool \notin Arrays
  /\ pool = "risk" => ~feeding
  /\ t \in results
  /\ results' = results \ {t}
  /\ answered' = answered \cup {t}
  /\ UNCHANGED <<pool, started, feedVars, workerVars, closed, caller>>

ReadArray ==
  /\ caller = "reading" /\ pool \in Arrays /\ closed /\ results # {}
  /\ results' = {}
  /\ answered' = answered \cup results
  /\ UNCHANGED <<pool, started, feedVars, workerVars, closed, caller>>

(* The channel is closed and empty, or the array has been read. *)
StopReading ==
  /\ caller = "reading" /\ closed /\ results = {}
  /\ caller' = "done"
  /\ UNCHANGED <<pool, started, feedVars, workerVars, resultVars, answered>>

(* A panic of the job that reads from an engine, which goes on alone. *)
Abandon ==
  /\ caller = "reading" /\ pool = "engine"
  /\ caller' = "gone"
  /\ UNCHANGED <<pool, started, feedVars, workerVars, resultVars, answered>>

-----------------------------------------------------------------------------
Feeder == CloseTasks \/ \E t \in Task : Feed(t)

Work(w) == Measure(w) \/ Send(w) \/ Exit(w) \/ \E t \in Task : Receive(w, t)

Read == ReadArray \/ StopReading \/ \E t \in Task : ReadOne(t)

Next ==
  \/ Feeder \/ CloseResults \/ Read \/ Abandon
  \/ \E w \in Worker : Work(w)

Spec == Init /\ [][Next]_vars

(***************************************************************************)
(* Every goroutine that can go on goes on, and so does the caller, which   *)
(* reads to the end: also a cancelled job drains its engine.               *)
(***************************************************************************)
Fairness ==
  /\ WF_vars(Feeder) /\ WF_vars(CloseResults) /\ WF_vars(Read)
  /\ \A w \in Worker : WF_vars(Work(w))

LiveSpec == Spec /\ Fairness

-----------------------------------------------------------------------------
(* Properties *)

WorkerPlaces == {"receive", "measure", "send", "exited"}

(* Every variable keeps to its values, and the channels to their capacity. *)
TypeOK ==
  /\ pool \in Pools /\ started \in Staff(pool)
  /\ unfed \subseteq Task /\ taskCh \subseteq Task
  /\ at \in [Worker -> WorkerPlaces]
  /\ held \in [Worker -> Task \cup {NoTask}]
  /\ results \subseteq Task /\ answered \subseteq Task
  /\ feeding \in BOOLEAN /\ closed \in BOOLEAN
  /\ caller \in {"reading", "done", "gone"}
  /\ Cardinality(taskCh) <= TaskCap /\ Cardinality(results) <= ResultCap

Busy(w) == at[w] \in {"measure", "send"}
InHand == {held[w] : w \in {v \in Worker : Busy(v)}}

(***************************************************************************)
(* No task is lost and none is done twice: at every moment each task is in *)
(* exactly one place on its way from the list to the caller, and no two    *)
(* workers have the same one.                                              *)
(***************************************************************************)
EachTaskOnce ==
  /\ Task = unfed \cup taskCh \cup InHand \cup results \cup answered
  /\ unfed \cap taskCh = {} /\ InHand \cap results = {}
  /\ (unfed \cup taskCh) \cap (InHand \cup results \cup answered) = {}
  /\ answered \cap (InHand \cup results) = {}
  /\ \A v, w \in Worker : Busy(v) /\ Busy(w) /\ held[v] = held[w] => v = w

(***************************************************************************)
(* Nobody sends on a closed channel, which would end the process: the      *)
(* results are closed after the last worker, the tasks after the last one. *)
(***************************************************************************)
NoSendOnClosed ==
  /\ closed => \A w \in Worker : ~Busy(w)
  /\ ~feeding => unfed = {}

(***************************************************************************)
(* The caller gets to the end, and no goroutine stays behind, blocked on a *)
(* channel for ever, unless the caller panicked or nobody takes the tasks. *)
(***************************************************************************)
NobodyStaysBehind ==
  <>(\/ started = {} \/ caller = "gone"
     \/ caller = "done" /\ ~feeding /\ \A w \in started : at[w] = "exited")

Stream == INSTANCE ResultStream WITH staffed <- started # {}, ended <- caller = "done"

(* One answer for every task, and then the end: what ResultStream says. *)
RefinesStream == Stream!Spec
=============================================================================
