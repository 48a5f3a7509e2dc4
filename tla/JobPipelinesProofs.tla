------------------------- MODULE JobPipelinesProofs -------------------------
(***************************************************************************)
(* Safety of the jobs of the dashboard, for any number of jobs, handlers   *)
(* and tasks and any batch size.  First the life cycle on its own.  Then   *)
(* the pipelines are work in the sense of module Jobs: each of their steps *)
(* is a step of the life cycle or leaves it alone, so what is proved of    *)
(* the life cycle holds of the whole.  Last what the pipelines keep: no    *)
(* result is lost or left behind, and a push that is cancelled in time     *)
(* publishes nothing.                                                      *)
(***************************************************************************)
EXTENDS JobPipelines, TLAPS

-----------------------------------------------------------------------------
(* The life cycle on its own *)

(***************************************************************************)
(* The strengthening.  SlotFree is the heart of it: between the check for  *)
(* a running job and the creation of the next one, the handler that holds  *)
(* triggerMu may rely on its check, because nothing but create ever sets   *)
(* the status "running".                                                   *)
(***************************************************************************)
MutexHeld ==
  \A h \in Handler : at[h] \in {"locked", "free"} => triggerMu = h

SlotFree ==
  \A h \in Handler : at[h] = "free" => \A j \in Job : status[j] # "running"

NewIsNew == \A j \in Job : worker[j] = "none" <=> status[j] = "none"

RunningIsTracked == \A j \in Job : status[j] = "running" => j \in tracked

TargetExists ==
  \A h \in Handler : at[h] \in {"picked", "closed"} =>
    /\ target[h] \in Job
    /\ status[target[h]] # "none"

MarkedIsClosed ==
  /\ \A h \in Handler : at[h] = "closed" => target[h] \in cancelled
  /\ \A j \in Job : status[j] = "canceled" => j \in cancelled

WorkingStatus ==
  \A j \in Job : worker[j] = "work" => status[j] \in {"running", "canceled"}

LeftIsOver ==
  \A j \in Job : worker[j] \in {"notify", "recover", "done"} =>
    /\ j \in finishedAt
    /\ status[j] \in Terminal
    /\ verdict[j] \in Terminal

IInv ==
  /\ TypeOK
  /\ MutexHeld
  /\ SlotFree
  /\ NewIsNew
  /\ RunningIsTracked
  /\ TargetExists
  /\ MarkedIsClosed
  /\ WorkingStatus
  /\ LeftIsOver
  /\ AtMostOneRunning
  /\ SingleTracked

-----------------------------------------------------------------------------
(* Every variable keeps to the values the code gives it: the initial state. *)
LEMMA InitIInv == Init => IInv
BY NullAssumption
   DEF Init, IInv, TypeOK, MutexHeld, SlotFree, NewIsNew, RunningIsTracked,
       TargetExists, MarkedIsClosed, WorkingStatus, LeftIsOver,
       AtMostOneRunning, SingleTracked

(* startJob's steps before create only move triggerMu and the handler. *)
LEMMA TriggerIInv ==
  ASSUME IInv, NEW h \in Handler,
         TriggerLock(h) \/ TriggerRefuse(h) \/ TriggerCheck(h)
  PROVE  IInv'
<1> USE DEF IInv, TypeOK, jobVars, workerVars
<1>1. CASE TriggerLock(h)
  <2>1. \A g \in Handler : at[g] \notin {"locked", "free"}
    BY <1>1, NullAssumption DEF TriggerLock, MutexHeld
  <2>. QED
    BY <1>1, <2>1
       DEF TriggerLock, MutexHeld, SlotFree, NewIsNew, RunningIsTracked,
           TargetExists, MarkedIsClosed, WorkingStatus, LeftIsOver,
           AtMostOneRunning, SingleTracked
<1>2. CASE TriggerRefuse(h)
  BY <1>2 DEF TriggerRefuse, MutexHeld, SlotFree, NewIsNew, RunningIsTracked,
              TargetExists, MarkedIsClosed, WorkingStatus, LeftIsOver,
              AtMostOneRunning, SingleTracked
<1>3. CASE TriggerCheck(h)
  <2>1. \A j \in Job : status[j] # "running"
    BY <1>3 DEF TriggerCheck, Current, RunningIsTracked
  <2>. QED
    BY <1>3, <2>1
       DEF TriggerCheck, MutexHeld, SlotFree, NewIsNew, RunningIsTracked,
           TargetExists, MarkedIsClosed, WorkingStatus, LeftIsOver,
           AtMostOneRunning, SingleTracked
<1>. QED  BY <1>1, <1>2, <1>3

(* create runs when no job is running, so the new job is the only one. *)
LEMMA CreateIInv ==
  ASSUME IInv, NEW h \in Handler, NEW j \in Job, TriggerCreate(h, j)
  PROVE  IInv'
<1> USE DEF IInv, TypeOK, TriggerCreate
<1>1. Kept = {}
  BY DEF SlotFree, Kept
<1>2. \A g \in Handler : g # h => at[g] \notin {"locked", "free"}
  BY DEF MutexHeld
<1>3. worker[j] = "none"
  BY DEF NewIsNew
<1>4. TypeOK'
  BY <1>1 DEF Phases
<1>5. MutexHeld' /\ SlotFree'
  BY <1>2 DEF MutexHeld, SlotFree
<1>6. NewIsNew' /\ RunningIsTracked' /\ WorkingStatus' /\ LeftIsOver'
  BY <1>1, <1>3 DEF SlotFree, NewIsNew, RunningIsTracked, WorkingStatus, LeftIsOver
<1>7. TargetExists' /\ MarkedIsClosed'
  BY DEF TargetExists, MarkedIsClosed
<1>8. AtMostOneRunning' /\ SingleTracked'
  BY <1>1 DEF SlotFree, AtMostOneRunning, SingleTracked
<1>. QED  BY <1>4, <1>5, <1>6, <1>7, <1>8

(* A cancel request never makes a job running and never forgets one. *)
LEMMA CancelIInv ==
  ASSUME IInv, NEW h \in Handler,
         (\E j \in Job : CancelPick(h, j)) \/ CancelClose(h) \/ CancelMark(h)
  PROVE  IInv'
<1> USE DEF IInv, TypeOK, jobVars, workerVars
<1>1. ASSUME NEW j \in Job, CancelPick(h, j) PROVE IInv'
  BY <1>1 DEF CancelPick, Current, MutexHeld, SlotFree, NewIsNew,
              RunningIsTracked, TargetExists, MarkedIsClosed, WorkingStatus,
              LeftIsOver, AtMostOneRunning, SingleTracked
<1>2. CASE CancelClose(h)
  BY <1>2 DEF CancelClose, MutexHeld, SlotFree, NewIsNew, RunningIsTracked,
              TargetExists, MarkedIsClosed, WorkingStatus, LeftIsOver,
              AtMostOneRunning, SingleTracked
<1>3. CASE CancelMark(h)
  <2> DEFINE t == target[h]
  <2>1. t \in Job /\ status[t] # "none" /\ t \in cancelled
    BY <1>3 DEF CancelMark, TargetExists, MarkedIsClosed
  <2>2. status' = [status EXCEPT ![t] = "canceled"]
    BY <1>3 DEF CancelMark
  <2>3. TypeOK' /\ MutexHeld' /\ SlotFree' /\ NewIsNew' /\ RunningIsTracked'
    BY <1>3, <2>1, <2>2
       DEF CancelMark, Terminal, MutexHeld, SlotFree, NewIsNew, RunningIsTracked
  <2>4. TargetExists' /\ MarkedIsClosed'
    BY <1>3, <2>1, <2>2 DEF CancelMark, TargetExists, MarkedIsClosed
  <2>5. WorkingStatus' /\ LeftIsOver' /\ AtMostOneRunning' /\ SingleTracked'
    BY <1>3, <2>1, <2>2
       DEF CancelMark, WorkingStatus, LeftIsOver, Terminal, AtMostOneRunning,
           SingleTracked
  <2>. QED  BY <2>3, <2>4, <2>5
<1>. QED  BY <1>1, <1>2, <1>3

(* The worker of a job leaves: its status never becomes running again. *)
LEMMA WorkerIInv ==
  ASSUME IInv, NEW j \in Job, Exit(j) \/ Panic(j) \/ Deferred(j)
  PROVE  IInv'
<1> USE DEF IInv, TypeOK, jobVars, workerVars, handlerVars
<1>1. CASE ObserveCancel(j)
  BY <1>1 DEF ObserveCancel, Phases, MutexHeld, SlotFree, NewIsNew,
              RunningIsTracked, TargetExists, MarkedIsClosed, WorkingStatus,
              LeftIsOver, AtMostOneRunning, SingleTracked
<1>2. CASE ReturnFailed(j)
  BY <1>2 DEF ReturnFailed, Phases, Terminal, MutexHeld, SlotFree, NewIsNew,
              RunningIsTracked, TargetExists, MarkedIsClosed, WorkingStatus,
              LeftIsOver, AtMostOneRunning, SingleTracked
<1>3. CASE ReturnOK(j)
  BY <1>3 DEF ReturnOK, Phases, MutexHeld, SlotFree, NewIsNew,
              RunningIsTracked, TargetExists, MarkedIsClosed, WorkingStatus,
              LeftIsOver, AtMostOneRunning, SingleTracked
<1>4. CASE Panic(j)
  BY <1>4 DEF Panic, Phases, MutexHeld, SlotFree, NewIsNew,
              RunningIsTracked, TargetExists, MarkedIsClosed, WorkingStatus,
              LeftIsOver, AtMostOneRunning, SingleTracked
<1>5. CASE Cleanup(j)
  BY <1>5 DEF Cleanup, Phases, MutexHeld, SlotFree, NewIsNew,
              RunningIsTracked, TargetExists, MarkedIsClosed, WorkingStatus,
              LeftIsOver, AtMostOneRunning, SingleTracked
<1>6. CASE Finish(j)
  <2> DEFINE s == FinishedStatus(status[j])
  <2>1. s \in Terminal /\ (s = "canceled" <=> status[j] = "canceled")
    BY <1>6 DEF Finish, FinishedStatus, Terminal, NewIsNew
  <2>2. /\ status' = [status EXCEPT ![j] = s]
        /\ verdict' = [verdict EXCEPT ![j] = s]
    BY <1>6 DEF Finish
  <2>3. TypeOK' /\ MutexHeld' /\ SlotFree' /\ NewIsNew' /\ RunningIsTracked'
    BY <1>6, <2>1, <2>2
       DEF Finish, Phases, Terminal, MutexHeld, SlotFree, NewIsNew, RunningIsTracked
  <2>4. TargetExists' /\ MarkedIsClosed'
    BY <1>6, <2>1, <2>2 DEF Finish, Terminal, TargetExists, MarkedIsClosed
  <2>5. WorkingStatus' /\ LeftIsOver' /\ AtMostOneRunning' /\ SingleTracked'
    BY <1>6, <2>1, <2>2
       DEF Finish, Terminal, WorkingStatus, LeftIsOver, AtMostOneRunning, SingleTracked
  <2>. QED  BY <2>3, <2>4, <2>5
<1>7. CASE Notify(j)
  <2>1. NoticeOf(verdict[j]) \in Notice
    BY DEF NoticeOf, Notice
  <2>. QED
    BY <1>7, <2>1
       DEF Notify, Leave, Phases, MutexHeld, SlotFree, NewIsNew, RunningIsTracked,
           TargetExists, MarkedIsClosed, WorkingStatus, LeftIsOver,
           AtMostOneRunning, SingleTracked
<1>8. CASE Recover(j)
  BY <1>8 DEF Recover, Phases, Terminal, MutexHeld, SlotFree, NewIsNew,
              RunningIsTracked, TargetExists, MarkedIsClosed, WorkingStatus,
              LeftIsOver, AtMostOneRunning, SingleTracked
<1>. QED
  BY <1>1, <1>2, <1>3, <1>4, <1>5, <1>6, <1>7, <1>8 DEF Exit, Deferred

LEMMA StutterIInv == ASSUME IInv, UNCHANGED vars PROVE IInv'
BY DEF IInv, vars, jobVars, workerVars, handlerVars, TypeOK, MutexHeld,
       SlotFree, NewIsNew, RunningIsTracked, TargetExists, MarkedIsClosed,
       WorkingStatus, LeftIsOver, AtMostOneRunning, SingleTracked

LEMMA NextIInv == IInv /\ [Next]_vars => IInv'
<1> SUFFICES ASSUME IInv, [Next]_vars PROVE IInv'
  OBVIOUS
<1>1. ASSUME NEW h \in Handler, Request(h) \/ HandlerStep(h) PROVE IInv'
  BY <1>1, TriggerIInv, CreateIInv, CancelIInv DEF Request, HandlerStep
<1>2. ASSUME NEW j \in Job, Exit(j) \/ Panic(j) \/ Deferred(j) PROVE IInv'
  BY <1>2, WorkerIInv
<1>3. CASE UNCHANGED vars
  BY <1>3, StutterIInv
<1>. QED  BY <1>1, <1>2, <1>3 DEF Next

THEOREM Inductive == Spec => []IInv
BY InitIInv, NextIInv, PTL DEF Spec

-----------------------------------------------------------------------------
(* Every variable keeps to the values the code gives it. *)
THEOREM TypeCorrect == Spec => []TypeOK
<1>1. IInv => TypeOK
  BY DEF IInv
<1>. QED  BY <1>1, Inductive, PTL

(***************************************************************************)
(* However many users start and cancel jobs at once, at most one job has   *)
(* the status "running".                                                   *)
(***************************************************************************)
THEOREM Exclusion == Spec => []AtMostOneRunning
<1>1. IInv => AtMostOneRunning
  BY DEF IInv
<1>. QED  BY <1>1, Inductive, PTL

(* The tracker never holds two jobs. *)
THEOREM Tracking == Spec => []SingleTracked
<1>1. IInv => SingleTracked
  BY DEF IInv
<1>. QED  BY <1>1, Inductive, PTL

(* Two workers at work at once: one of them has been cancelled. *)
THEOREM Overlap == Spec => []OverlapOnlyAfterCancel
<1>1. IInv => OverlapOnlyAfterCancel
  BY DEF IInv, OverlapOnlyAfterCancel, WorkingStatus, MarkedIsClosed, AtMostOneRunning
<1>. QED  BY <1>1, Inductive, PTL

(* A job whose worker has gone is over. *)
THEOREM Ending == Spec => []GoneIsOver
<1>1. IInv => GoneIsOver
  BY DEF IInv, GoneIsOver, LeftIsOver
<1>. QED  BY <1>1, Inductive, PTL

(* A cancelled job stays cancelled, unless its worker then fails. *)
THEOREM Cancellation == Spec => CancelSticks
<1> DEFINE Sticks == \A j \in Job : status[j] = "canceled" => status'[j] \in {"canceled", "failed"}
<1>1. IInv /\ [Next]_vars => [Sticks]_vars
  <2> SUFFICES ASSUME IInv, Next, NEW j \in Job, status[j] = "canceled"
               PROVE  status'[j] \in {"canceled", "failed"}
    OBVIOUS
  <2> USE DEF IInv, TypeOK, jobVars
  <2>1. ASSUME NEW h \in Handler, Request(h) \/ HandlerStep(h)
        PROVE  status'[j] \in {"canceled", "failed"}
    BY <2>1 DEF Request, HandlerStep, TriggerLock, TriggerRefuse, TriggerCheck,
                TriggerCreate, CancelPick, CancelClose, CancelMark
  <2>2. ASSUME NEW i \in Job, Exit(i) \/ Panic(i) \/ Deferred(i)
        PROVE  status'[j] \in {"canceled", "failed"}
    BY <2>2 DEF Exit, Deferred, ObserveCancel, ReturnFailed, ReturnOK, Panic,
                Cleanup, Finish, FinishedStatus, Notify, Recover
  <2>. QED  BY <2>1, <2>2 DEF Next
<1>. QED  BY <1>1, Inductive, PTL DEF Spec, CancelSticks

-----------------------------------------------------------------------------
(***************************************************************************)
(* What a notification says.  The status finishJob saw stands until a late *)
(* cancel or the recover of a panicked worker overwrites it, and the       *)
(* notification is about the status finishJob saw.                         *)
(***************************************************************************)
VerdictStands ==
  \A j \in Job : worker[j] \in {"notify", "recover", "done"} =>
    \/ status[j] = verdict[j]
    \/ status[j] = "canceled"
    \/ status[j] = "failed" /\ j \in panicking

NoticeIsVerdict ==
  \A j \in Job : notified[j] = "success" =>
    worker[j] \in {"recover", "done"} /\ verdict[j] = "completed"

RecoverIsPanic == \A j \in Job : worker[j] = "recover" => j \in panicking

Notices == VerdictStands /\ NoticeIsVerdict /\ RecoverIsPanic

LEMMA HandlerNotices ==
  ASSUME IInv, Notices, NEW h \in Handler, Request(h) \/ HandlerStep(h)
  PROVE  Notices'
<1> USE DEF IInv, TypeOK, Notices, VerdictStands, NoticeIsVerdict, RecoverIsPanic,
            jobVars, workerVars
<1>1. CASE CancelMark(h)
  BY <1>1 DEF CancelMark, TargetExists
<1>2. ASSUME NEW j \in Job, TriggerCreate(h, j) PROVE Notices'
  BY <1>2 DEF TriggerCreate, NewIsNew
<1>. QED
  BY <1>1, <1>2 DEF Request, HandlerStep, TriggerLock, TriggerRefuse, TriggerCheck,
                    CancelPick, CancelClose

LEMMA WorkerNotices ==
  ASSUME IInv, Notices, NEW j \in Job, Exit(j) \/ Panic(j) \/ Deferred(j)
  PROVE  Notices'
<1> USE DEF IInv, TypeOK, Notices, VerdictStands, NoticeIsVerdict, RecoverIsPanic,
            jobVars, handlerVars
<1>1. CASE Exit(j) \/ Panic(j) \/ Cleanup(j)
  BY <1>1 DEF Exit, ObserveCancel, ReturnFailed, ReturnOK, Panic, Cleanup
<1>2. CASE Finish(j)
  BY <1>2 DEF Finish
<1>3. CASE Notify(j)
  <2>1. NoticeOf(verdict[j]) = "success" => verdict[j] = "completed"
    BY DEF NoticeOf
  <2>. QED  BY <1>3, <2>1 DEF Notify, Leave
<1>4. CASE Recover(j)
  BY <1>4 DEF Recover
<1>. QED  BY <1>1, <1>2, <1>3, <1>4 DEF Deferred

(***************************************************************************)
(* A notification that says "success" is about a job that ended as         *)
(* "completed", but for a cancel that comes after finishJob and a panic.   *)
(***************************************************************************)
THEOREM Honesty == Spec => []SuccessIsTrue
<1>1. Init => Notices
  BY DEF Init, Notices, VerdictStands, NoticeIsVerdict, RecoverIsPanic
<1>2. IInv /\ Notices /\ [Next]_vars => Notices'
  <2> SUFFICES ASSUME IInv, Notices, [Next]_vars PROVE Notices'
    OBVIOUS
  <2>1. CASE Next
    BY <2>1, HandlerNotices, WorkerNotices DEF Next
  <2>2. CASE UNCHANGED vars
    BY <2>2 DEF vars, jobVars, workerVars, Notices, VerdictStands,
                NoticeIsVerdict, RecoverIsPanic
  <2>. QED  BY <2>1, <2>2
<1>3. IInv /\ Notices => SuccessIsTrue
  BY DEF IInv, MarkedIsClosed, Notices, VerdictStands, NoticeIsVerdict, SuccessIsTrue
<1>. QED  BY <1>1, <1>2, <1>3, Inductive, PTL DEF Spec

-----------------------------------------------------------------------------
(* The pipelines *)

(* A step within the work of a job leaves the life cycle alone. *)
LEMMA WithinWork ==
  ASSUME NEW j \in Job, NEW s, Go(j, s)
  PROVE  UNCHANGED vars
BY DEF Go, vars, jobVars, workerVars, handlerVars

(* A return from the work is one of the exits of Jobs. *)
LEMMA ExitIsExit ==
  ASSUME NEW j \in Job, Fail(j) \/ Done(j) \/ Stop(j)
  PROVE  Next
BY DEF Fail, Done, Stop, Out, Next, Exit

(* Each step of a pipeline ends the work or stays within it. *)
LEMMA WorkStep ==
  ASSUME NEW j \in Job, Work(j)
  PROVE  Fail(j) \/ Done(j) \/ Stop(j) \/ \E s : Go(j, s)
<1>1. CASE Benchmark(j)
  <2>1. CASE Fetch(j) \/ PurgePorts(j) \/ SelectTasks(j) \/ FilterCountry(j)
    BY <2>1 DEF Fetch, PurgePorts, SelectTasks, FilterCountry, Proceed
  <2>2. CASE Receive(j) \/ RetryReceive(j)
    BY <2>2 DEF Receive, RetryReceive, Keep
  <2>3. CASE FullFlush(j) \/ StreamEnds(j) \/ LastFlush(j) \/ RetryFlush(j) \/ Tail(j)
    BY <2>3 DEF FullFlush, StreamEnds, LastFlush, RetryFlush, Tail, GoFrom
  <2>. QED
    BY <1>1, <2>1, <2>2, <2>3 DEF Benchmark
<1>2. CASE Push(j)
  <2>1. CASE Read(j) \/ PrefilterPush(j) \/ RetestReceive(j) \/ RetestEnds(j) \/ RetryRetest(j)
    BY <2>1 DEF Read, PrefilterPush, RetestReceive, RetestEnds, RetryRetest, Proceed, GoFrom
  <2>2. CASE Score(j) \/ Upsert(j) \/ Export(j) \/ Cloudflare(j) \/ Github(j)
    BY <2>2 DEF Score, Upsert, Export, Cloudflare, Github, Proceed, GoFrom
  <2>. QED
    BY <1>2, <2>1, <2>2 DEF Push
<1>3. CASE Both(j)
  BY <1>3 DEF Both, NoticeCancel, Drain, Drained, RetryGate, RetryEnds
<1>. QED
  BY <1>1, <1>2, <1>3 DEF Work

(* What the handlers and the deferred calls do is what they do in Jobs. *)
LEMMA StepRefines == [PipeNext]_allVars => [Next]_vars
<1> SUFFICES ASSUME [PipeNext]_allVars PROVE Next \/ UNCHANGED vars
  OBVIOUS
<1>1. ASSUME NEW h \in Handler, Ask(h) PROVE Next
  BY <1>1 DEF Ask, Next
<1>2. ASSUME NEW h \in Handler, Handle(h) PROVE Next
  <2>1. HandlerStep(h)
    BY <1>2 DEF Handle, Create, HandlerStep
  <2>. QED
    BY <2>1 DEF Next
<1>3. ASSUME NEW j \in Job, Work(j) PROVE Next \/ UNCHANGED vars
  BY <1>3, WorkStep, ExitIsExit, WithinWork
<1>4. ASSUME NEW j \in Job, Panics(j) \/ Defers(j) PROVE Next
  BY <1>4 DEF Panics, Defers, Next
<1>5. CASE UNCHANGED allVars
  BY <1>5 DEF allVars, vars, jobVars, workerVars, handlerVars
<1>. QED
  BY <1>1, <1>2, <1>3, <1>4, <1>5 DEF PipeNext

(***************************************************************************)
(* The safety part of RefinesJobs: runBenchmark and runPush follow the     *)
(* life cycle of a job, whatever the configuration and the network do.     *)
(***************************************************************************)
THEOREM Refinement == PipeSpec => Spec
<1>1. PipeInit => Init
  BY DEF PipeInit
<1>. QED
  BY <1>1, StepRefines, PTL DEF PipeSpec, Spec

(* So the invariant of the life cycle holds with the pipelines in place. *)
LEMMA LifeInductive == PipeSpec => []IInv
BY Inductive, Refinement, PTL

(***************************************************************************)
(* AtMostOneRunning of Jobs, with the pipelines in place: no step of       *)
(* runBenchmark or runPush can make a second job run.                      *)
(***************************************************************************)
THEOREM PipelineExclusion == PipeSpec => []AtMostOneRunning
<1>1. IInv => AtMostOneRunning
  BY DEF IInv
<1>. QED
  BY <1>1, LifeInductive, PTL

-----------------------------------------------------------------------------
(***************************************************************************)
(* The strengthening for the pipelines: which steps belong to which kind   *)
(* of job, and where the stream is known to be empty.  It rests on the     *)
(* invariant of the life cycle, which says that a job that is created is   *)
(* new.                                                                    *)
(***************************************************************************)
EarlySteps == {"fetch", "ports", "select", "country", "read", "prefilter"}
DrySteps   == {"lastFlush", "retryGate", "tail", "score", "upsert", "export",
               "cloudflare", "github"}

PipeTypes ==
  /\ kind \in [Job -> Kinds \cup {"none"}]
  /\ step \in [Job -> BenchSteps \cup PushSteps \cup {"out"}]
  /\ total \in [Job -> Nat] /\ left \in [Job -> Nat] /\ failed \in [Job -> Nat]
  /\ buffer \in [Job -> Nat] /\ kept \in [Job -> Nat]
  /\ stored \in [Job -> Nat] /\ lost \in [Job -> Nat]
  /\ published \in [Job -> SUBSET Targets]

Placed(j) ==
  IF worker[j] = "work"
    THEN \/ kind[j] = "benchmark" /\ step[j] \in BenchSteps
         \/ kind[j] = "push" /\ step[j] \in PushSteps
    ELSE step[j] = "out" /\ (worker[j] = "none" => kind[j] = "none")

Untouched(j) ==
  worker[j] = "none" \/ step[j] \in EarlySteps
    => left[j] = 0 /\ buffer[j] = 0 /\ kept[j] = 0 /\ stored[j] = 0 /\ lost[j] = 0

Dry(j) == step[j] \in DrySteps => left[j] = 0

Clean(j) ==
  worker[j] \notin {"none", "work"} /\ j \notin panicking
    => left[j] = 0 /\ (kind[j] = "benchmark" => buffer[j] = 0)

Accounted(j) == kind[j] = "benchmark" => kept[j] = stored[j] + lost[j] + buffer[j]

Bounded(j) ==
  kind[j] = "benchmark" =>
    /\ buffer[j] <= BatchSize
    /\ step[j] \in {"stream", "drain", "lastFlush", "retry"} => buffer[j] < BatchSize
    /\ step[j] \in {"retryGate", "tail"} => buffer[j] = 0

JobInv(j) ==
  Placed(j) /\ Untouched(j) /\ Dry(j) /\ Clean(j) /\ Accounted(j) /\ Bounded(j)

PInv == PipeTypes /\ \A j \in Job : JobInv(j)

(* A step of job j leaves the other jobs as they are. *)
OthersKept(j) ==
  \A i \in Job \ {j} :
    /\ worker'[i] = worker[i] /\ (i \in panicking' <=> i \in panicking)
    /\ kind'[i] = kind[i] /\ step'[i] = step[i]
    /\ left'[i] = left[i] /\ buffer'[i] = buffer[i] /\ kept'[i] = kept[i]
    /\ stored'[i] = stored[i] /\ lost'[i] = lost[i]

LEMMA OneJob ==
  ASSUME PInv, NEW j \in Job, PipeTypes', OthersKept(j), JobInv(j)'
  PROVE  PInv'
<1>1. ASSUME NEW i \in Job \ {j} PROVE JobInv(i)'
  BY <1>1 DEF PInv, OthersKept, JobInv, Placed, Untouched, Dry, Clean, Accounted, Bounded
<1>. QED
  BY <1>1 DEF PInv

LEMMA NobodyMoves ==
  ASSUME PInv, UNCHANGED <<worker, panicking, pipeVars>>
  PROVE  PInv'
BY DEF PInv, PipeTypes, JobInv, Placed, Untouched, Dry, Clean, Accounted, Bounded,
       pipeVars, countVars

LEMMA InitPInv == PipeInit => PInv
BY DEF PipeInit, Init, Zero, PInv, PipeTypes, JobInv, Placed, Untouched, Dry, Clean,
       Accounted, Bounded, EarlySteps, DrySteps

(* What the life cycle says of the variables the pipelines depend on. *)
LEMMA LifeTypes ==
  ASSUME IInv
  PROVE  /\ worker \in [Job -> {"none", "work", "cleanup", "finish", "notify", "recover", "done"}]
         /\ \A j \in Job : worker[j] = "none" <=> status[j] = "none"
BY DEF IInv, TypeOK, NewIsNew, Phases

(* The one way a return changes the life cycle. *)
LEMMA ReturnShape ==
  ASSUME IInv, PInv, NEW j \in Job, Fail(j) \/ Done(j) \/ Stop(j)
  PROVE  /\ worker[j] = "work"
         /\ worker' = [worker EXCEPT ![j] = "cleanup"]
         /\ step' = [step EXCEPT ![j] = "out"]
         /\ UNCHANGED <<kind, panicking, cancelled>>
BY DEF Fail, Done, Stop, Out, ReturnFailed, ReturnOK, ObserveCancel, jobVars

(***************************************************************************)
(* A worker may return when the stream is empty and its buffer written.    *)
(***************************************************************************)
LEMMA Returns ==
  ASSUME IInv, PInv, NEW j \in Job, Fail(j) \/ Done(j) \/ Stop(j),
         PipeTypes', left'[j] = 0, kind[j] = "benchmark" => buffer'[j] = 0,
         kind[j] = "benchmark" => kept'[j] = stored'[j] + lost'[j] + buffer'[j],
         \A i \in Job \ {j} : /\ left'[i] = left[i] /\ buffer'[i] = buffer[i]
                              /\ kept'[i] = kept[i] /\ stored'[i] = stored[i]
                              /\ lost'[i] = lost[i]
  PROVE  PInv'
<1> USE LifeTypes, ReturnShape, BatchAssumption
<1>1. OthersKept(j)
  BY DEF OthersKept, PInv, PipeTypes
<1>2. worker'[j] = "cleanup" /\ step'[j] = "out" /\ kind'[j] = kind[j]
  BY DEF PInv, PipeTypes
<1>3. JobInv(j)'
  BY <1>2 DEF JobInv, Placed, Untouched, Dry, Clean, Accounted, Bounded,
              EarlySteps, DrySteps, PipeTypes
<1>. QED
  BY <1>1, <1>3, OneJob

(***************************************************************************)
(* A worker may go on to step t of its pipeline when the conditions of t   *)
(* hold of its counts.                                                     *)
(***************************************************************************)
LEMMA Moves ==
  ASSUME IInv, PInv, NEW j \in Job, NEW t, Go(j, t), worker[j] = "work",
         PipeTypes',
         \/ kind[j] = "benchmark" /\ t \in BenchSteps
         \/ kind[j] = "push" /\ t \in PushSteps,
         t \in DrySteps => left'[j] = 0,
         t \in EarlySteps => /\ left'[j] = 0 /\ buffer'[j] = 0 /\ kept'[j] = 0
                             /\ stored'[j] = 0 /\ lost'[j] = 0,
         kind[j] = "benchmark" =>
           /\ kept'[j] = stored'[j] + lost'[j] + buffer'[j]
           /\ buffer'[j] <= BatchSize
           /\ t \in {"stream", "drain", "lastFlush", "retry"} => buffer'[j] < BatchSize
           /\ t \in {"retryGate", "tail"} => buffer'[j] = 0,
         \A i \in Job \ {j} : /\ left'[i] = left[i] /\ buffer'[i] = buffer[i]
                              /\ kept'[i] = kept[i] /\ stored'[i] = stored[i]
                              /\ lost'[i] = lost[i]
  PROVE  PInv'
<1>1. OthersKept(j)
  BY DEF OthersKept, PInv, PipeTypes, Go, vars, jobVars, workerVars, handlerVars
<1>2. worker'[j] = "work" /\ step'[j] = t /\ kind'[j] = kind[j]
  BY DEF PInv, PipeTypes, Go, vars, jobVars, workerVars, handlerVars
<1>3. JobInv(j)'
  BY <1>2 DEF JobInv, Placed, Untouched, Dry, Clean, Accounted, Bounded
<1>. QED
  BY <1>1, <1>3, OneJob

(* A handler touches a pipeline only by creating it, for a new job. *)
LEMMA HandlerPInv ==
  ASSUME IInv, PInv, NEW h \in Handler, Ask(h) \/ Handle(h)
  PROVE  PInv'
<1>1. ASSUME NEW j \in Job, Create(h, j) PROVE PInv'
  <2>1. worker[j] = "none"
    BY <1>1, LifeTypes DEF Create, TriggerCreate
  <2>2. /\ worker' = [worker EXCEPT ![j] = "work"]
        /\ panicking' = panicking
        /\ UNCHANGED <<countVars, published>>
    BY <1>1 DEF Create, TriggerCreate
  <2>3. PICK k \in Kinds : /\ kind' = [kind EXCEPT ![j] = k]
                           /\ step' = [step EXCEPT ![j] = FirstStep(k)]
    BY <1>1 DEF Create
  <2>4. \/ k = "benchmark" /\ FirstStep(k) = "fetch"
        \/ k = "push" /\ FirstStep(k) = "read"
    BY DEF Kinds, FirstStep
  <2>5. PipeTypes'
    BY <2>2, <2>3, <2>4 DEF PInv, PipeTypes, countVars, Kinds, BenchSteps, PushSteps,
                            BeforePushing, BeforeScoring
  <2>6. OthersKept(j)
    BY <2>2, <2>3, LifeTypes DEF OthersKept, PInv, PipeTypes, countVars
  <2>7. /\ worker'[j] = "work" /\ kind'[j] = k /\ step'[j] = FirstStep(k)
        /\ left'[j] = 0 /\ buffer'[j] = 0 /\ kept'[j] = 0 /\ stored'[j] = 0 /\ lost'[j] = 0
    BY <2>1, <2>2, <2>3, LifeTypes
       DEF PInv, PipeTypes, JobInv, Untouched, countVars
  <2>8. JobInv(j)'
    BY <2>4, <2>7, BatchAssumption
       DEF JobInv, Placed, Untouched, Dry, Clean, Accounted, Bounded,
           BenchSteps, PushSteps, BeforePushing, BeforeScoring, DrySteps
  <2>. QED
    BY <2>5, <2>6, <2>8, OneJob
<1>2. CASE UNCHANGED <<worker, panicking, pipeVars>>
  BY <1>2, NobodyMoves
<1>. QED
  BY <1>1, <1>2
     DEF Ask, Handle, Request, TriggerLock, TriggerRefuse,
         TriggerCheck, CancelPick, CancelClose, CancelMark,
         jobVars, workerVars

(* A worker that has left its work leaves its counts alone. *)
LEMMA LeavePInv ==
  ASSUME IInv, PInv, NEW j \in Job, Panics(j) \/ Defers(j)
  PROVE  PInv'
<1>1. /\ worker[j] # "none"
      /\ worker'[j] \notin {"none", "work"}
      /\ \A i \in Job \ {j} : worker'[i] = worker[i] /\ (i \in panicking' <=> i \in panicking)
      /\ kind' = kind /\ step' = [step EXCEPT ![j] = "out"]
      /\ UNCHANGED <<countVars, published>>
      /\ worker[j] = "work" => j \in panicking'
      /\ j \in panicking => j \in panicking'
  <2>1. CASE Panics(j)
    BY <2>1, LifeTypes DEF Panics, Panic
  <2>2. CASE Defers(j)
    <3>1. worker[j] \notin {"none", "work"}
      BY <2>2 DEF Defers, Deferred, Cleanup, Finish, Notify, Recover
    <3>2. step[j] = "out"
      BY <3>1 DEF PInv, JobInv, Placed
    <3>. QED
      BY <2>2, <3>1, <3>2, LifeTypes
         DEF Defers, pipeVars, Deferred, Cleanup, Finish, Notify, Leave,
             Recover, PInv, PipeTypes
  <2>. QED
    BY <2>1, <2>2
<1>2. PipeTypes' /\ OthersKept(j)
  BY <1>1 DEF PInv, PipeTypes, OthersKept, countVars
<1>3. JobInv(j)'
  BY <1>1 DEF PInv, PipeTypes, JobInv, Placed, Untouched, Dry, Clean, Accounted,
              Bounded, EarlySteps, DrySteps, countVars
<1>. QED
  BY <1>2, <1>3, OneJob

(* Where a worker is, by the step it is at. *)
LEMMA Here ==
  ASSUME PInv, NEW j \in Job, NEW s, At(j, s)
  PROVE  /\ worker[j] = "work" /\ step[j] = s
         /\ \/ kind[j] = "benchmark" /\ s \in BenchSteps
            \/ kind[j] = "push" /\ s \in PushSteps
         /\ s \in DrySteps => left[j] = 0
         /\ s \in EarlySteps => /\ left[j] = 0 /\ buffer[j] = 0 /\ kept[j] = 0
                                /\ stored[j] = 0 /\ lost[j] = 0
         /\ kind[j] = "benchmark" =>
              /\ kept[j] = stored[j] + lost[j] + buffer[j]
              /\ buffer[j] <= BatchSize
              /\ s \in {"stream", "drain", "lastFlush", "retry"} => buffer[j] < BatchSize
              /\ s \in {"retryGate", "tail"} => buffer[j] = 0
BY DEF At, PInv, JobInv, Placed, Untouched, Dry, Accounted, Bounded

(* A return, or a check that lets the worker go on, before the engine. *)
LEMMA EarlyPInv ==
  ASSUME IInv, PInv, NEW j \in Job,
         Fetch(j) \/ PurgePorts(j) \/ SelectTasks(j) \/ FilterCountry(j)
         \/ Read(j) \/ PrefilterPush(j)
  PROVE  PInv'
<1> USE DEF EarlySteps, DrySteps, BenchSteps, PushSteps, BeforePushing, BeforeScoring
<1>1. PICK s \in EarlySteps :
        /\ At(j, s)
        /\ published' = published
        /\ \/ (Fail(j) \/ Done(j) \/ Stop(j)) /\ UNCHANGED countVars
           \/ \E t \in EarlySteps :
                /\ Go(j, t) /\ UNCHANGED countVars
                /\ (s = "fetch" /\ t = "ports") \/ (s = "ports" /\ t = "select")
                   \/ (s = "select" /\ t = "country") \/ (s = "read" /\ t = "prefilter")
           \/ \E n \in 1..MaxTasks :
                /\ StartEngine(j, n)
                /\ (s = "country" /\ Go(j, "stream")) \/ (s = "prefilter" /\ Go(j, "retest"))
  BY DEF Fetch, PurgePorts, SelectTasks, FilterCountry, Read, PrefilterPush, Proceed
<1>2. CASE (Fail(j) \/ Done(j) \/ Stop(j)) /\ UNCHANGED countVars
  <2>1. PipeTypes'
    BY <1>1, <1>2, ReturnShape DEF PInv, PipeTypes, countVars
  <2>. QED
    BY <1>1, <1>2, <2>1, Here, Returns DEF countVars
<1>3. ASSUME NEW t \in EarlySteps, Go(j, t), UNCHANGED countVars,
             (s = "fetch" /\ t = "ports") \/ (s = "ports" /\ t = "select")
             \/ (s = "select" /\ t = "country") \/ (s = "read" /\ t = "prefilter")
      PROVE  PInv'
  <2>1. PipeTypes'
    BY <1>1, <1>3 DEF PInv, PipeTypes, countVars, Go
  <2>2. \/ kind[j] = "benchmark" /\ t \in BenchSteps
        \/ kind[j] = "push" /\ t \in PushSteps
    BY <1>1, <1>3, Here
  <2>. QED
    BY <1>1, <1>3, <2>1, <2>2, Here, Moves DEF countVars
<1>4. ASSUME NEW n \in 1..MaxTasks, StartEngine(j, n),
             (s = "country" /\ Go(j, "stream")) \/ (s = "prefilter" /\ Go(j, "retest"))
      PROVE  PInv'
  <2>1. n \in Nat
    BY BatchAssumption
  <2>2. PICK t \in {"stream", "retest"} :
          /\ Go(j, t)
          /\ \/ kind[j] = "benchmark" /\ t \in BenchSteps
             \/ kind[j] = "push" /\ t \in PushSteps
    BY <1>1, <1>4, Here
  <2>3. PipeTypes'
    BY <1>1, <1>4, <2>1, <2>2 DEF PInv, PipeTypes, StartEngine, Go
  <2>4. UNCHANGED <<buffer, kept, stored, lost>>
        /\ \A i \in Job \ {j} : left'[i] = left[i]
    BY <1>4 DEF StartEngine, PInv, PipeTypes
  <2>. QED
    BY <1>1, <2>2, <2>3, <2>4, Here, Moves, BatchAssumption
<1>. QED
  BY <1>1, <1>2, <1>3, <1>4

(* What flush does to the counts of job j: the buffer is accounted for. *)
LEMMA FlushShape ==
  ASSUME PInv, NEW j \in Job, Flush(j)
  PROVE  /\ UNCHANGED <<total, left, failed, kept, published>>
         /\ buffer' \in [Job -> Nat] /\ buffer'[j] = 0
         /\ stored' \in [Job -> Nat] /\ lost' \in [Job -> Nat]
         /\ stored'[j] + lost'[j] = stored[j] + lost[j] + buffer[j]
         /\ \A i \in Job \ {j} : /\ buffer'[i] = buffer[i] /\ stored'[i] = stored[i]
                                 /\ lost'[i] = lost[i]
BY DEF Flush, PInv, PipeTypes

(* A result leaves the stream. *)
LEMMA TakeShape ==
  ASSUME PInv, NEW j \in Job, Take(j)
  PROVE  /\ left' \in [Job -> Nat]
         /\ \A i \in Job \ {j} : left'[i] = left[i]
BY DEF Take, PInv, PipeTypes

(* The steps that flush and go on with a worker whose buffer is empty. *)
LEMMA FlushPInv ==
  ASSUME IInv, PInv, NEW j \in Job,
         FullFlush(j) \/ LastFlush(j) \/ RetryFlush(j)
  PROVE  PInv'
<1> USE DEF EarlySteps, DrySteps, BenchSteps, PushSteps, BeforePushing, BeforeScoring
<1>1. PICK s \in {"flush", "lastFlush", "retryFlush"}, t \in {"stream", "retryGate", "retry"} :
        /\ At(j, s) /\ Go(j, t) /\ Flush(j)
        /\ s = "lastFlush" <=> t = "retryGate"
  BY DEF FullFlush, LastFlush, RetryFlush, GoFrom
<1>2. kind[j] = "benchmark" /\ left[j] \in Nat /\ (t = "retryGate" => left[j] = 0)
  BY <1>1, Here DEF PInv, PipeTypes
<1>3. kept[j] = stored'[j] + lost'[j]
  BY <1>1, <1>2, Here, FlushShape DEF PInv, PipeTypes
<1>4. PipeTypes'
  BY <1>1, FlushShape DEF PInv, PipeTypes, Go
<1>5. kept'[j] = stored'[j] + lost'[j] + buffer'[j] /\ buffer'[j] = 0
  BY <1>1, <1>3, <1>4, FlushShape DEF PipeTypes
<1>. QED
  BY <1>1, <1>2, <1>4, <1>5, Here, FlushShape, Moves, BatchAssumption

(* A result is kept or not: the buffer grows by at most one. *)
LEMMA ReceivePInv ==
  ASSUME IInv, PInv, NEW j \in Job, Receive(j) \/ RetryReceive(j)
  PROVE  PInv'
<1> USE DEF EarlySteps, DrySteps, BenchSteps, PushSteps, BeforePushing, BeforeScoring
<1>1. PICK s \in {"stream", "retry"}, t \in {"stream", "retry", "flush", "retryFlush"} :
        /\ At(j, s) /\ Go(j, t) /\ Take(j) /\ kind[j] = "benchmark"
        /\ failed' \in {failed, [failed EXCEPT ![j] = @ + 1]}
        /\ UNCHANGED <<total, stored, lost, published>>
        /\ \/ UNCHANGED <<buffer, kept>> /\ t = s
           \/ /\ buffer' = [buffer EXCEPT ![j] = @ + 1]
              /\ kept' = [kept EXCEPT ![j] = @ + 1]
              /\ t \in {"stream", "retry"} => t = s /\ ~(buffer[j] + 1 >= BatchSize)
  <2>1. CASE Receive(j)
    BY <2>1, Here DEF Receive, Keep, At
  <2>2. CASE RetryReceive(j)
    BY <2>2, Here DEF RetryReceive, Keep, At
  <2>. QED
    BY <2>1, <2>2
<1>2. PipeTypes'
  BY <1>1, TakeShape DEF PInv, PipeTypes, Go
<1>3. /\ buffer[j] \in Nat /\ kept[j] \in Nat /\ stored[j] \in Nat /\ lost[j] \in Nat
      /\ buffer'[j] \in Nat
      /\ kept[j] = stored[j] + lost[j] + buffer[j] /\ buffer[j] < BatchSize
  BY <1>1, <1>2, Here DEF PInv, PipeTypes
<1>4. /\ kept'[j] = stored'[j] + lost'[j] + buffer'[j]
      /\ buffer'[j] <= BatchSize
      /\ t \in {"stream", "retry"} => buffer'[j] < BatchSize
  BY <1>1, <1>3, BatchAssumption DEF PInv, PipeTypes
<1>5. \A i \in Job \ {j} : buffer'[i] = buffer[i] /\ kept'[i] = kept[i]
  BY <1>1 DEF PInv, PipeTypes
<1>. QED
  BY <1>1, <1>2, <1>4, <1>5, Here, TakeShape, Moves

(* A push keeps nothing: only its stream and its place matter. *)
LEMMA PushPInv ==
  ASSUME IInv, PInv, NEW j \in Job,
         RetestReceive(j) \/ RetestEnds(j) \/ RetryRetest(j) \/ Score(j)
         \/ Upsert(j) \/ Export(j) \/ Cloudflare(j) \/ Github(j)
  PROVE  PInv'
<1> USE DEF EarlySteps, DrySteps, BenchSteps, PushSteps, BeforePushing, BeforeScoring
<1>1. CASE RetestReceive(j) \/ RetryRetest(j)
  <2>1. PICK s \in {"retest", "retry"} :
          /\ At(j, s) /\ Go(j, s) /\ Take(j) /\ kind[j] = "push"
          /\ failed' \in {failed, [failed EXCEPT ![j] = @ + 1]}
          /\ buffer' \in {buffer, [buffer EXCEPT ![j] = @ + 1]}
          /\ UNCHANGED <<total, kept, stored, lost, published>>
    BY <1>1, Here DEF RetestReceive, RetryRetest
  <2>2. PipeTypes'
    BY <2>1, TakeShape DEF PInv, PipeTypes, Go
  <2>3. \A i \in Job \ {j} : buffer'[i] = buffer[i]
    BY <2>1 DEF PInv, PipeTypes
  <2>. QED
    BY <2>1, <2>2, <2>3, Here, TakeShape, Moves
<1>2. CASE RetestEnds(j)
  <2>1. At(j, "retest") /\ Go(j, "retryGate") /\ left[j] = 0 /\ UNCHANGED <<countVars, published>>
    BY <1>2 DEF RetestEnds, GoFrom
  <2>2. PipeTypes'
    BY <2>1 DEF PInv, PipeTypes, countVars, Go
  <2>. QED
    BY <2>1, <2>2, Here, Moves DEF countVars
<1>3. CASE Score(j) \/ Upsert(j) \/ Export(j) \/ Cloudflare(j) \/ Github(j)
  <2>1. PICK s \in {"score", "upsert", "export", "cloudflare", "github"} :
          /\ At(j, s)
          /\ (Fail(j) \/ Done(j) \/ Stop(j))
             \/ \E t \in {"upsert", "export", "cloudflare", "github"} : Go(j, t)
    BY <1>3 DEF Score, Upsert, Export, Cloudflare, Github, GoFrom, Proceed
  <2>2. /\ UNCHANGED <<total, left, failed, buffer, kept, lost>>
        /\ stored' \in [Job -> Nat] /\ \A i \in Job \ {j} : stored'[i] = stored[i]
        /\ published' \in [Job -> SUBSET Targets]
    BY <1>3 DEF Score, Upsert, Export, Cloudflare, Github, Publish, Targets, countVars,
                PInv, PipeTypes
  <2>3. kind[j] = "push" /\ left[j] = 0
    BY <2>1, Here
  <2>4. CASE Fail(j) \/ Done(j) \/ Stop(j)
    <3>1. PipeTypes'
      BY <2>2, <2>4, ReturnShape DEF PInv, PipeTypes
    <3>. QED
      BY <2>2, <2>3, <2>4, <3>1, Returns
  <2>5. ASSUME NEW t \in {"upsert", "export", "cloudflare", "github"}, Go(j, t)
        PROVE  PInv'
    <3>1. PipeTypes'
      BY <2>2, <2>5 DEF PInv, PipeTypes, Go
    <3>. QED
      BY <2>1, <2>2, <2>3, <2>5, <3>1, Here, Moves
  <2>. QED
    BY <2>1, <2>4, <2>5
<1>. QED
  BY <1>1, <1>2, <1>3

(* The end of the stream, the cancel, the second pass and the last return. *)
LEMMA EndsPInv ==
  ASSUME IInv, PInv, NEW j \in Job,
         StreamEnds(j) \/ Tail(j) \/ NoticeCancel(j) \/ Drain(j) \/ Drained(j)
         \/ RetryGate(j) \/ RetryEnds(j)
  PROVE  PInv'
<1> USE DEF EarlySteps, DrySteps, BenchSteps, PushSteps, BeforePushing, BeforeScoring
<1>1. CASE StreamEnds(j)
  <2>1. At(j, "stream") /\ Go(j, "lastFlush") /\ left[j] = 0 /\ UNCHANGED <<countVars, published>>
    BY <1>1 DEF StreamEnds, GoFrom
  <2>2. PipeTypes'
    BY <2>1 DEF PInv, PipeTypes, countVars, Go
  <2>. QED
    BY <2>1, <2>2, Here, Moves DEF countVars
<1>2. CASE Tail(j)
  <2>1. At(j, "tail") /\ Done(j) /\ UNCHANGED <<countVars, published>>
    BY <1>2 DEF Tail
  <2>2. PipeTypes'
    BY <2>1, ReturnShape DEF PInv, PipeTypes, countVars
  <2>. QED
    BY <2>1, <2>2, Here, Returns DEF countVars
<1>3. CASE NoticeCancel(j) \/ Drain(j)
  <2>1. PICK s \in {"stream", "retest", "drain"} : At(j, s)
    BY <1>3 DEF NoticeCancel, Drain
  <2>2. /\ Go(j, "drain") /\ Take(j)
        /\ UNCHANGED <<total, failed, buffer, kept, stored, lost, published>>
    BY <1>3 DEF NoticeCancel, Drain
  <2>3. PipeTypes'
    BY <2>2, TakeShape DEF PInv, PipeTypes, Go
  <2>. QED
    BY <2>1, <2>2, <2>3, Here, TakeShape, Moves
<1>4. CASE Drained(j)
  <2>1. At(j, "drain") /\ left[j] = 0 /\ Stop(j)
    BY <1>4 DEF Drained
  <2>2. CASE kind[j] = "benchmark" /\ Flush(j)
    <3>1. PipeTypes'
      BY <2>1, <2>2, FlushShape, ReturnShape DEF PInv, PipeTypes
    <3>2. kept'[j] = stored'[j] + lost'[j] + buffer'[j]
      BY <2>1, <2>2, <3>1, Here, FlushShape DEF PInv, PipeTypes
    <3>. QED
      BY <2>1, <2>2, <3>1, <3>2, FlushShape, Returns
  <2>3. CASE kind[j] = "push" /\ UNCHANGED <<countVars, published>>
    <3>1. PipeTypes'
      BY <2>1, <2>3, ReturnShape DEF PInv, PipeTypes, countVars
    <3>. QED
      BY <2>1, <2>3, <3>1, Returns DEF countVars
  <2>. QED
    BY <1>4, <2>2, <2>3 DEF Drained
<1>5. CASE RetryGate(j)
  <2>1. At(j, "retryGate") /\ published' = published
    BY <1>5 DEF RetryGate
  <2>2. CASE /\ Go(j, "retry")
             /\ left' = [left EXCEPT ![j] = failed[j]]
             /\ UNCHANGED <<total, failed, buffer, kept, stored, lost>>
    <3>1. PipeTypes'
      BY <2>1, <2>2 DEF PInv, PipeTypes, Go
    <3>2. \A i \in Job \ {j} : left'[i] = left[i]
      BY <2>2 DEF PInv, PipeTypes
    <3>. QED
      BY <2>1, <2>2, <3>1, <3>2, Here, Moves, BatchAssumption
  <2>3. CASE Go(j, AfterRetry(j)) /\ UNCHANGED countVars
    <3>1. PipeTypes'
      BY <2>1, <2>3 DEF PInv, PipeTypes, countVars, Go, AfterRetry
    <3>. QED
      BY <2>1, <2>3, <3>1, Here, Moves DEF countVars, AfterRetry
  <2>. QED
    BY <1>5, <2>2, <2>3 DEF RetryGate
<1>6. CASE RetryEnds(j)
  <2>1. At(j, "retry") /\ left[j] = 0 /\ Go(j, AfterRetry(j))
    BY <1>6 DEF RetryEnds
  <2>2. CASE kind[j] = "benchmark" /\ Flush(j)
    <3>1. PipeTypes'
      BY <2>1, <2>2, FlushShape DEF PInv, PipeTypes, AfterRetry, Go
    <3>2. kept'[j] = stored'[j] + lost'[j] + buffer'[j]
      BY <2>1, <2>2, <3>1, Here, FlushShape DEF PInv, PipeTypes
    <3>3. Go(j, "tail")
      BY <2>1, <2>2 DEF AfterRetry
    <3>. QED
      BY <2>1, <2>2, <3>1, <3>2, <3>3, Here, FlushShape, Moves, BatchAssumption
  <2>3. CASE kind[j] = "push" /\ UNCHANGED <<countVars, published>>
    <3>1. PipeTypes'
      BY <2>1, <2>3 DEF PInv, PipeTypes, countVars, AfterRetry, Go
    <3>2. Go(j, "score")
      BY <2>1, <2>3 DEF AfterRetry
    <3>. QED
      BY <2>1, <2>3, <3>1, <3>2, Here, Moves DEF countVars
  <2>. QED
    BY <1>6, <2>2, <2>3 DEF RetryEnds
<1>. QED
  BY <1>1, <1>2, <1>3, <1>4, <1>5, <1>6

LEMMA NextPInv ==
  ASSUME IInv, PInv, [PipeNext]_allVars
  PROVE  PInv'
<1>1. ASSUME NEW h \in Handler, Ask(h) \/ Handle(h) PROVE PInv'
  BY <1>1, HandlerPInv
<1>2. ASSUME NEW j \in Job, Panics(j) \/ Defers(j) PROVE PInv'
  BY <1>2, LeavePInv
<1>3. ASSUME NEW j \in Job, Work(j) PROVE PInv'
  BY <1>3, EarlyPInv, ReceivePInv, FlushPInv, PushPInv, EndsPInv
     DEF Work, Benchmark, Push, Both
<1>4. CASE UNCHANGED allVars
  BY <1>4, NobodyMoves DEF allVars, vars, jobVars, workerVars, handlerVars
<1>. QED
  BY <1>1, <1>2, <1>3, <1>4 DEF PipeNext

THEOREM PipelinesInductive == PipeSpec => []PInv
BY InitPInv, NextPInv, LifeInductive, PTL DEF PipeSpec

-----------------------------------------------------------------------------
(* Every variable of the pipelines keeps to its values. *)
THEOREM PipelinesTypeCorrect == PipeSpec => []PipeTypeOK
<1>1. IInv => TypeOK
  BY DEF IInv, TypeOK, TypeOK, Phases, Phases, Terminal,
         Terminal, Notice, Notice
<1>2. IInv /\ PInv => PipeTypeOK
  BY <1>1 DEF PInv, PipeTypes, PipeTypeOK
<1>. QED  BY <1>2, LifeInductive, PipelinesInductive, PTL

(***************************************************************************)
(* A worker that leaves its work other than by a panic has emptied the     *)
(* result stream, and a benchmark has written out its buffer.              *)
(***************************************************************************)
THEOREM StreamEmptied == PipeSpec => []NothingLeftBehind
<1>1. PInv => NothingLeftBehind
  BY DEF PInv, JobInv, Clean, NothingLeftBehind
<1>. QED  BY <1>1, PipelinesInductive, PTL

(***************************************************************************)
(* Every result a benchmark ever kept is in the buffer, in the database or *)
(* in a batch the database refused, whatever the sizes of the job and of   *)
(* the batch.                                                              *)
(***************************************************************************)
THEOREM ResultsAccounted == PipeSpec => []NothingLost
<1>1. PInv => NothingLost
  BY DEF PInv, JobInv, Accounted, NothingLost
<1>. QED  BY <1>1, PipelinesInductive, PTL

(* The buffer of a benchmark stays within one batch of any size. *)
THEOREM BatchesBounded == PipeSpec => []BatchBounded
<1>1. PInv => BatchBounded
  BY DEF PInv, JobInv, Bounded, BatchBounded
<1>. QED  BY <1>1, PipelinesInductive, PTL

-----------------------------------------------------------------------------
(***************************************************************************)
(* What a cancelled push has published.  Held(j, S, T): job j is        *)
(* cancelled, has published at most T, and is not beyond the steps S.      *)
(***************************************************************************)
Unpublished ==
  \A j \in Job :
    worker[j] = "none" \/ kind[j] = "benchmark" \/ step[j] \in BeforePushing
      => published[j] = {}

Within(j, S) ==
  \/ kind[j] = "benchmark" \/ step[j] \in S
  \/ worker[j] \notin {"none", "work"}

Held(j, S, T) == j \in cancelled /\ published[j] \subseteq T /\ Within(j, S)

(* How a step of a pipeline moves its job, seen from its targets. *)
Publishing(j) ==
  /\ worker[j] = "work"
  /\ worker'[j] = "work" \/ (worker'[j] = "cleanup" /\ step'[j] = "out")
  /\ kind[j] = "benchmark" => published'[j] = published[j]
  /\ kind[j] = "push" =>
       \/ /\ step[j] \in BeforeScoring /\ published'[j] = published[j]
          /\ \/ worker'[j] = "cleanup" \/ step'[j] \in BeforeScoring
             \/ step'[j] = "upsert" /\ j \notin cancelled
       \/ step[j] = "upsert" /\ step'[j] = "export" /\ published'[j] = published[j]
       \/ /\ step[j] = "export" /\ published'[j] \subseteq published[j] \cup {"IP.txt"}
          /\ worker'[j] = "cleanup" \/ (step'[j] = "cloudflare" /\ j \notin cancelled)
       \/ /\ step[j] \in {"cloudflare", "github"}
          /\ worker'[j] = "cleanup" \/ step'[j] = "github"

OthersStay(j) ==
  /\ UNCHANGED <<cancelled, kind>>
  /\ \A i \in Job \ {j} :
       worker'[i] = worker[i] /\ step'[i] = step[i] /\ published'[i] = published[i]

LEMMA ReturnStays ==
  ASSUME IInv, PInv, NEW j \in Job, Fail(j) \/ Done(j) \/ Stop(j),
         \A i \in Job \ {j} : published'[i] = published[i]
  PROVE  OthersStay(j) /\ worker[j] = "work" /\ worker'[j] = "cleanup" /\ step'[j] = "out"
BY ReturnShape, LifeTypes DEF OthersStay, PInv, PipeTypes

LEMMA GoStays ==
  ASSUME IInv, PInv, NEW j \in Job, NEW t, Go(j, t),
         \A i \in Job \ {j} : published'[i] = published[i]
  PROVE  OthersStay(j) /\ worker'[j] = worker[j] /\ step'[j] = t
BY LifeTypes DEF OthersStay, PInv, PipeTypes, Go, vars, jobVars, workerVars, handlerVars

LEMMA WorkPublishing ==
  ASSUME IInv, PInv, NEW j \in Job, Work(j)
  PROVE  OthersStay(j) /\ Publishing(j)
<1> USE DEF BenchSteps, PushSteps, BeforePushing, BeforeScoring
<1>1. CASE Fetch(j) \/ PurgePorts(j) \/ SelectTasks(j) \/ FilterCountry(j)
           \/ Read(j) \/ PrefilterPush(j)
  BY <1>1, Here, ReturnStays, GoStays
     DEF Fetch, PurgePorts, SelectTasks, FilterCountry, Read, PrefilterPush, Proceed, Publishing
<1>2. CASE Receive(j) \/ RetryReceive(j) \/ FullFlush(j) \/ LastFlush(j) \/ RetryFlush(j)
           \/ StreamEnds(j) \/ RetestReceive(j) \/ RetestEnds(j) \/ RetryRetest(j)
  <2>1. PICK s \in {"stream", "retry", "flush", "lastFlush", "retryFlush", "retest"},
             t \in {"stream", "retry", "flush", "retryFlush", "retryGate", "lastFlush", "retest"} :
          /\ At(j, s) /\ Go(j, t) /\ published' = published
          /\ kind[j] = "push" => t \in BeforeScoring
    <3>1. CASE Receive(j) \/ RetryReceive(j)
      BY <3>1, Here DEF Receive, RetryReceive, Keep, At
    <3>2. CASE FullFlush(j) \/ LastFlush(j) \/ RetryFlush(j)
      BY <3>2, Here, FlushShape DEF FullFlush, LastFlush, RetryFlush, GoFrom
    <3>3. CASE StreamEnds(j) \/ RetestReceive(j) \/ RetestEnds(j) \/ RetryRetest(j)
      BY <3>3, Here DEF StreamEnds, RetestReceive, RetestEnds, RetryRetest, GoFrom
    <3>. QED
      BY <1>2, <3>1, <3>2, <3>3
  <2>. QED
    BY <2>1, Here, GoStays DEF Publishing
<1>3. CASE NoticeCancel(j) \/ Drain(j) \/ RetryGate(j) \/ RetryEnds(j)
  <2>1. PICK s \in {"stream", "retest", "drain", "retryGate", "retry"},
             t \in {"drain", "retry", "tail", "score"} :
          /\ At(j, s) /\ Go(j, t) /\ published' = published
          /\ kind[j] = "push" => t \in BeforeScoring
    BY <1>3, FlushShape DEF NoticeCancel, Drain, RetryGate, RetryEnds, AfterRetry
  <2>. QED
    BY <2>1, Here, GoStays DEF Publishing
<1>4. CASE Drained(j) \/ Tail(j)
  <2>1. PICK s \in {"drain", "tail"} :
          At(j, s) /\ (Stop(j) \/ Done(j)) /\ published' = published
    BY <1>4, FlushShape DEF Drained, Tail
  <2>. QED
    BY <2>1, Here, ReturnStays DEF Publishing
<1>5. CASE Score(j) \/ Upsert(j)
  BY <1>5, Here, ReturnStays, GoStays DEF Score, Upsert, GoFrom, Proceed, Publishing
<1>6. CASE Export(j) \/ Cloudflare(j) \/ Github(j)
  <2>1. \A i \in Job \ {j} : published'[i] = published[i]
    BY <1>6 DEF Export, Cloudflare, Github, Publish, PInv, PipeTypes
  <2>2. CASE Export(j)
    <3>1. published'[j] \subseteq published[j] \cup {"IP.txt"}
      BY <2>2 DEF Export, Publish, PInv, PipeTypes
    <3>. QED
      BY <2>1, <2>2, <3>1, Here, ReturnStays, GoStays DEF Export, Proceed, Publishing
  <2>3. CASE Cloudflare(j) \/ Github(j)
    BY <2>1, <2>3, Here, ReturnStays, GoStays DEF Cloudflare, Github, GoFrom, Publishing
  <2>. QED
    BY <1>6, <2>2, <2>3
<1>. QED
  BY <1>1, <1>2, <1>3, <1>4, <1>5, <1>6 DEF Work, Benchmark, Push, Both

Created(j) ==
  /\ worker[j] = "none" /\ worker'[j] = "work"
  /\ kind'[j] = "push" => step'[j] = "read"
  /\ published' = published /\ cancelled' = cancelled
  /\ \A i \in Job \ {j} : worker'[i] = worker[i] /\ step'[i] = step[i] /\ kind'[i] = kind[i]

LEMMA HandlerPublishing ==
  ASSUME IInv, PInv, NEW h \in Handler, Ask(h) \/ Handle(h)
  PROVE  \/ UNCHANGED <<worker, step, kind, published>> /\ cancelled \subseteq cancelled'
         \/ \E j \in Job : Created(j)
<1>1. ASSUME NEW j \in Job, Create(h, j) PROVE Created(j)
  BY <1>1, LifeTypes DEF Create, TriggerCreate, FirstStep, PInv, PipeTypes, Created
<1>. QED
  BY <1>1 DEF Ask, Handle, pipeVars, Request, TriggerLock, TriggerRefuse,
              TriggerCheck, CancelPick, CancelClose, CancelMark,
              jobVars, workerVars

LEMMA LeavePublishing ==
  ASSUME IInv, PInv, NEW j \in Job, Panics(j) \/ Defers(j)
  PROVE  /\ UNCHANGED <<kind, published, cancelled>>
         /\ worker[j] # "none" /\ worker'[j] \notin {"none", "work"}
         /\ step'[j] = "out"
         /\ \A i \in Job \ {j} : worker'[i] = worker[i] /\ step'[i] = step[i]
<1>1. CASE Panics(j)
  BY <1>1, LifeTypes DEF Panics, Panic, jobVars, PInv, PipeTypes
<1>2. CASE Defers(j)
  <2>1. worker[j] \notin {"none", "work"}
    BY <1>2 DEF Defers, Deferred, Cleanup, Finish, Notify, Recover
  <2>2. step[j] = "out"
    BY <2>1 DEF PInv, JobInv, Placed
  <2>. QED
    BY <1>2, <2>1, <2>2, LifeTypes
       DEF Defers, pipeVars, Deferred, Cleanup, Finish, Notify, Leave,
           Recover, jobVars, PInv, PipeTypes
<1>. QED
  BY <1>1, <1>2

(* Nothing is published before the export. *)
LEMMA UnpublishedStep ==
  ASSUME IInv, PInv, Unpublished, [PipeNext]_allVars
  PROVE  Unpublished'
<1> USE DEF Unpublished, BeforePushing, BeforeScoring
<1>1. ASSUME NEW h \in Handler, Ask(h) \/ Handle(h) PROVE Unpublished'
  <2>1. CASE UNCHANGED <<worker, step, kind, published>>
    BY <2>1
  <2>2. ASSUME NEW j \in Job, Created(j) PROVE Unpublished'
    BY <2>2 DEF Created
  <2>. QED
    BY <1>1, <2>1, <2>2, HandlerPublishing
<1>2. ASSUME NEW j \in Job, Panics(j) \/ Defers(j) PROVE Unpublished'
  BY <1>2, LeavePublishing
<1>3. ASSUME NEW j \in Job, Work(j) PROVE Unpublished'
  <2>1. Publishing(j) /\ OthersStay(j)
    BY <1>3, WorkPublishing
  <2>2. kind[j] \in {"benchmark", "push"}
    BY <2>1 DEF PInv, JobInv, Placed, Publishing
  <2>. QED
    BY <2>1, <2>2 DEF Publishing, OthersStay
<1>4. CASE UNCHANGED allVars
  BY <1>4 DEF allVars, vars, pipeVars, jobVars, workerVars, handlerVars
<1>. QED
  BY <1>1, <1>2, <1>3, <1>4 DEF PipeNext

(* Neither bound on a cancelled push is ever left. *)
LEMMA HeldStep ==
  ASSUME IInv, PInv, [PipeNext]_allVars, NEW j \in Job
  PROVE  /\ Held(j, BeforeScoring, {}) => Held(j, BeforeScoring, {})'
         /\ Held(j, BeforePushing, {"IP.txt"}) => Held(j, BeforePushing, {"IP.txt"})'
<1> USE DEF Held, Within, BeforePushing, BeforeScoring
<1>1. ASSUME NEW h \in Handler, Ask(h) \/ Handle(h)
      PROVE  /\ Held(j, BeforeScoring, {}) => Held(j, BeforeScoring, {})'
             /\ Held(j, BeforePushing, {"IP.txt"}) => Held(j, BeforePushing, {"IP.txt"})'
  <2>1. CASE UNCHANGED <<worker, step, kind, published>> /\ cancelled \subseteq cancelled'
    BY <2>1
  <2>2. ASSUME NEW i \in Job, Created(i)
        PROVE  /\ Held(j, BeforeScoring, {}) => Held(j, BeforeScoring, {})'
               /\ Held(j, BeforePushing, {"IP.txt"}) => Held(j, BeforePushing, {"IP.txt"})'
    BY <2>2 DEF Created, PInv, PipeTypes, Kinds, JobInv, Placed
  <2>. QED
    BY <1>1, <2>1, <2>2, HandlerPublishing
<1>2. ASSUME NEW i \in Job, Panics(i) \/ Defers(i)
      PROVE  /\ Held(j, BeforeScoring, {}) => Held(j, BeforeScoring, {})'
             /\ Held(j, BeforePushing, {"IP.txt"}) => Held(j, BeforePushing, {"IP.txt"})'
  BY <1>2, LeavePublishing
<1>3. ASSUME NEW i \in Job, Work(i)
      PROVE  /\ Held(j, BeforeScoring, {}) => Held(j, BeforeScoring, {})'
             /\ Held(j, BeforePushing, {"IP.txt"}) => Held(j, BeforePushing, {"IP.txt"})'
  <2>1. Publishing(i) /\ OthersStay(i)
    BY <1>3, WorkPublishing
  <2>2. kind[i] \in {"benchmark", "push"}
    BY <2>1 DEF PInv, JobInv, Placed, Publishing
  <2>. QED
    BY <2>1, <2>2 DEF Publishing, OthersStay
<1>4. CASE UNCHANGED allVars
  BY <1>4 DEF allVars, vars, pipeVars, jobVars, workerVars, handlerVars
<1>. QED
  BY <1>1, <1>2, <1>3, <1>4 DEF PipeNext

(***************************************************************************)
(* A push that is cancelled before its check at the scoring publishes      *)
(* nothing, and one cancelled before its last check publishes nothing      *)
(* beyond the local file, for any number of jobs and any batch.            *)
(***************************************************************************)
THEOREM CancelledPushStops == PipeSpec => CancelStopsPublishing
<1>1. PipeInit => Unpublished
  BY DEF PipeInit, Unpublished
<1>2. PipeSpec => [](IInv /\ PInv /\ Unpublished)
  BY <1>1, UnpublishedStep, LifeInductive, PipelinesInductive, PTL DEF PipeSpec
<1>3. ASSUME NEW j \in Job
      PROVE  PipeSpec => [](j \in cancelled /\ step[j] \in BeforeScoring => [](published[j] = {}))
  <2>1. Unpublished /\ j \in cancelled /\ step[j] \in BeforeScoring => Held(j, BeforeScoring, {})
    BY DEF Unpublished, Held, Within, BeforePushing
  <2>2. Held(j, BeforeScoring, {}) => published[j] = {}
    BY DEF Held
  <2>3. IInv /\ PInv /\ [PipeNext]_allVars /\ Held(j, BeforeScoring, {})
          => Held(j, BeforeScoring, {})'
    BY HeldStep
  <2>. QED
    BY <1>2, <2>1, <2>2, <2>3, PTL DEF PipeSpec
<1>4. ASSUME NEW j \in Job
      PROVE  PipeSpec => [](j \in cancelled /\ step[j] \in BeforePushing
                          => [](published[j] \subseteq {"IP.txt"}))
  <2>1. Unpublished /\ j \in cancelled /\ step[j] \in BeforePushing
          => Held(j, BeforePushing, {"IP.txt"})
    BY DEF Unpublished, Held, Within
  <2>2. Held(j, BeforePushing, {"IP.txt"}) => published[j] \subseteq {"IP.txt"}
    BY DEF Held
  <2>3. IInv /\ PInv /\ [PipeNext]_allVars /\ Held(j, BeforePushing, {"IP.txt"})
          => Held(j, BeforePushing, {"IP.txt"})'
    BY HeldStep
  <2>. QED
    BY <1>2, <2>1, <2>2, <2>3, PTL DEF PipeSpec
<1>. QED
  BY <1>3, <1>4 DEF CancelStopsPublishing
=============================================================================
