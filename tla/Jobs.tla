-------------------------------- MODULE Jobs --------------------------------
(***************************************************************************)
(* The life cycle of the jobs a user triggers from the dashboard:          *)
(* src/web/service.go (Job, jobTracker, finishJob) and the handlers of     *)
(* src/web/handlers.go that start and cancel them.                         *)
(*                                                                         *)
(* A job is one goroutine (its worker) plus a record that the HTTP         *)
(* handlers read and write concurrently.  What the worker does between its *)
(* start and its return is the subject of module JobPipelines; here it     *)
(* only works, and then leaves through the deferred calls of runBenchmark  *)
(* and runPushWithSkipAfter.                                               *)
(***************************************************************************)

CONSTANTS
  Job,        \* job identifiers; newJobID draws a fresh one for every job
  Handler,    \* the goroutines of net/http that serve one request at a time
  NoHandler,  \* "triggerMu is free"
  NoJob       \* "this handler holds no job"

ASSUME NullAssumption == NoHandler \notin Handler /\ NoJob \notin Job

VARIABLES
  tracked,    \* the jobs in jobTracker.jobs
  status,     \* Job.Status; "none" before the job is created
  cancelled,  \* the jobs whose cancelCh is closed
  finishedAt, \* the jobs whose FinishedAt is set
  worker,     \* where the job's goroutine is
  panicking,  \* the jobs whose goroutine is unwinding from a panic
  verdict,    \* finishJob's local copy of the status it left
  notified,   \* what the WxPusher notification said of the job
  triggerMu,  \* the handler that holds Server.triggerMu
  at,         \* where each handler is in its request
  target      \* the job a cancel request has picked

jobVars     == <<tracked, status, cancelled, finishedAt>>
workerVars  == <<worker, panicking, verdict, notified>>
handlerVars == <<triggerMu, at, target>>
vars        == <<jobVars, workerVars, handlerVars>>

Terminal == {"completed", "failed", "canceled"}
Phases   == {"work", "cleanup", "finish", "notify", "recover", "done"}
Notice   == {"success", "failure"}

Init ==
  /\ tracked = {}
  /\ status = [j \in Job |-> "none"]
  /\ cancelled = {}
  /\ finishedAt = {}
  /\ worker = [j \in Job |-> "none"]
  /\ panicking = {}
  /\ verdict = [j \in Job |-> "none"]
  /\ notified = [j \in Job |-> "nothing"]
  /\ triggerMu = NoHandler
  /\ at = [h \in Handler |-> "idle"]
  /\ target = [h \in Handler |-> NoJob]

-----------------------------------------------------------------------------
(* jobTracker *)

(***************************************************************************)
(* jobTracker.current scans the tracked jobs for one that is running.  It  *)
(* scans from the newest; SingleTracked shows that there is nothing to     *)
(* choose from.                                                            *)
(***************************************************************************)
Current == {j \in tracked : status[j] = "running"}

(* The jobs that create leaves in the tracker beside the new one. *)
Kept == {j \in tracked : status[j] = "running"}

-----------------------------------------------------------------------------
(* Handlers: startJob, under triggerMu *)

TriggerLockMutant(h) ==
  /\ at[h] = "idle"
  /\ triggerMu' = h
  /\ at' = [at EXCEPT ![h] = "locked"]
  /\ UNCHANGED <<jobVars, workerVars, target>>

TriggerLock(h) ==
  /\ at[h] = "idle"
  /\ triggerMu = NoHandler
  /\ \E j \in Job : status[j] = "none"    \* bound: Job is finite under TLC
  /\ triggerMu' = h
  /\ at' = [at EXCEPT ![h] = "locked"]
  /\ UNCHANGED <<jobVars, workerVars, target>>

(* 409: another job is running. *)
TriggerRefuse(h) ==
  /\ at[h] = "locked"
  /\ Current # {}
  /\ triggerMu' = NoHandler
  /\ at' = [at EXCEPT ![h] = "idle"]
  /\ UNCHANGED <<jobVars, workerVars, target>>

TriggerCheck(h) ==
  /\ at[h] = "locked"
  /\ Current = {}
  /\ at' = [at EXCEPT ![h] = "free"]
  /\ UNCHANGED <<jobVars, workerVars, triggerMu, target>>

(***************************************************************************)
(* jobTracker.create forgets every job that is no longer running, and the  *)
(* goroutine of the new job is started.  The deferred unlock follows with  *)
(* no other effect in between.                                             *)
(***************************************************************************)
TriggerCreate(h, j) ==
  /\ at[h] = "free"
  /\ status[j] = "none"
  /\ tracked' = Kept \cup {j}
  /\ status' = [status EXCEPT ![j] = "running"]
  /\ worker' = [worker EXCEPT ![j] = "work"]
  /\ triggerMu' = NoHandler
  /\ at' = [at EXCEPT ![h] = "idle"]
  /\ UNCHANGED <<cancelled, finishedAt, panicking, verdict, notified, target>>

-----------------------------------------------------------------------------
(* Handlers: cancelJobHandler, which holds no lock between its steps *)

CancelPick(h, j) ==
  /\ at[h] = "idle"
  /\ j \in Current
  /\ at' = [at EXCEPT ![h] = "picked"]
  /\ target' = [target EXCEPT ![h] = j]
  /\ UNCHANGED <<jobVars, workerVars, triggerMu>>

(* Job.Cancel, first statement: cancelOnce closes the channel. *)
CancelClose(h) ==
  /\ at[h] = "picked"
  /\ cancelled' = cancelled \cup {target[h]}
  /\ at' = [at EXCEPT ![h] = "closed"]
  /\ UNCHANGED <<tracked, status, finishedAt, workerVars, triggerMu, target>>

(* Job.Cancel, second statement: whatever the status is by now. *)
CancelMark(h) ==
  /\ at[h] = "closed"
  /\ status' = [status EXCEPT ![target[h]] = "canceled"]
  /\ at' = [at EXCEPT ![h] = "idle"]
  /\ target' = [target EXCEPT ![h] = NoJob]
  /\ UNCHANGED <<tracked, cancelled, finishedAt, workerVars, triggerMu>>

-----------------------------------------------------------------------------
(* The worker of job j.  The exits from "work" are those of the pipelines. *)

(* A cancellation check found cancelCh closed: return, leaving the status. *)
ObserveCancel(j) ==
  /\ worker[j] = "work"
  /\ j \in cancelled
  /\ worker' = [worker EXCEPT ![j] = "cleanup"]
  /\ UNCHANGED <<jobVars, panicking, verdict, notified, handlerVars>>

(* An error path: setStatus(statusFailed) and return. *)
ReturnFailed(j) ==
  /\ worker[j] = "work"
  /\ status' = [status EXCEPT ![j] = "failed"]
  /\ worker' = [worker EXCEPT ![j] = "cleanup"]
  /\ UNCHANGED <<tracked, cancelled, finishedAt, panicking, verdict, notified, handlerVars>>

(* The end of the function, or a return that leaves the status alone. *)
ReturnOK(j) ==
  /\ worker[j] = "work"
  /\ worker' = [worker EXCEPT ![j] = "cleanup"]
  /\ UNCHANGED <<jobVars, panicking, verdict, notified, handlerVars>>

(* The work, or the deferred cleanup, panics: the next deferred call runs. *)
Panic(j) ==
  /\ worker[j] \in {"work", "cleanup"}
  /\ panicking' = panicking \cup {j}
  /\ worker' = [worker EXCEPT ![j] = IF @ = "work" THEN "cleanup" ELSE "finish"]
  /\ UNCHANGED <<jobVars, verdict, notified, handlerVars>>

(* First deferred call: cleaner.Cleanup. *)
Cleanup(j) ==
  /\ worker[j] = "cleanup"
  /\ worker' = [worker EXCEPT ![j] = "finish"]
  /\ UNCHANGED <<jobVars, panicking, verdict, notified, handlerVars>>

(* The status finishJob leaves when it finds s. *)
FinishedStatusMutant1(s) == "completed"
FinishedStatusMutant2(s) == s
FinishedStatus(s) == IF s = "running" THEN "completed" ELSE s

(* Second deferred call: finishJob, while it holds job.mu. *)
Finish(j) ==
  /\ worker[j] = "finish"
  /\ LET s == FinishedStatus(status[j])
     IN  /\ status' = [status EXCEPT ![j] = s]
         /\ verdict' = [verdict EXCEPT ![j] = s]
  /\ finishedAt' = finishedAt \cup {j}
  /\ worker' = [worker EXCEPT ![j] = "notify"]
  /\ UNCHANGED <<tracked, cancelled, panicking, notified, handlerVars>>

(* NotifyJobComplete is told whether the job succeeded, not its status. *)
NoticeOfMutant(s) == IF s # "canceled" THEN "success" ELSE "failure"
NoticeOf(s) == IF s = "completed" THEN "success" ELSE "failure"

Leave(j) == IF j \in panicking THEN "recover" ELSE "done"

(* The rest of finishJob: the notification is sent, or is off or fails. *)
Notify(j) ==
  /\ worker[j] = "notify"
  /\ \/ notified' = [notified EXCEPT ![j] = NoticeOf(verdict[j])]
     \/ notified' = notified
  /\ worker' = [worker EXCEPT ![j] = Leave(j)]
  /\ UNCHANGED <<jobVars, panicking, verdict, handlerVars>>

(* The recover of startJob's goroutine: job.fail. *)
Recover(j) ==
  /\ worker[j] = "recover"
  /\ status' = [status EXCEPT ![j] = "failed"]
  /\ finishedAt' = finishedAt \cup {j}
  /\ worker' = [worker EXCEPT ![j] = "done"]
  /\ UNCHANGED <<tracked, cancelled, panicking, verdict, notified, handlerVars>>

-----------------------------------------------------------------------------
HandlerStep(h) ==
  \/ TriggerRefuse(h) \/ TriggerCheck(h)
  \/ \E j \in Job : TriggerCreate(h, j)
  \/ CancelClose(h) \/ CancelMark(h)

Request(h) == TriggerLock(h) \/ \E j \in Job : CancelPick(h, j)

Exit(j) == ObserveCancel(j) \/ ReturnFailed(j) \/ ReturnOK(j)

Deferred(j) == Cleanup(j) \/ Finish(j) \/ Notify(j) \/ Recover(j)

Next ==
  \/ \E h \in Handler : Request(h) \/ HandlerStep(h)
  \/ \E j \in Job : Exit(j) \/ Panic(j) \/ Deferred(j)

Spec == Init /\ [][Next]_vars

(***************************************************************************)
(* A goroutine that can go on does go on: every handler finishes the       *)
(* request it serves, every worker returns and runs its deferred calls     *)
(* (every network call of the pipelines has a timeout).  Nothing forces a  *)
(* user to send a request, and nothing forces a panic.                     *)
(***************************************************************************)
Fairness ==
  /\ \A h \in Handler : WF_vars(HandlerStep(h))
  /\ \A j \in Job : WF_vars(Exit(j)) /\ WF_vars(Deferred(j))

LiveSpec == Spec /\ Fairness

-----------------------------------------------------------------------------
(* Properties *)

(* Every variable keeps to the values the code gives it. *)
TypeOK ==
  /\ tracked \subseteq Job
  /\ status \in [Job -> {"none", "running"} \cup Terminal]
  /\ cancelled \subseteq Job
  /\ finishedAt \subseteq Job
  /\ worker \in [Job -> {"none"} \cup Phases]
  /\ panicking \subseteq Job
  /\ verdict \in [Job -> {"none"} \cup Terminal]
  /\ notified \in [Job -> {"nothing"} \cup Notice]
  /\ triggerMu \in Handler \cup {NoHandler}
  /\ at \in [Handler -> {"idle", "locked", "free", "picked", "closed"}]
  /\ target \in [Handler -> Job \cup {NoJob}]

(***************************************************************************)
(* At most one job has the status "running", although the check for a      *)
(* running job and the creation of the next are separate steps and every   *)
(* status is written without triggerMu (startJob).                         *)
(***************************************************************************)
AtMostOneRunning ==
  \A i, j \in Job : status[i] = "running" /\ status[j] = "running" => i = j

(***************************************************************************)
(* The tracker never holds two jobs: create keeps those that are still     *)
(* running, but startJob never gets there while one is.  A consequence a   *)
(* user sees is that a cancelled job vanishes from the list while its      *)
(* worker is still busy, as soon as the next one starts.                   *)
(***************************************************************************)
SingleTracked == \A i, j \in tracked : i = j

(***************************************************************************)
(* When two workers are at work at once, one of them has been cancelled:   *)
(* overlapping work is never older than a cancel request.                  *)
(***************************************************************************)
OverlapOnlyAfterCancel ==
  \A i, j \in Job :
    worker[i] = "work" /\ worker[j] = "work" /\ i # j
      => i \in cancelled \/ j \in cancelled

(***************************************************************************)
(* A job whose worker has gone is over: it has a finishing time and no     *)
(* longer occupies the slot, whichever way its worker left.                *)
(***************************************************************************)
GoneIsOver ==
  \A j \in Job : worker[j] = "done" => j \in finishedAt /\ status[j] \in Terminal

(* A cancelled job stays cancelled, unless its worker then fails. *)
CancelSticks ==
  [][\A j \in Job : status[j] = "canceled" => status'[j] \in {"canceled", "failed"}]_vars

(***************************************************************************)
(* Once cancelCh is closed the job ends, its worker included, and it ends  *)
(* as cancelled or failed, even when its worker had finished it first.     *)
(***************************************************************************)
CancelTakesEffect ==
  \A j \in Job :
    j \in cancelled ~> [](worker[j] = "done" /\ status[j] \in {"canceled", "failed"})

(***************************************************************************)
(* A notification that says "success" is about a job that ended as         *)
(* "completed", except for the two ways its status may still change after  *)
(* finishJob has read it: a cancel that comes late, and the recover that   *)
(* runs after finishJob when the worker panicked.                          *)
(***************************************************************************)
SuccessIsTrue ==
  \A j \in Job :
    worker[j] = "done" /\ notified[j] = "success"
      => \/ status[j] = "completed"
         \/ status[j] = "canceled" /\ j \in cancelled
         \/ status[j] = "failed" /\ j \in panicking
=============================================================================
