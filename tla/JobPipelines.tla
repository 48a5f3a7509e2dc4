---------------------------- MODULE JobPipelines ----------------------------
(***************************************************************************)
(* What the worker of a job does: runBenchmark and runPushWithSkipAfter of *)
(* src/web/service.go, one step per effect on something shared (the cancel *)
(* channel, the result stream, the database, the push targets).  The life  *)
(* cycle around the work is module Jobs, which this module implements.     *)
(*                                                                         *)
(* The configuration may be changed while a job runs, so a branch on it is *)
(* a free choice, and so is the outcome of a network or database call.     *)
(* Tasks and results are counted, not named.                               *)
(***************************************************************************)
EXTENDS Jobs, Naturals

CONSTANTS
  BatchSize,   \* BATCH_SIZE: scored results buffered before a database write
  MaxTasks     \* bound: the largest number of tasks given to the engine

ASSUME BatchAssumption == BatchSize \in Nat \ {0} /\ MaxTasks \in Nat \ {0}

VARIABLES
  kind,       \* Job.Type: "benchmark" or "push"
  step,       \* where the worker is in its pipeline
  total,      \* the tasks given to the engine
  left,       \* the results the worker has not yet taken from the stream
  failed,     \* len(failedTasks)
  buffer,     \* len(scoredBuffer); for a push, len(reResults)
  kept,       \* the results ever put into scoredBuffer
  stored,     \* totalResults; for a push, the results written
  lost,       \* the results of batches the database refused
  published   \* the targets a push has written to

countVars == <<total, left, failed, buffer, kept, stored, lost>>
pipeVars == <<kind, step, countVars, published>>
allVars == <<vars, pipeVars>>

Kinds == {"benchmark", "push"}

(* The steps of a push up to its check before scoring, and before pushing. *)
BeforeScoring == {"read", "prefilter", "retest", "drain", "retryGate", "retry", "score"}
BeforePushing == BeforeScoring \cup {"upsert", "export"}

BenchSteps == {"fetch", "ports", "select", "country", "stream", "flush", "drain",
               "lastFlush", "retryGate", "retry", "retryFlush", "tail"}
PushSteps  == BeforePushing \cup {"cloudflare", "github"}

Targets == {"IP.txt", "cloudflare", "github"}

Zero == [j \in Job |-> 0]

PipeInit ==
  /\ Init
  /\ kind = [j \in Job |-> "none"]
  /\ step = [j \in Job |-> "out"]
  /\ total = Zero /\ left = Zero /\ failed = Zero /\ buffer = Zero
  /\ kept = Zero /\ stored = Zero /\ lost = Zero
  /\ published = [j \in Job |-> {}]

-----------------------------------------------------------------------------
(* Steps of a worker that stay within its work, and those that end it *)

At(j, s) == worker[j] = "work" /\ step[j] = s

Go(j, s) == step' = [step EXCEPT ![j] = s] /\ UNCHANGED <<vars, kind>>

GoFrom(j, s, t) == At(j, s) /\ Go(j, t)

(* A return; the deferred calls of Jobs follow. *)
Out(j, return) == return /\ step' = [step EXCEPT ![j] = "out"] /\ UNCHANGED kind

Fail(j) == Out(j, ReturnFailed(j))
Done(j) == Out(j, ReturnOK(j))
Stop(j) == Out(j, ObserveCancel(j))

(* The checks of job.IsCanceled that only decide whether to go on. *)
Proceed(j, s) == j \notin cancelled /\ Go(j, s)

-----------------------------------------------------------------------------
(* runBenchmark, up to the engine *)

(* Fetching fails or yields nothing, or is followed by the first check. *)
Fetch(j) ==
  /\ At(j, "fetch")
  /\ Fail(j) \/ Stop(j) \/ Proceed(j, "ports")
  /\ UNCHANGED <<countVars, published>>

(* Rows of ports no longer configured are deleted; no check follows. *)
PurgePorts(j) ==
  /\ At(j, "ports")
  /\ Fail(j) \/ Go(j, "select")
  /\ UNCHANGED <<countVars, published>>

(***************************************************************************)
(* No address needs a test, or none answers the handshake, or the second   *)
(* check follows.                                                          *)
(***************************************************************************)
SelectTasks(j) ==
  /\ At(j, "select")
  /\ Done(j) \/ Fail(j) \/ Stop(j) \/ Proceed(j, "country")
  /\ UNCHANGED <<countVars, published>>

(* The engine is given n tasks and will deliver n results. *)
StartEngine(j, n) ==
  /\ total' = [total EXCEPT ![j] = n]
  /\ left' = [left EXCEPT ![j] = n]
  /\ UNCHANGED <<failed, buffer, kept, stored, lost>>

(* The country filter, the verification of countries, the backup. *)
FilterCountry(j) ==
  /\ At(j, "country")
  /\ \/ Fail(j) /\ UNCHANGED countVars
     \/ Go(j, "stream") /\ \E n \in 1..MaxTasks : StartEngine(j, n)
  /\ UNCHANGED published

-----------------------------------------------------------------------------
(* runBenchmark, the result stream *)

(* Take one result from the stream. *)
Take(j) == left[j] > 0 /\ left' = [left EXCEPT ![j] = @ - 1]

(* A result that passes the rules is kept; a full buffer is flushed next. *)
KeepMutant(j, then) ==
  /\ buffer' = [buffer EXCEPT ![j] = @ + 1]
  /\ kept' = [kept EXCEPT ![j] = @ + 1]
  /\ Go(j, IF buffer[j] + 1 > BatchSize THEN then.full ELSE step[j])

Keep(j, then) ==
  /\ buffer' = [buffer EXCEPT ![j] = @ + 1]
  /\ kept' = [kept EXCEPT ![j] = @ + 1]
  /\ Go(j, IF buffer[j] + 1 >= BatchSize THEN then.full ELSE step[j])

(* Failed tasks are remembered once each. *)
Receive(j) ==
  /\ At(j, "stream") /\ j \notin cancelled
  /\ Take(j)
  /\ \/ /\ failed' = [failed EXCEPT ![j] = @ + 1]
        /\ Go(j, "stream") /\ UNCHANGED <<buffer, kept>>
     \/ Go(j, "stream") /\ UNCHANGED <<failed, buffer, kept>>
     \/ Keep(j, [full |-> "flush"]) /\ UNCHANGED failed
  /\ UNCHANGED <<total, stored, lost, published>>

(* flush: one BatchUpsert; a refused batch is logged and forgotten. *)
FlushMutant(j) ==
  /\ \/ /\ stored' = [stored EXCEPT ![j] = @ + buffer[j]]
        /\ buffer' = [buffer EXCEPT ![j] = 0]
        /\ UNCHANGED lost
     \/ /\ lost' = [lost EXCEPT ![j] = @ + buffer[j]]
        /\ UNCHANGED <<stored, buffer>>
  /\ UNCHANGED <<total, left, failed, kept, published>>

Flush(j) ==
  /\ \/ /\ stored' = [stored EXCEPT ![j] = @ + buffer[j]]
        /\ UNCHANGED lost
     \/ /\ lost' = [lost EXCEPT ![j] = @ + buffer[j]]
        /\ UNCHANGED stored
  /\ buffer' = [buffer EXCEPT ![j] = 0]
  /\ UNCHANGED <<total, left, failed, kept, published>>

FullFlush(j) == GoFrom(j, "flush", "stream") /\ Flush(j)

(* The cancel is noticed on the next result, which is discarded with it. *)
NoticeCancel(j) ==
  /\ step[j] \in {"stream", "retest"} /\ At(j, step[j]) /\ j \in cancelled
  /\ Take(j)
  /\ Go(j, "drain")
  /\ UNCHANGED <<total, failed, buffer, kept, stored, lost, published>>

(* "for range resultCh {}": until the engine closes the channel. *)
DrainMutant(j) ==
  /\ At(j, "drain") /\ left[j] > 0
  /\ Go(j, "drain")
  /\ UNCHANGED <<countVars, published>>

Drain(j) ==
  /\ At(j, "drain")
  /\ Take(j)
  /\ Go(j, "drain")
  /\ UNCHANGED <<total, failed, buffer, kept, stored, lost, published>>

(* What was kept before the cancel is written; a push writes nothing. *)
DrainedMutant(j) ==
  /\ At(j, "drain") /\ left[j] = 0
  /\ Stop(j)
  /\ UNCHANGED <<countVars, published>>

Drained(j) ==
  /\ At(j, "drain") /\ left[j] = 0
  /\ Stop(j)
  /\ \/ kind[j] = "benchmark" /\ Flush(j)
     \/ kind[j] = "push" /\ UNCHANGED <<countVars, published>>

StreamEnds(j) ==
  /\ left[j] = 0
  /\ GoFrom(j, "stream", "lastFlush")
  /\ UNCHANGED <<countVars, published>>

LastFlush(j) == GoFrom(j, "lastFlush", "retryGate") /\ Flush(j)

-----------------------------------------------------------------------------
(* The second pass over the failed tasks, and the end of runBenchmark *)

(* failRate >= 0.3, in tenths. *)
ManyFailed(j) == 10 * failed[j] >= 3 * total[j]

AfterRetry(j) == IF kind[j] = "benchmark" THEN "tail" ELSE "score"

RetryGate(j) ==
  /\ At(j, "retryGate")
  /\ \/ /\ j \notin cancelled /\ failed[j] > 0 /\ ManyFailed(j)
        /\ Go(j, "retry")
        /\ left' = [left EXCEPT ![j] = failed[j]]
        /\ UNCHANGED <<total, failed, buffer, kept, stored, lost>>
     \/ Go(j, AfterRetry(j)) /\ UNCHANGED countVars
  /\ UNCHANGED published

(* The second pass does not look at the cancel channel. *)
RetryReceive(j) ==
  /\ At(j, "retry") /\ kind[j] = "benchmark"
  /\ Take(j)
  /\ \/ Go(j, "retry") /\ UNCHANGED <<buffer, kept>>
     \/ Keep(j, [full |-> "retryFlush"])
  /\ UNCHANGED <<total, failed, stored, lost, published>>

RetryFlush(j) == GoFrom(j, "retryFlush", "retry") /\ Flush(j)

RetryEnds(j) ==
  /\ At(j, "retry") /\ left[j] = 0
  /\ Go(j, AfterRetry(j))
  /\ \/ kind[j] = "benchmark" /\ Flush(j)
     \/ kind[j] = "push" /\ UNCHANGED <<countVars, published>>

(* Trimming, the removal of old rows and the last message. *)
Tail(j) == At(j, "tail") /\ Done(j) /\ UNCHANGED <<countVars, published>>

-----------------------------------------------------------------------------
(* runPush, up to the end of the second pass *)

(* The addresses cannot be read, or there are none, or the check follows. *)
Read(j) ==
  /\ At(j, "read")
  /\ Fail(j) \/ Stop(j) \/ Proceed(j, "prefilter")
  /\ UNCHANGED <<countVars, published>>

(* None answers the handshake, or the engine retests those that do. *)
PrefilterPush(j) ==
  /\ At(j, "prefilter")
  /\ \/ Fail(j) /\ UNCHANGED countVars
     \/ Go(j, "retest") /\ \E n \in 1..MaxTasks : StartEngine(j, n)
  /\ UNCHANGED published

(* Every result is kept until the scoring, the failed ones included. *)
RetestReceive(j) ==
  /\ At(j, "retest") /\ j \notin cancelled
  /\ Take(j)
  /\ buffer' = [buffer EXCEPT ![j] = @ + 1]
  /\ failed' \in {failed, [failed EXCEPT ![j] = @ + 1]}
  /\ Go(j, "retest")
  /\ UNCHANGED <<total, kept, stored, lost, published>>

RetestEnds(j) ==
  /\ left[j] = 0
  /\ GoFrom(j, "retest", "retryGate")
  /\ UNCHANGED <<countVars, published>>

RetryRetest(j) ==
  /\ At(j, "retry") /\ kind[j] = "push"
  /\ Take(j)
  /\ buffer' \in {buffer, [buffer EXCEPT ![j] = @ + 1]}
  /\ Go(j, "retry")
  /\ UNCHANGED <<total, failed, kept, stored, lost, published>>

-----------------------------------------------------------------------------
(* runPush, scoring and publishing *)

(* Only a result without an error can pass the scoring and the rules. *)
ScoreMutant(j) ==
  /\ At(j, "score")
  /\ Fail(j) \/ (buffer[j] > failed[j] /\ Go(j, "upsert"))
  /\ UNCHANGED <<countVars, published>>

Score(j) ==
  /\ At(j, "score")
  /\ \/ Stop(j)
     \/ j \notin cancelled /\ Fail(j)
     \/ buffer[j] > failed[j] /\ Proceed(j, "upsert")
  /\ UNCHANGED <<countVars, published>>

(* The scored results are written; a refused write is only logged. *)
Upsert(j) ==
  /\ GoFrom(j, "upsert", "export")
  /\ \E n \in 0..(buffer[j] - failed[j]) : stored' = [stored EXCEPT ![j] = n]
  /\ UNCHANGED <<total, left, failed, buffer, kept, lost, published>>

Publish(j, where) ==
  published' \in {published, [published EXCEPT ![j] = @ \cup {where}]}

(* The file is written, or an error is logged; the last check follows. *)
Export(j) ==
  /\ At(j, "export")
  /\ Publish(j, "IP.txt")
  /\ Stop(j) \/ Proceed(j, "cloudflare")
  /\ UNCHANGED countVars

(* Each push is configured and succeeds, or is skipped, or fails. *)
Cloudflare(j) ==
  /\ GoFrom(j, "cloudflare", "github")
  /\ Publish(j, "cloudflare") /\ UNCHANGED countVars

Github(j) ==
  /\ At(j, "github") /\ Done(j)
  /\ Publish(j, "github") /\ UNCHANGED countVars

-----------------------------------------------------------------------------
(* The life cycle of Jobs around the pipelines *)

FirstStep(k) == IF k = "benchmark" THEN "fetch" ELSE "read"

Create(h, j) ==
  /\ TriggerCreate(h, j)
  /\ \E k \in Kinds :
       /\ kind' = [kind EXCEPT ![j] = k]
       /\ step' = [step EXCEPT ![j] = FirstStep(k)]
  /\ UNCHANGED <<countVars, published>>

Ask(h) == Request(h) /\ UNCHANGED pipeVars

Handle(h) ==
  \/ \E j \in Job : Create(h, j)
  \/ /\ TriggerRefuse(h) \/ TriggerCheck(h) \/ CancelClose(h) \/ CancelMark(h)
     /\ UNCHANGED pipeVars

Panics(j) ==
  /\ Panic(j)
  /\ step' = [step EXCEPT ![j] = "out"]
  /\ UNCHANGED <<kind, countVars, published>>

Defers(j) == Deferred(j) /\ UNCHANGED pipeVars

Benchmark(j) ==
  \/ Fetch(j) \/ PurgePorts(j) \/ SelectTasks(j) \/ FilterCountry(j)
  \/ Receive(j) \/ FullFlush(j) \/ StreamEnds(j) \/ LastFlush(j)
  \/ RetryReceive(j) \/ RetryFlush(j) \/ Tail(j)

Push(j) ==
  \/ Read(j) \/ PrefilterPush(j) \/ RetestReceive(j) \/ RetestEnds(j)
  \/ RetryRetest(j) \/ Score(j) \/ Upsert(j) \/ Export(j)
  \/ Cloudflare(j) \/ Github(j)

Both(j) == NoticeCancel(j) \/ Drain(j) \/ Drained(j) \/ RetryGate(j) \/ RetryEnds(j)

Work(j) == Benchmark(j) \/ Push(j) \/ Both(j)

PipeNext ==
  \/ \E h \in Handler : Ask(h) \/ Handle(h)
  \/ \E j \in Job : Work(j) \/ Panics(j) \/ Defers(j)

PipeSpec == PipeInit /\ [][PipeNext]_allVars

(***************************************************************************)
(* As in Jobs.  The pipelines need no more: the engine delivers every      *)
(* result, for each test it makes has a timeout, and so has every request. *)
(***************************************************************************)
PipeFairness ==
  /\ \A h \in Handler : WF_allVars(Handle(h))
  /\ \A j \in Job : WF_allVars(Work(j)) /\ WF_allVars(Defers(j))

PipeLiveSpec == PipeSpec /\ PipeFairness

-----------------------------------------------------------------------------
(* Properties *)

(* Every variable of the pipelines keeps to its values. *)
PipeTypeOK ==
  /\ TypeOK
  /\ kind \in [Job -> Kinds \cup {"none"}]
  /\ step \in [Job -> BenchSteps \cup PushSteps \cup {"out"}]
  /\ \A f \in {total, left, failed, buffer, kept, stored, lost} : f \in [Job -> Nat]
  /\ published \in [Job -> SUBSET Targets]

(***************************************************************************)
(* A worker that leaves its work other than by a panic has emptied the     *)
(* result stream (an engine goroutine would stay blocked on it for ever),  *)
(* and a benchmark has written out its buffer, on every way out.           *)
(***************************************************************************)
NothingLeftBehind ==
  \A j \in Job :
    worker[j] \notin {"none", "work"} /\ j \notin panicking
      => left[j] = 0 /\ (kind[j] = "benchmark" => buffer[j] = 0)

(***************************************************************************)
(* Every result a benchmark ever kept is in the buffer, in the database or *)
(* in a batch the database refused, through flushes, cancels and retries.  *)
(***************************************************************************)
NothingLost ==
  \A j \in Job : kind[j] = "benchmark" => kept[j] = stored[j] + lost[j] + buffer[j]

(***************************************************************************)
(* The buffer of a benchmark stays within one batch, also in the second    *)
(* pass, which starts with what the first one left (flush on every path).  *)
(***************************************************************************)
BatchBounded ==
  \A j \in Job :
    kind[j] = "benchmark" =>
      /\ buffer[j] <= BatchSize
      /\ step[j] \in {"stream", "drain", "lastFlush", "retry"} => buffer[j] < BatchSize
      /\ step[j] \in {"retryGate", "tail"} => buffer[j] = 0

(***************************************************************************)
(* A push that is cancelled before its check at the scoring publishes      *)
(* nothing, and one cancelled before its last check publishes nothing      *)
(* beyond the local file, although the second pass ignores the cancel.     *)
(***************************************************************************)
CancelStopsPublishing ==
  \A j \in Job :
    /\ [](j \in cancelled /\ step[j] \in BeforeScoring => [](published[j] = {}))
    /\ [](j \in cancelled /\ step[j] \in BeforePushing => [](published[j] \subseteq {"IP.txt"}))

(***************************************************************************)
(* The pipelines are the work of Jobs: every step of theirs is a step of   *)
(* the life cycle or none, and no worker stays at work for ever, in        *)
(* particular not when it drains the stream of a cancelled job.            *)
(***************************************************************************)
RefinesJobs == LiveSpec
=============================================================================
