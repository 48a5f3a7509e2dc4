# CF SpeedTest: specifications

TLA+ modules of the program in `src/`, the TLC configurations that check them
on small instances, and proofs for every size. Paths below are relative to
`src/`. `PROJECT.json` names, for every definition, the lines it stands for.

## 1. The system

CF SpeedTest collects candidate addresses of a CDN, measures them, stores the
good ones with a score in SQLite, and publishes the best as DNS records and as
a file on GitHub. One process does this from the command line, as a daemon with
timers, and on request from a dashboard; it can also update itself.

| part | code | state it keeps | operations | what is hard |
|---|---|---|---|---|
| dashboard jobs | `web/service.go`, `web/handlers.go` | tracker, job status, cancel channel, buffer of results | trigger, cancel, run, finish, notify | a cancel, a panic and the end of a worker meet; a stream that must be emptied |
| switch and loop of the schedule | `web/daemon.go`, `main.go:292-447` | active, a channel of one signal, two timers, the mode in memory and in `config.yaml` | toggle, save settings, timers, restart | five pieces of state changed one after the other without a lock |
| scheduled runs | `main.go:450-1128` | what a run has in hand | collect, push, push after a collection with retries | attempts that fail half way; the dashboard changes the table meanwhile |
| result store | `repository/sqlite.go`, `web/database_handler.go` | the table, its log and file, the backups | batches, purge, trim, clean-up, backup, clear, restore | a backup is a copy of a file that others write |
| test engine | `engine/*.go`, `geo/batch_verify.go` | worker pools, bounded channels | feed, measure, send, close | everybody may wait for everybody |
| push targets | `pusher/cloudflare.go`, `github.go`, `wxpusher.go` | records at Cloudflare, a file at GitHub | list, batch, delete, create | lost requests and replies, partial batches, two pushes |
| update manager | `updater/manager.go`, `checker.go`, `web/update_apply.go` | current state, cancel function, manifest, the channels of those who listen | check, apply, cancel, subscribe, broadcast | one gate that every phase rewrites; events told after the state has moved on, buffers that are full |
| installer | `updater/installer.go`, `state.go` | the program's file and `.bak`, `.new`, `.old`, the state file | replace, roll back, clean up at start | a crash or an error at any step |
| restart | `web/restart.go` | | systemd or fork and exec | a restart that fails unseen |
| downloader | `updater/downloader.go` | partial files | download with retries, resume, verify, remove | a partial file outlives its update and may be of another release |
| sessions | `web/auth.go` | tokens and expiry | login, validate, refresh, logout | nothing but expiry: each operation is one access to one map under its mutex |
| scoring | `scorer/scorer.go` | none | scores, choice per country | boundaries |
| address collection | `collector/*.go` | statistics of ranges, in memory and in a file | fetch the sources, share out the sample, cut down, rate the ranges | shares from fractions that must add up; a configuration overwritten between two reads; a file written in place; addresses of two origins |
| geolocation | `geo/*.go` | corrections, caches | look up, verify | |
| clean-up, configuration, log, output, pages | `cleanup`, `config`, `log`, `output`, `web/static` | | | |

How they interact: a handler starts a job as a goroutine; a job and a scheduled
run start an engine and read its channel to the end, write batches to the one
database connection, and build a pusher of their own for each publication. The
handlers of the database refuse to work beside a job, but know nothing of
scheduled runs. The toggle sends a signal to the loop; the loop runs a
collection or a push in its own goroutine and hears nothing meanwhile. The
update manager drives downloader and installer and calls the restart.

What makes each part correct, in short:

* jobs: one running job; every job ends and gives its slot back; a cancel ends
  it; results are neither lost nor left behind;
* schedule: the timers follow the mode, manual jobs and the schedule exclude
  each other, the mode survives a restart, a toggle does not hang;
* runs: one publication or one alarm, no address measured twice, the best is
  published;
* store: what a clear promises to be recoverable is;
* engine: each task answered once, nothing sent on a closed channel, nobody
  blocked for ever;
* Cloudflare: success means published, and kept records are not touched;
* update: one flow at a time, the state shown is that of the flow, it ends and
  its end is heard unless the server of a download goes silent, what is
  installed is the release announced as far as the manifest tells, and a
  program that can be started is left;
* collection: the shares of the ranges fit the sample, and what is left of it
  has configured ports, the count and the origin it should have.

## 2. The modules

```
Jobs  <--extends, implements--  JobPipelines    JobPipelinesProofs (of both)
UpdateFlow  <--implements--  UpdateManager      UpdateManagerProofs
UpdateFlow  <--extends--  UpdateProgress        UpdateProgressProofs
Installer  <--extends--  Packages               InstallerProofs (of both)
ResultStream  <--implements--  WorkerPool       WorkerPoolProofs
ResultStore  <--extends--  ScheduledRuns        RunsProofs (of these three)
Collection
Publish                                         PublishProofs
Daemon                                          DaemonProofs
MCScheduledRuns, MCCollection, MCPublish  --extend-->  the modules they instantiate
```

Definitions whose name ends in `Mutant` (and a number) stand before the
definition they vary. They are plausible bugs and no part of the model: with
one of them in place a property fails, which shows that it can.

**Jobs** is the life cycle of a job. A worker goes through work, cleanup,
finish, notify, recover and done, which are the body of `runBenchmark`, its
deferred calls and the recover of `startJob`. Handlers go through the lock, the
check and the creation, or through the pick, the close of the cancel channel
and the change of the status, each a step of its own, because the code holds
`triggerMu` for some of them and nothing for the others.

**JobPipelines** is the body: both pipelines, a step per effect on something
shared. Tasks and results are counted. Branches on the configuration are free,
because it may be changed during a run. `Receive` includes the check for a
cancel at the head of the loop: the two are not separated by anything shared.
It takes its life cycle from `Jobs`, names its own initial states and steps
with `Pipe`, and implements `Jobs` with its fairness (`RefinesJobs`, which is
`LiveSpec`).

**Daemon** has the switch, the loop and the handlers around them. Requests are
split where the code gives up `mu` or writes another piece of state. A run is
the time between `Fire` and `RunEnds`, in which the loop does not listen.
`crossed` notes that two requests have met since the process started: the code
has no lock around them, and what holds of requests that do not meet fails
otherwise (section 5).

**UpdateFlow** is what the dashboard relies on: an owner of the state, and the
phases in order. **UpdateManager** is the manager: `Apply`, `Check`, `Cancel`
with the steps between taking `cancelFunc` and calling it, `runUpdate` with all
its exits, the background check that may replace the manifest, and the restart.
`Hangs` is the transfer of a package without a cancel, the one wait that
nothing bounds.

**UpdateProgress** puts the listeners beside the updates of `UpdateFlow`: the
events that the goroutine of an update has yet to tell, the walk of `broadcast`
over the channels under the read lock of `subMu`, and the stream of each
request, which subscribes, hears, unsubscribes under the write lock and closes
its channel after that. The gate of `Apply` opens before the end of an update
is told, so that two updates may be telling at once.

**ResultStream** is what the consumers of a pool rely on, and what
`JobPipelines` assumes of the engine: one answer for every task, then the end.
**WorkerPool** is the four pools of the program, with their channels, their
capacities and the goroutine that closes the results. A channel is a set, since
several workers take from it. A panic of a worker ends the process and has no
step. The pools differ in who feeds, when the results are read, and in the
engine taking a concurrency of zero as it is.

**Publish** is `CloudflarePusher.Push` over the records of a name. A record is
the serial number of its address, so that one that was deleted and made again
is another. Cloudflare is external: requests may not arrive, replies may get
lost, a batch may be carried out in part, a listing may fail.

**ResultStore** is the table, the part of it in the database file (SQLite keeps
the rest in its log and may move it with any commit), the backups, and the
handlers, split at every statement and file operation. A copy during which the
file changes is `Broken`. A refusal beside a job changes nothing and has no
step. **ScheduledRuns** adds the runs, one step per statement; fetching,
measuring and scoring are the choice of a batch. `JobWrites` is a transaction
of a job of the dashboard, or of one that was cancelled and goes on: it may
fall between any two steps of a run, a clear or a restore. `new` marks a row
updated since the run began, which is what `skipAfter` compares.

**Installer** is the replacement of the program by renames and copies, a copy
being two steps with a torn file between them; and the process, which may stop
anywhere and starts again if there is a program to start. **Packages** adds the
way of a package to it: the attempts of `Download`, which resume what they find
under the name of the version, `Verify`, extraction and `Cleanup`. A package is
a sequence of pieces, each known by the release it came from, so that a file
resumed across releases is seen to be mixed. `name` and `asset` are read one
after the other and may be of different manifests, and `announced` says which
of size and digest the asset has: the checker takes it without either, and
`Verify` compares only what is there. What is extracted from a file of mixed
pieces, if anything can be, is the program of one of them.

**Collection** is a round of `FetchCategorized` with a goroutine per source,
and the statistics that share out the sample: fractions over a common
denominator, truncated as floating point may truncate them, for all ways of
truncating. The statistics grow, decay, are written in place, lost in a crash
and loaded again. Which addresses of a range are drawn is a choice; the origin
of each address is that of the code. The configuration is no variable of a
round: `setConfigHandler` overwrites it in place whenever it likes, so every
read of ports, `IPv4Count` and `MaxIPs` is a choice of its own among the
settings, the three reads by which a limit is applied included. `configRead`
notes what the merge has read. An `IPv4Count` of 0 asks 100 of ranges
(`DefaultCount`) and leaves a list uncut; a line that yields no address is a
range of size 0, with a share like any other.

## 3. The runs

| run | question | bounds |
|---|---|---|
| `jobs` | life cycle, exclusion, cancels, panics; every job whose channel is closed ends | 2 jobs, 2 handlers |
| `pipelines` | nothing lost or left behind, batches bounded, a cancel in time stops publishing, implements `Jobs` with its fairness | 1 job, 2 handlers, batches of 2, up to 3 tasks |
| `daemon` | unless two requests have met: timers follow the mode, manual jobs and the schedule exclude each other, the mode survives a restart; always: a toggle is answered and its signal heard | 2 handlers, failing saves, saved forms with the mode on, no `-daemon` |
| `update` | exclusion, true state, implements `UpdateFlow`, updates end, but for a silent server | 2 callers, 2 updates |
| `progress` | no send on a closed channel, only the end of an update is told late, who listens hears it, unless a download hangs | 1 stream, a buffer of 2, 2 updates |
| `pool` | each task once, no send on a closed channel, implements `ResultStream`, nobody stays behind | 4 tasks, 2 workers, all pools, also no worker |
| `publish` | success means published, kept records are not touched | 3 addresses, 2 pushes |
| `runs` | one publication or one alarm, no row measured twice, a clear is recoverable | 2 keys and one of a foreign port, 1 request, 2 attempts, one backup name; a transaction, a publication and a table of one row |
| `retry_loses_best` | a violation, see section 5 | 2 keys, 2 scores, 3 attempts |
| `install` | from the download on: the release announced, as far as size and digest are; a program survives, the answer is true, a left-over of an announced size spoils one update at most | 2 releases of 2 pieces, 2 attempts, both systems, with and without size and digest |
| `collection` | the shares fit; ports, count and origin of what is left, under a changing configuration | 2 ranges of 2 addresses, 1 custom source, 2 values of each setting at every read, 2 rounds |
| `small_ranges` | a violation, see section 5 | the same with 1 configuration |

Why the bounds are enough. Two jobs give every pair of interleaved workers; the
theorems hold for any number. Pipelines of different jobs share nothing but the
life cycle, which `Jobs` has with two; three tasks with batches of two give a
full batch, a rest, and both sides of 30% of failures. Three addresses are one
to delete, one to keep and one to create. Two keys with transactions of one row
give a write that fails half way. In `runs` two attempts instead of the
program's three give a first, a last and what is carried from one to the next.
With one backup name every backup overwrites the last one, the case that
matters. In `runs` one request at a time works on the database beside the
timers; the same invariants hold with two requests and one key of each kind
(2.5 million states), which is not a run of its own. Two releases give a file
of another release under a name, and an update on top of a replaced program
that has not restarted or has; two pieces give a part and a mixture; two
attempts of the program's three give a first, which may leave a part, and a
last. A stream with a buffer of two drops events at the third, and two updates
give a late end beside a new beginning; streams share nothing but the locks,
and the theorems hold for any number. A range is smaller than some of its
shares and larger than others; the configurations ask for more addresses than
there are ranges, or leave it to the default, as many as there are ranges, with
one port and with two, with and without a limit, and any read may find either;
a second round starts from the statistics of the first, saved or lost. Symmetry
is used in `publish` and `runs`, which have no liveness property.

`CHECK_DEADLOCK FALSE` is set where the instance really ends: all jobs, updates
or rounds of the instance have been, a pool has done its work, a push has
returned, an update has left no program to start. In `runs` and `daemon`
something is always possible.

Fairness. Weak fairness of the steps of a goroutine that can go on: the tests,
the requests and the phases that these steps stand for have timeouts or work on
finite files, an engine answers every task (`pool`), a handler runs to its end.
The download of a package is the exception: its client has no timeout and its
context no deadline (`updater/downloader.go:41`), so a silent server holds it
for ever. `UpdateManager` assumes no fairness of it until it is cancelled,
`UpdateProgress` none at all; `UpdatesEnd` and `EndIsHeard` except the update
that hangs there. In `Daemon` strong fairness of `Hear`, because Go's `select`
chooses at random among the ready cases, and of a sender on a channel that
becomes free again and again, because waiting senders are served in order.
In `UpdateProgress` strong fairness of `Step` outside the download, because
such a phase ends after finitely many events although each of them holds it up;
a broadcast never waits for a channel, and a stream goes on whenever it can.
Nothing is assumed of a user, a crash, or the replacement of the process.

## 4. The proofs

All are by an inductive invariant over `[Next]_vars`, one lemma for the steps
of each actor, for arbitrary constants.

* `JobPipelinesProofs`, of `Jobs`: type correctness, `AtMostOneRunning`,
  `SingleTracked`, `OverlapOnlyAfterCancel`, `GoneIsOver`, `CancelSticks`,
  `SuccessIsTrue`. The heart is `SlotFree`: between its check and its creation
  the handler that holds `triggerMu` (`MutexHeld`) may rely on the check,
  because nothing but creation makes a job running; all else that writes a
  status writes a terminal one. For `SuccessIsTrue`: what a worker is about to
  tell is the status it has found (`NoticeIsVerdict`), and only a late cancel
  or a panic changes that (`VerdictStands`).
* `JobPipelinesProofs`, of `JobPipelines`: every step of the pipelines is a
  step of `Jobs` or none, and so all that holds of jobs holds of them; it is
  stated again for the exclusion (`PipelineExclusion`). `PInv` has, for each
  job, what its place in the pipeline implies of the counts: where the stream
  is dry, where the buffer is empty, how kept results are accounted for; with
  it `NothingLeftBehind`, `NothingLost` and `BatchBounded` hold for any number
  of tasks and any size of a batch. `CancelStopsPublishing`, an action property
  with a history, follows from `Held`: a cancelled push stays before the
  publication it has not begun.
* `UpdateManagerProofs`: `OneAtATime`, `StateIsTheFlows` and the refinement of
  `UpdateFlow`. Needed beside them: a check, too, finds the state as it has set
  it (`StateIsTheChecks`), so that whoever owns the state keeps the gate
  closed; and a caller about to call a cancel function has one
  (`PickedIsSome`).
* `UpdateProgressProofs`: `NoSendOnClosed`, `OnlyEndsComeLate`, and that the
  updates are still those of `UpdateFlow`. The channels that a walk has yet to
  try are registered (`Walks`), and the registered ones are open
  (`Registered`), because both are changed under the two sides of one lock. An
  update that is over has at most its end to tell (`OnlyTheEnd`), and no event
  is of an update to come (`NoneAhead`).
* `DaemonProofs`: `TimersFollowMode`, `ManualExcludesActive` and
  `RestartKeepsMode`, for any number of handlers. As long as no two requests
  have met, one is served at a time (`Alone`); until its signal is sent a
  toggle carries the mode (`Carried`), and after that the signal that waits is
  the mode (`SignalIsTheMode`), so that a loop that has nothing to hear has
  timers to match (`Followed`). `RestartKeepsMode` needs that the file holds
  the mode, or a step that will write it is on its way (`FileIsTheMode`,
  `StoresTheMode`), and that the program is not started with `-daemon`.
* `WorkerPoolProofs`: `EachTaskOnce`, `NoSendOnClosed`, type correctness with
  the capacities of the channels, and the refinement of `ResultStream`. Beside
  the place of each task, `Endings` says that a worker leaves only when nothing
  is left to take and that the results are closed after the last one.
* `InstallerProofs`: `TypeOK`, `ProgramSurvives`, `OutcomeIsTrue`. Neither of
  the latter is inductive, because whether a step may destroy a file depends on
  what the others hold. Added are `Branches` (the steps of one system are never
  taken on the other), `Writers` (whoever writes the program file does not run
  it) and `Contents` (what the backup, the aside copy, the new file and the
  program hold at each stage). With downloads around it (`Packages`) an
  installation is still one of `Installer` (`Composition`), and so its theorems
  hold of whole updates. `OneRelease`, of the digest and of the size if they
  are announced, rests on the verified file being touched by nobody until it is
  installed, and `LeftoversGo` on every way out removing it, where only a
  transfer that could not be complete comes to nothing without a fault.
* `PublishProofs`: `TypeOK`, `SuccessMeansPublished`, `KeptThroughout`. A push
  that is alone is the only one at work (`Lonely`), so that a step need only be
  checked against what its own push believes. `Agrees` says what a listing is
  still worth after any part of a failed batch: a record that is kept is the
  known one, a surplus one is the known one or gone. `Progress` says what each
  loop of the fallback has achieved if it has met no error.
* `RunsProofs`, of `ScheduledRuns` and `ResultStore`: type correctness,
  `PublishedOrAlarmed`, `WrittenOnce`, `ClearIsRecoverable`. A clear may
  promise its backup because of what an undisturbed request knows
  (`CapturedBy`): after its checkpoint the file is the table, what it has read
  is the table, and so is the backup when it comes to the DELETE. Whether
  somebody else has committed, checkpointed or opened the same backup meanwhile
  is what `quiet` says, and each such step ends it. `PublishedOrAlarmed` needs
  that a run under way has done neither yet (`OutcomeIsOpen`), which rests on
  every way out of an attempt leading to its end or to a new attempt before the
  publication. `WrittenOnce` needs `Fresh`: what a collection or an earlier
  attempt has written is still marked as new or gone, and what is about to be
  written has not been; together they say that a retry, which leaves the new
  rows out, cannot meet them again.
* `RunsProofs`, of `Collection`: `SourcesKept` and `QuotasFit`. `CollectionInv`
  adds that all sets of tasks are finite and that a task carries its source
  (`OwnTasks`), so that the two sides are disjoint until they are cut; nothing
  is known of its port until the merge has checked it against the ports
  configured by then, and nothing is needed. The count follows from the three
  reads of `MaxIPs` only where they agree. `QuotasFit` is a fact about every
  history (`SharesFit`) and one about the statistics: they are histories,
  whatever is recorded, lost or loaded. The sums and products are folds,
  recursive functions over the subsets of the ranges. That such a function
  exists (`FoldExists`) and the laws of sums (`SumScaled`, `SumAdded`,
  `SumMonotone`, `SumConstant`, `SumAtOne`) are proved by induction in the form
  of a smallest counterexample: a set of subsets of a finite set has a minimal
  member (`Minimal`, from the well-foundedness of strict inclusion in the
  library), which needs no rule with a predicate as a parameter.

Assumptions: the "none" values are outside their sets, and so are a file
that does not exist and one that is no database (`FileAssumption`); no request
is named like the run (`RunAssumption`); tasks, workers, addresses, custom
sources, their lists and the ports of a configuration are finite sets; batches,
packages, attempts and ranges are not empty; versions and capacities are
natural numbers. They are assumptions of the modules, and TLC
evaluates them in the runs; `~DaemonFlag` is an assumption of one theorem.

Only model-checked: all liveness (`CancelTakesEffect`, `UpdatesEnd`,
`NobodyStaysBehind`, `ToggleIsAnswered`, `ToggleIsHeard`, `EndIsHeard`, the
fairness part of `RefinesJobs`), which this prover does not reach, having
neither `ENABLED` nor the proof rules of fairness. Every safety property that a
passing run checks is a theorem.

## 5. Where code and words differ

Shown by a run:

* `retry_loses_best`: an attempt of `pushAfterBenchmark` that fails half way
  has made the best rows new; the next one leaves them out (`main.go:1015`).
  The trace is of a run after a collection, with nobody else writing.
* `small_ranges`: a range that is no larger than its share is expanded for an
  empty list of ports and yields nothing (`collector/ipfetcher.go:587`; the
  comment says that it is expanded).

Seen while modelling, and in the models as the code has it:

* A cancel gives the slot back at once (`web/service.go:104`), so that the next
  job works beside the cancelled one; `OverlapOnlyAfterCancel` says no more. A
  cancel that comes late marks a job that had completed or failed
  (`web/handlers.go:335`), and the notification may have said success before
  (`web/service.go:1025`).
* The second pass starts at exactly 30% of failures (`web/service.go:545`; the
  comment above says more than 30%), and it ignores the cancel channel
  (`web/service.go:562`, `README.md:546`).
* Requests of the switch that meet are not ordered (`web/daemon.go:89`): two
  toggles may flip the mode in one order and send their signals in the other,
  so that the mode is on and no timer is armed; the check of a trigger and the
  step of a toggle cross (`web/daemon.go:121`), so that a manual job runs in
  the mode. The properties of `daemon` hold with `~crossed` and fail without. A
  manual job also runs beside a scheduled run that began before the mode was
  switched off (`web/handlers.go:255`).
* `nextTimeMulti` of a list of commas alone is the zero time, which passes
  `Validate` (`config/config.go:368`, `main.go:431`): the timer fires at once,
  again and again. So it does with an interval of 0 and no `collect_time`
  (`main.go:355`).
* `-daemon` on the command line overrides the saved mode at every start
  (`main.go:78`, `README.md:932`).
* `Cancel` takes the cancel function whatever the state
  (`updater/manager.go:150`), so that a call during the check has no effect and
  makes the download uncancellable: if the server then goes silent, the update
  stays in downloading until the process is restarted, as neither client nor
  context has a time limit (`updater/downloader.go:41`). In verification it is
  accepted and nothing looks at it any more (`updater/manager.go:339`). A
  `systemctl` that fails leaves the state at restarting (`web/restart.go:56`,
  `updater/manager.go:409`).
* `Apply` uses a manifest that the background check has left without comparing
  its version (`updater/manager.go:272`), and may take the asset from another
  one; the asset is what is verified, if it has a digest.
* Size and digest of a package are checked only where the manifest has them
  (`updater/downloader.go:265`, `:283`), and no manifest is refused for having
  none (`updater/checker.go:119`), although `README.md:556` speaks of checking
  both. With a size alone, a left-over of another release as long as the
  package, or a mixture, is installed; `OneRelease` says what is left.
* The end of an update is told after the gate has opened: a stream opened for
  the next update may be closed by the end of the last one, and an event, the
  last one included, is dropped where a buffer is full
  (`updater/manager.go:234`). `EndIsHeard` excepts both.
* A package whose size is not announced and whose file is complete is asked for
  again from its end; a server answers 416, the attempts are used up and the
  file stays, so that the next update fails likewise
  (`updater/downloader.go:106`, `:147`, `:173`). `LeftoversGo` needs a size.
* `MaxIPs` is read anew for each use (`collector/ipfetcher.go:173`, `:177`),
  and so is `IPv4Count` (`:99`, `:100`), while a request may overwrite them
  (`web/handlers.go:775`): raised in between beyond what there is, the slice
  panics, which ends a run and, for `IPv4Count`, in a goroutine without a
  recover, the process; set to 0 in between, no address is left. Ports changed
  during a fetch cost the tasks of the old ones. `SourcesKept` promises the
  count only where the reads of `MaxIPs` agree.
* A range for which nothing passes keeps its count of passed addresses as it
  was while that of the sampled ones decays, so that its hit rate may exceed 1;
  the ranges of custom sources are rated but never counted as sampled
  (`collector/cidr_stats.go:83`). `QuotasFit` holds of all that.
* The comment of `validate` says that it renews a session; it does not
  (`web/auth.go:60`). The scheduled push ignores the hybrid mode
  (`config/config.go:53`; only `web/service.go:863` selects by it).
* The engine with a concurrency of zero returns an empty stream and leaves its
  feeder blocked (`engine/benchmark.go:52`); `NobodyStaysBehind` excepts it.
* The mutex against pushes at the same time belongs to one pusher
  (`pusher/cloudflare.go:90-93`), and every push makes its own (`main.go:948`,
  `web/service.go:946`): two pushes do run together. `Publish` lets them, and
  promises something only to one that was alone.
* A clear answers that the data can be restored for five minutes
  (`web/database_handler.go:102`); a second backup in the same second
  (`repository/sqlite.go:401`) or a write between the checkpoint and the DELETE
  breaks that, be it of a run or of a job that was cancelled and goes on, and
  `ClearIsRecoverable` says so. A restore clears the table before it reads the
  backup (`repository/sqlite.go:483`).
* After a failed installation `.bak` is removed even if the copy back from it
  failed (`updater/installer.go:333-340`); `ProgramSurvives` excepts the one
  way this leaves Linux without a program, an update by a process that has
  replaced its file and was not restarted.
* A `.new` file is never cleaned up (`updater/state.go:106`, `README.md:566`),
  and a failed verification is not tried again (`updater/manager.go:339`,
  `README.md:564`).

## 6. Not modelled

The measurements, the answers of the sources of addresses and geolocation are
network I/O; a result of theirs is a choice. Scoring is floating-point
arithmetic. A session is created, found, and deleted by one access to a map
under its mutex; there is no sequence of steps to go wrong. Clean-up works on
files and processes of the operating system, and nothing registers a process
with it. Logs, pages, exports and the HTTP routing are formatting. The push to
GitHub is one read and one conditional write.

Left out of modules that exist: in `Publish`, a request carried out by
Cloudflare only after the client gave up on it, and the pages of a listing; in
`Installer`, extraction and the copies of resource files, whose failures are
only logged; in `Packages`, packages of different length; in `ResultStore`,
VACUUM, the automatic backup, and the deletion of results on request; in
`Daemon`, the clock and the lists of times, a timer being armed or not; in
`Collection`, parsing, the random numbers behind a sample, and a list of ports
read while its pointer and its length are of two configurations; in
`UpdateProgress`, the texts of the events and their rate.

## 7. Possible extensions

`nextTime` and the choices per country are pure functions that could be stated
with a reference definition. `Jobs` and `Daemon` could be composed, to replace
the one bit by which `Daemon` knows a job. `ScheduledRuns` could take its
batches from `Collection`, and its publication from `Publish`.
