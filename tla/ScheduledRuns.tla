--------------------------- MODULE ScheduledRuns ---------------------------
(***************************************************************************)
(* The runs of the timers, in the goroutine of runDaemon (src/main.go):    *)
(*                                                                         *)
(*   collect   runBenchmark, then pushAfterBenchmark                       *)
(*   push      rerunAndPush                                                *)
(*                                                                         *)
(* on the database of ResultStore, while the dashboard backs it up, clears *)
(* it and restores it.                                                     *)
(*                                                                         *)
(* A step is a statement on the database.  What a run does between two of  *)
(* them (fetching, filtering, measuring, scoring) shows in what it picks:  *)
(* the addresses it asks for and the scores of those that pass.            *)
(***************************************************************************)
EXTENDS ResultStore

CONSTANTS
  Foreign,    \* the keys whose port is not configured any more
  MaxDBSize,  \* max_db_size
  BatchSize,  \* rows in a transaction of BatchUpsert
  TopN,       \* rows that are published
  MaxRetries  \* attempts of pushAfterBenchmark

ASSUME RunAssumption ==
  /\ Foreign \subseteq Key /\ {MaxDBSize, BatchSize, TopN, MaxRetries} \subseteq Nat \ {0}
  /\ "run" \notin Handler

VARIABLES
  run,        \* what runs: nothing, "collect", its push ("after"), or "push"
  at,         \* the statement it is at
  batch,      \* the score of each row to be written, 0 of the others
  unwritten,  \* those of them that no transaction has had yet
  excess,     \* what TrimToMaxSize has counted
  attempt,    \* of pushAfterBenchmark
  wrote,      \* history: how often a key was written since the collection began
  rewritten,  \* history: the keys its push has written, whatever the attempt
  disturbed,  \* history: the dashboard has changed the table since the run began, and
              \* ends wrote and rewritten
  published,  \* history: the keys published in this run
  pushes,     \* history: how often it published
  alarm       \* the alarm has been sent

work    == <<batch, unwritten, excess, attempt>>
outcome == <<published, pushes, alarm>>
ghosts  == <<wrote, rewritten, disturbed>>
runVars == <<run, at, work, ghosts, outcome>>
vars    == <<storeVars, runVars>>

Ours  == Key \ Foreign
NoBatch == [k \in Key |-> 0]

Init ==
  /\ StoreInit
  /\ run = "nothing" /\ at = "idle"
  /\ batch = NoBatch /\ unwritten = {}
  /\ excess = 0 /\ attempt = 0
  /\ wrote = NoBatch /\ rewritten = {} /\ disturbed = FALSE
  /\ published = {} /\ pushes = 0 /\ alarm = FALSE

(* The rest of the database while the run executes a statement *)
Others == UNCHANGED <<files, second, doing, step, name>>
Read   == UNCHANGED <<store, copy, quiet>> /\ Others
Write(t) == Commit("run", t) /\ Others

(* Time passes: what was new when the last run ended is not any more. *)
Aged(t) == [k \in Key |-> [score |-> t[k].score, new |-> FALSE]]
AgedFile(f) == IF f \in {Absent, Broken} THEN f ELSE Aged(f)
TimePasses ==
  /\ rows' = Aged(rows) /\ file' = Aged(file)
  /\ backups' = [s \in Second |-> AgedFile(backups[s])]
  /\ promised' = [s \in Second |-> AgedFile(promised[s])]
  /\ copy' = [h \in Handler |-> AgedFile(copy[h])]
  /\ UNCHANGED <<second, doing, step, name, quiet>>

Start(what, where) ==
  /\ run = "nothing"
  /\ run' = what /\ at' = where
  /\ TimePasses
  /\ wrote' = NoBatch /\ rewritten' = {} /\ disturbed' = FALSE
  /\ published' = {} /\ pushes' = 0 /\ alarm' = FALSE
  /\ UNCHANGED work

NoWork == batch' = NoBatch /\ unwritten' = {} /\ excess' = 0 /\ attempt' = 0

(* The collection is over, well or not: its push is next. *)
EndCollect == run' = "after" /\ at' = "check" /\ NoWork /\ UNCHANGED <<ghosts, outcome>>
End == run' = "nothing" /\ at' = "idle" /\ NoWork
       /\ wrote' = NoBatch /\ UNCHANGED <<rewritten, disturbed>>
EndRun == End /\ UNCHANGED outcome
Continue(where) == at' = where /\ UNCHANGED <<run, work, ghosts, outcome>>

-----------------------------------------------------------------------------
(* runBenchmark *)

CollectDue == Start("collect", "purge") \/ Start("collect", "fetched nothing")

FetchedNothing == at = "fetched nothing" /\ Read /\ EndCollect

(* DeleteByPortsNotIn *)
Purge ==
  /\ at = "purge"
  /\ \/ Write(Drop(rows, Foreign)) /\ Continue("verify")
     \/ Read /\ EndCollect

(* CountByPortsNotIn, and once more what it finds; its own error is passed *)
(* over.                                                                   *)
VerifyPorts ==
  /\ at = "verify"
  /\ Read
  /\ \/ Continue("select")
     \/ KeysOf(rows) \cap Foreign # {} /\ Continue("purge again")

PurgeAgain ==
  /\ at = "purge again"
  /\ Write(Drop(rows, Foreign)) \/ Read
  /\ Continue("select")

(* Scores for the rows of ips that are measured and pass the rules *)
Measured(ips) == {b \in [Key -> 0 .. MaxScore] : \A k \in Key \ ips : b[k] = 0}
RowsOf(b) == {k \in Key : b[k] # 0}

Take(b) ==
  /\ batch' = b /\ unwritten' = RowsOf(b)
  /\ UNCHANGED <<run, excess, attempt, ghosts, outcome>>

(* GetValidIPs; the addresses that were fetched and need a test, those of  *)
(* them that answer and are in the countries wanted, and their scores      *)
Select ==
  /\ at = "select"
  /\ Read
  /\ \/ EndCollect
     \/ Continue("report")
     \/ Continue("cleanup")
     \/ at' = "write" /\ \E b \in Measured(Ours) : Take(b)

-----------------------------------------------------------------------------
(* BatchUpsert, in transactions of BatchSize rows, the best first *)

Lesser(m, n) == IF m < n THEN m ELSE n
Best(n, ks) == {c \in SUBSET ks : /\ Cardinality(c) = Lesser(n, Cardinality(ks))
                                  /\ \A k \in c, l \in ks \ c : batch[k] >= batch[l]}

WriteChunk ==
  /\ at = "write" /\ unwritten # {}
  /\ \E c \in Best(BatchSize, unwritten) :
       /\ Write([k \in Key |-> IF k \in c THEN [score |-> batch[k], new |-> TRUE] ELSE rows[k]])
       /\ unwritten' = unwritten \ c
       /\ wrote' = [k \in Key |-> IF k \in c /\ ~disturbed THEN Lesser(wrote[k] + 1, 2)
                                                          ELSE wrote[k]]
       /\ rewritten' = IF run = "collect" \/ disturbed THEN rewritten ELSE rewritten \cup c
  /\ UNCHANGED <<run, at, batch, excess, attempt, disturbed, outcome>>

Written == at = "write" /\ unwritten = {} /\ Read /\ Continue("count")

(* pushAfterBenchmark tries again, later, and alarms after the last time. *)
Failed ==
  \/ run = "push" /\ EndRun
  \/ /\ run = "after" /\ attempt < MaxRetries
     /\ at' = "read" /\ attempt' = attempt + 1
     /\ batch' = NoBatch /\ unwritten' = {}
     /\ UNCHANGED <<run, excess, ghosts, outcome>>
  \/ /\ run = "after" /\ attempt = MaxRetries
     /\ End /\ alarm' = TRUE /\ UNCHANGED <<published, pushes>>

(* A transaction fails: the collection goes on, a push does not. *)
WriteFails ==
  /\ at = "write" /\ unwritten # {}
  /\ Read
  /\ IF run = "collect" THEN Continue("count") ELSE Failed

(* TrimToMaxSize counts, *)
CountRows ==
  /\ at = "count"
  /\ Read
  /\ \/ /\ Cardinality(KeysOf(rows)) > MaxDBSize
        /\ excess' = Cardinality(KeysOf(rows)) - MaxDBSize
        /\ at' = "trim" /\ UNCHANGED <<run, batch, unwritten, attempt, ghosts, outcome>>
     \/ Continue(IF run = "collect" THEN "cleanup" ELSE "publish")

(* and deletes the worst of what is there by then. *)
Trim ==
  /\ at = "trim"
  /\ \/ \E worst \in SUBSET KeysOf(rows) :
          /\ Cardinality(worst) = Lesser(excess, Cardinality(KeysOf(rows)))
          /\ \A k \in worst, l \in KeysOf(rows) \ worst : rows[k].score <= rows[l].score
          /\ Write(Drop(rows, worst))
     \/ Read
  /\ Continue(IF run = "collect" THEN "cleanup" ELSE "publish")

(* CleanupOldData: whichever of the rows are past their retention *)
CleanupOld ==
  /\ at = "cleanup"
  /\ \E old \in SUBSET {k \in KeysOf(rows) : ~rows[k].new} : Write(Drop(rows, old))
  /\ Continue("report")

(* GetTopResultsByPorts and outputResults *)
Report == at = "report" /\ Read /\ EndCollect

-----------------------------------------------------------------------------
(* pushAfterBenchmark and rerunAndPush *)

CheckCount ==
  /\ at = "check"
  /\ Read
  /\ \/ EndRun
     \/ /\ KeysOf(rows) # {}
        /\ at' = "read" /\ attempt' = 1
        /\ UNCHANGED <<run, batch, unwritten, excess, ghosts, outcome>>

PushDue == Start("push", "read")

RetestedMutant == KeysOf(rows) \cap Ours
RetestedMutant2 == {k \in KeysOf(rows) : run = "after" => ~rows[k].new}
(* GetIPsByPorts; after a collection GetIPsByPortsBefore *)
Retested == {k \in KeysOf(rows) \cap Ours : run = "after" => ~rows[k].new}

ReadIPs ==
  /\ at = "read"
  /\ Read
  /\ \/ Failed
     \/ EndRun
     \/ at' = "write" /\ \E b \in Measured(Retested) : b # NoBatch /\ Take(b)

PublishMutant ==
  /\ at = "publish"
  /\ Read
  /\ \E top \in Best(TopN, RowsOf(batch)) : published' = top
  /\ pushes' = Lesser(pushes + 1, 2)
  /\ \/ End /\ UNCHANGED alarm
     \/ /\ run = "after" /\ attempt < MaxRetries
        /\ at' = "read" /\ attempt' = attempt + 1
        /\ UNCHANGED <<run, batch, unwritten, excess, ghosts, alarm>>

Publish ==
  /\ at = "publish"
  /\ Read
  /\ \E top \in Best(TopN, RowsOf(batch)) : published' = top
  /\ pushes' = Lesser(pushes + 1, 2)
  /\ End /\ UNCHANGED alarm

-----------------------------------------------------------------------------
RunStep ==
  \/ CollectDue \/ FetchedNothing \/ Purge \/ VerifyPorts \/ PurgeAgain \/ Select
  \/ WriteChunk \/ Written \/ WriteFails \/ CountRows \/ Trim \/ CleanupOld \/ Report
  \/ CheckCount \/ PushDue \/ ReadIPs \/ Publish

(* A job of the dashboard writes a transaction.  The handlers of the       *)
(* database have looked for a running job before they began, and do not    *)
(* see the worker of a cancelled one, which writes what it has in hand.    *)
JobWrites ==
  \E c \in SUBSET Ours : \E scores \in [c -> 1 .. MaxScore] :
    /\ Cardinality(c) \in 1 .. BatchSize
    /\ Write([k \in Key |-> IF k \in c THEN [score |-> scores[k], new |-> TRUE] ELSE rows[k]])

(* What the dashboard does meanwhile *)
Dashboard ==
  /\ StoreStep \/ JobWrites
  /\ disturbed' = (disturbed \/ rows' # rows)
  /\ wrote' = IF disturbed' THEN NoBatch ELSE wrote
  /\ rewritten' = IF disturbed' THEN {} ELSE rewritten
  /\ UNCHANGED <<run, at, work, outcome>>

Next == RunStep \/ Dashboard

Spec == Init /\ [][Next]_vars

-----------------------------------------------------------------------------
Points == {"idle", "fetched nothing", "purge", "verify", "purge again", "select", "write",
           "count", "trim", "cleanup", "report", "check", "read", "publish"}

(* Every variable holds a value of its type. *)
TypeOK ==
  /\ StoreTypeOK
  /\ run \in {"nothing", "collect", "after", "push"} /\ at \in Points
  /\ (run = "nothing") = (at = "idle")
  /\ batch \in [Key -> 0 .. MaxScore] /\ unwritten \subseteq RowsOf(batch)
  /\ excess \in Nat /\ attempt \in 0 .. MaxRetries
  /\ wrote \in [Key -> 0 .. 2] /\ {disturbed, alarm} \subseteq BOOLEAN
  /\ {rewritten, published} \subseteq SUBSET Ours /\ pushes \in 0 .. 2

(* A run publishes once at most, whatever it tries again, and an alarm     *)
(* means that it has published nothing (main.go:995-1047).                 *)
PublishedOrAlarmed == pushes <= 1 /\ (alarm => pushes = 0)

(* From the start of a collection to the end of its push no row is written *)
(* twice: what the collection has measured, or a failed attempt has        *)
(* written, is not measured again (main.go:347, 796-803).                  *)
WrittenOnce ==
  run \in {"collect", "after"} /\ ~disturbed => \A k \in Key : wrote[k] <= 1

(* The best of what a push has measured and stored, in all its attempts,   *)
(* is what it publishes (main.go:779-780, "measure and score them again, sort *)
(* by score, write the first 50", leaving out those "just collected").     *)
BestIsPublished ==
  pushes = 1 /\ ~disturbed =>
    \A k \in published, l \in rewritten \ published :
      k \in KeysOf(rows) => rows[k].score >= rows[l].score
=============================================================================
