---------------------------- MODULE ResultStore ----------------------------
(***************************************************************************)
(* The database of results and the handlers of the dashboard that back it  *)
(* up, clear it and restore it.                                            *)
(*                                                                         *)
(*   BackupDB, ClearAllData, RestoreFromBackup  (src/repository/sqlite.go) *)
(*   backupDatabaseHandler, clearDatabaseHandler, restoreDatabaseHandler   *)
(*                                           (src/web/database_handler.go) *)
(*                                                                         *)
(* The pool has one connection, so that a statement or a transaction is    *)
(* one step.  SQLite keeps what is committed in a write-ahead log and may  *)
(* move it to the database file with any commit: a backup copies the file. *)
(*                                                                         *)
(* The handlers refuse to work beside a job of the dashboard.  A refusal   *)
(* changes nothing and has no step; the scheduled runs are not jobs, and   *)
(* nothing keeps them away (ScheduledRuns).                                *)
(***************************************************************************)
EXTENDS Naturals, FiniteSets

CONSTANTS
  Key,       \* ip:port
  MaxScore,  \* scores are 1 .. MaxScore
  Handler,   \* requests to the database API at a time
  LastSecond, \* bound: the backups of the seconds 1 .. LastSecond
  Absent,    \* there is no such file
  Broken     \* a file that is not a whole database

ASSUME StoreAssumption ==
  IsFiniteSet(Key) /\ MaxScore \in Nat /\ LastSecond \in Nat \ {0} /\ Absent # Broken

VARIABLES
  rows,      \* the table: what is committed
  file,      \* what of it is in the database file
  backups,   \* the backup of each second: its name has no finer resolution
  promised,  \* history: what a clear has announced to be recoverable from it
  second,    \* of the latest backup
  doing,     \* the request of each handler
  step,      \* how far it is
  name,      \* its backup
  copy,      \* what it has read of the database file
  quiet      \* history: nobody has interfered with it

store   == <<rows, file>>
files   == <<backups, promised>>
handler == <<doing, step, name, copy, quiet>>
storeVars == <<store, files, second, handler>>

Second == 1 .. LastSecond
NoRow  == [score |-> 0, new |-> FALSE]
Row    == [score : 1 .. MaxScore, new : BOOLEAN] \cup {NoRow}
Table  == [Key -> Row]
Empty  == [k \in Key |-> NoRow]

ASSUME FileAssumption == Absent \notin Table /\ Broken \notin Table

KeysOf(t) == {k \in Key : t[k] # NoRow}
Drop(t, gone) == [k \in Key |-> IF k \in gone THEN NoRow ELSE t[k]]

StoreInit ==
  /\ rows \in [Key -> [score : 1 .. MaxScore, new : {FALSE}] \cup {NoRow}]
  /\ file = rows
  /\ backups = [s \in Second |-> Absent]
  /\ promised = [s \in Second |-> Absent]
  /\ second = 1
  /\ doing = [h \in Handler |-> "nothing"]
  /\ step = [h \in Handler |-> "idle"]
  /\ name = [h \in Handler |-> 1]
  /\ copy = [h \in Handler |-> Absent]
  /\ quiet = [h \in Handler |-> TRUE]

Go(h, where) == step' = [step EXCEPT ![h] = where] /\ UNCHANGED <<doing, name>>
Reply(h) ==
  /\ step' = [step EXCEPT ![h] = "idle"]
  /\ doing' = [doing EXCEPT ![h] = "nothing"]
  /\ name' = [name EXCEPT ![h] = 1]

(* From the checkpoint to the end of a clear *)
Backing == {"create", "copy", "clear"}

(* A committed statement or transaction of h, or of whoever is no handler, *)
(* leaves t.  If the log is moved to the file while somebody copies it,    *)
(* the copy is no database.                                                *)
Commit(h, t) ==
  /\ rows' = t
  /\ file' \in {file, t}
  /\ copy' = [g \in Handler |-> IF file' # file /\ copy[g] # Absent THEN Broken ELSE copy[g]]
  /\ quiet' = [g \in Handler |-> g = h \/ (quiet[g] /\ (t = rows \/ step[g] \notin Backing))]

(* h works on the backup of second s, and so may others. *)
WorksOn(g, s) == step[g] \in {"copy", "clear"} /\ name[g] = s
Disturb(h, s) ==
  quiet' = [g \in Handler |-> /\ quiet[g]
                              /\ g # h => ~WorksOn(g, s)
                              /\ g = h => \A o \in Handler \ {h} : ~WorksOn(o, s)]

-----------------------------------------------------------------------------
(* BackupDB, for a request of its own or ahead of a clear *)

BeginBackup(h) ==
  /\ step[h] = "idle"
  /\ doing' \in {[doing EXCEPT ![h] = what] : what \in {"backup", "clear"}}
  /\ step' = [step EXCEPT ![h] = "checkpoint"]
  /\ quiet' = [quiet EXCEPT ![h] = TRUE]
  /\ UNCHANGED <<store, files, second, name, copy>>

CheckpointMutant(h) ==
  /\ step[h] = "checkpoint"
  /\ Go(h, "create")
  /\ UNCHANGED <<store, files, second, copy, quiet>>

(* PRAGMA wal_checkpoint(TRUNCATE) *)
Checkpoint(h) ==
  /\ step[h] = "checkpoint"
  /\ file' = rows
  /\ copy' = [g \in Handler |-> IF file' # file /\ copy[g] # Absent THEN Broken ELSE copy[g]]
  /\ Go(h, "create")
  /\ UNCHANGED <<rows, files, second, quiet>>

(* The name is the second of the clock, at or after that of the last one;  *)
(* os.Create empties a backup of the same second.                          *)
CreateFile(h) ==
  /\ step[h] = "create"
  /\ second' \in second .. LastSecond
  /\ step' = [step EXCEPT ![h] = "copy"]
  /\ name' = [name EXCEPT ![h] = second']
  /\ backups' = [backups EXCEPT ![second'] = Broken]
  /\ promised' = [promised EXCEPT ![second'] = Absent]
  /\ copy' = [copy EXCEPT ![h] = file]
  /\ Disturb(h, second')
  /\ UNCHANGED <<store, doing>>

(* Two handlers that copy to one name may leave their bytes mixed; a file  *)
(* that has been deleted meanwhile stays so.                               *)
Bytes(h) == {copy[h]} \cup
  {Broken : g \in {o \in Handler \ {h} : /\ step[o] = "copy" /\ name[o] = name[h]
                                         /\ copy[o] # copy[h]}}
CopyFile(h) ==
  /\ step[h] = "copy"
  /\ \E left \in Bytes(h) : backups' = [backups EXCEPT ![name[h]] = IF @ = Absent THEN @ ELSE left]
  /\ promised' = [promised EXCEPT ![name[h]] = Absent]
  /\ Disturb(h, name[h])
  /\ copy' = [copy EXCEPT ![h] = Absent]
  /\ IF doing[h] = "clear" THEN Go(h, "clear") ELSE Reply(h)
  /\ UNCHANGED <<store, second>>

-----------------------------------------------------------------------------
(* ClearAllData, at the end of a clear: the answer names the backup and    *)
(* says that the data can be recovered.                                    *)
ClearAll(h) ==
  /\ step[h] = "clear"
  /\ Commit(h, Empty)
  /\ promised' = [promised EXCEPT ![name[h]] = IF quiet[h] THEN rows ELSE @]
  /\ Reply(h)
  /\ UNCHANGED <<backups, second>>

(* restoreDatabaseHandler finds the backup among the files; the data of    *)
(* the moment goes first.                                                  *)
BeginRestore(h) ==
  /\ step[h] = "idle"
  /\ doing' = [doing EXCEPT ![h] = "restore"]
  /\ \E s \in Second : backups[s] # Absent /\ name' = [name EXCEPT ![h] = s]
  /\ step' = [step EXCEPT ![h] = "wipe"]
  /\ UNCHANGED <<store, files, second, copy, quiet>>

Wipe(h) ==
  /\ step[h] = "wipe"
  /\ Commit(h, Empty)
  /\ Go(h, "insert")
  /\ UNCHANGED <<files, second>>

(* INSERT ... SELECT, which takes no row that is there already. *)
Insert(h) ==
  LET saved == backups[name[h]] IN
  /\ step[h] = "insert"
  /\ saved \notin {Absent, Broken}
  /\ KeysOf(saved) \cap KeysOf(rows) = {}
  /\ Commit(h, [k \in Key |-> IF saved[k] # NoRow THEN saved[k] ELSE rows[k]])
  /\ Reply(h)
  /\ UNCHANGED <<files, second>>

(* Any step may fail and ends the request with an error.  What it did      *)
(* remains: an unfinished backup, an empty table.                          *)
GiveUp(h) ==
  /\ step[h] # "idle"
  /\ Reply(h)
  /\ copy' = [copy EXCEPT ![h] = Absent]
  /\ quiet' = [quiet EXCEPT ![h] = TRUE]
  /\ UNCHANGED <<store, files, second>>

(* deleteBackupHandler *)
DeleteBackup(h) ==
  /\ step[h] = "idle"
  /\ \E s \in Second :
       /\ backups[s] # Absent
       /\ backups' = [backups EXCEPT ![s] = Absent]
       /\ promised' = [promised EXCEPT ![s] = Absent]
       /\ Disturb(h, s)
  /\ UNCHANGED <<store, second, doing, step, name, copy>>

HandlerStep(h) ==
  \/ BeginBackup(h) \/ Checkpoint(h) \/ CreateFile(h) \/ CopyFile(h) \/ ClearAll(h)
  \/ BeginRestore(h) \/ Wipe(h) \/ Insert(h) \/ GiveUp(h) \/ DeleteBackup(h)

StoreStep == \E h \in Handler : HandlerStep(h)

-----------------------------------------------------------------------------
StoreTypeOK ==
  /\ {rows, file} \subseteq Table
  /\ backups \in [Second -> Table \cup {Absent, Broken}]
  /\ promised \in [Second -> Table \cup {Absent}]
  /\ second \in Second
  /\ doing \in [Handler -> {"nothing", "backup", "clear", "restore"}]
  /\ step \in [Handler -> {"idle", "checkpoint", "create", "copy", "clear", "wipe", "insert"}]
  /\ name \in [Handler -> Second]
  /\ copy \in [Handler -> Table \cup {Absent, Broken}]
  /\ quiet \in [Handler -> BOOLEAN]
  /\ \A h \in Handler : (copy[h] = Absent) = (step[h] # "copy")

(* Once a clear has answered, the backup it names holds every row it has   *)
(* deleted, until that backup is deleted or another one is taken in the    *)
(* same second; only a write between the checkpoint and the DELETE, or a   *)
(* second request working on the same file, may have spoilt it             *)
(* (database_handler.go:71-102, "cleared, can be restored").               *)
ClearIsRecoverable ==
  \A s \in Second : promised[s] # Absent => backups[s] = promised[s]
=============================================================================
