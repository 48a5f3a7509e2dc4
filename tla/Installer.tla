----------------------------- MODULE Installer -----------------------------
(***************************************************************************)
(* Replacing the program by a new version of itself, on the files beside   *)
(* it, with failures and crashes anywhere.                                 *)
(*                                                                         *)
(*   Installer.Install, replaceBinaryLinux, replaceBinaryWindows, copyFile *)
(*                                          (src/updater/installer.go)     *)
(*   SaveState, CleanupOnStartup            (src/updater/state.go)         *)
(*                                                                         *)
(* A copy truncates its target, writes it and syncs it: two steps, and     *)
(* between them the target is torn.  A rename is one step.  Neither system *)
(* lets the file of a running program be written: Linux lets it be         *)
(* replaced by a rename, Windows lets it be renamed.                       *)
(***************************************************************************)
EXTENDS Naturals

CONSTANTS
  LastVersion, \* bound: versions 0 .. LastVersion are released
  None,        \* there is no such file
  Torn         \* a file that is not a whole program

Version == 0 .. LastVersion

ASSUME InstallerAssumption ==
  LastVersion \in Nat /\ None \notin Version /\ Torn \notin Version /\ None # Torn

VARIABLES
  platform,  \* "linux" or "windows"
  exe, bak, new, old, \* the program, and the files of its name and .bak, .new, .old
  noted,     \* update_state.json names the .old file
  running,   \* which of the files the running program is; "unlinked"; "down"
  at,        \* where Install is
  target,    \* the version it installs
  before,    \* history: the program it found
  result,    \* what it returned last
  stale      \* history: the program was replaced before and has not restarted

program == <<exe, bak, new, old>>
vars == <<platform, program, noted, running, at, target, before, result, stale>>

Init ==
  /\ platform \in {"linux", "windows"}
  /\ exe = 0 /\ bak = None /\ new = None /\ old = None /\ noted = FALSE
  /\ running = "exe"
  /\ at = "idle" /\ target = 0 /\ before = 0 /\ result = "none" /\ stale = FALSE

Go(where) == at' = where /\ UNCHANGED <<platform, target, before, result, stale>>
Return(what) == at' = "idle" /\ result' = what /\ UNCHANGED <<platform, target, before, stale>>

(* The package of version v has been downloaded, verified and extracted;   *)
(* the cached manifest may name any version.                               *)
Begin(v) ==
  /\ at = "idle" /\ running # "down"
  /\ at' = "backup" /\ target' = v
  /\ before' = exe
  /\ stale' = (running # "exe")
  /\ UNCHANGED <<platform, program, noted, running, result>>

-----------------------------------------------------------------------------
(* The copy to .bak *)

BackupOpens ==
  /\ at = "backup"
  /\ \/ bak' = Torn /\ Go("backing up")
     \/ bak' = bak /\ Return("failed")
  /\ UNCHANGED <<exe, new, old, noted, running>>

BackupEnds ==
  /\ at = "backing up"
  /\ \/ bak' = exe /\ Go("replace")
     \/ bak' = bak /\ Return("failed")
  /\ UNCHANGED <<exe, new, old, noted, running>>

-----------------------------------------------------------------------------
(* replaceBinaryLinux *)

NewOpens ==
  /\ at = "replace" /\ platform = "linux"
  /\ \/ new' = Torn /\ Go("writing new")
     \/ new' = new /\ Go("roll back")
  /\ UNCHANGED <<exe, bak, old, noted, running>>

NewEndsMutant ==
  /\ at = "writing new"
  /\ \/ new' = target /\ Go("rename")
     \/ new' = new /\ Go("rename")
  /\ UNCHANGED <<exe, bak, old, noted, running>>

NewEnds ==
  /\ at = "writing new"
  /\ \/ new' = target /\ Go("rename")
     \/ new' = new /\ Go("roll back")
  /\ UNCHANGED <<exe, bak, old, noted, running>>

Replaced == running' = IF running = "exe" THEN "unlinked" ELSE running

Rename ==
  /\ at = "rename"
  /\ \/ exe' = new /\ new' = None /\ Replaced /\ Go("installed")
     \/ new' = None /\ Go("roll back") /\ UNCHANGED <<exe, running>>
     \/ Go("roll back") /\ UNCHANGED <<exe, new, running>>
  /\ UNCHANGED <<bak, old, noted>>

-----------------------------------------------------------------------------
(* replaceBinaryWindows *)

(* An .old file that is left over goes, unless it is the one that runs. *)
RemoveOld ==
  /\ at = "replace" /\ platform = "windows"
  /\ old' \in {old} \cup {f \in {None} : running # "old"}
  /\ Go("set aside")
  /\ UNCHANGED <<exe, bak, new, noted, running>>

SetAside ==
  /\ at = "set aside"
  /\ \/ /\ running # "old"
        /\ old' = exe /\ exe' = None
        /\ running' = IF running = "exe" THEN "old" ELSE running
        /\ Go("write exe")
     \/ UNCHANGED <<exe, old, running>> /\ Go("roll back")
  /\ UNCHANGED <<bak, new, noted>>

ExeOpens ==
  /\ at = "write exe"
  /\ \/ exe' = Torn /\ Go("writing exe")
     \/ exe' = exe /\ Go("put back")
  /\ UNCHANGED <<bak, new, old, noted, running>>

ExeEnds ==
  /\ at = "writing exe"
  /\ \/ exe' = target /\ Go("note")
     \/ exe' = exe /\ Go("put back")
  /\ UNCHANGED <<bak, new, old, noted, running>>

PutBack ==
  /\ at = "put back"
  /\ \/ /\ exe' = old /\ old' = None
        /\ running' = IF running = "old" THEN "exe" ELSE running
     \/ UNCHANGED <<exe, old, running>>
  /\ Go("roll back")
  /\ UNCHANGED <<bak, new, noted>>

NoteMutant ==
  /\ at = "note"
  /\ \/ noted' = TRUE /\ Go("installed")
     \/ noted' = noted /\ Go("roll back")
  /\ UNCHANGED <<program, running>>

(* SaveState, whose file appears at once or not at all *)
Note ==
  /\ at = "note"
  /\ noted' \in {noted, TRUE}
  /\ Go("installed")
  /\ UNCHANGED <<program, running>>

-----------------------------------------------------------------------------
(* Install again *)

(* The copy back from .bak cannot touch the file of the running program. *)
RollBackOpens ==
  /\ at = "roll back"
  /\ \/ running # "exe" /\ exe' = Torn /\ Go("rolling back")
     \/ exe' = exe /\ Go("drop backup")
  /\ UNCHANGED <<bak, new, old, noted, running>>

RollBackEnds ==
  /\ at = "rolling back"
  /\ exe' \in {bak, Torn}
  /\ Go("drop backup")
  /\ UNCHANGED <<bak, new, old, noted, running>>

(* The backup goes, whatever became of the copy back. *)
DropBackup ==
  /\ at = "drop backup"
  /\ bak' \in {None, bak}
  /\ Return("failed")
  /\ UNCHANGED <<exe, new, old, noted, running>>

Succeed ==
  /\ at = "installed"
  /\ bak' \in IF platform = "windows" THEN {bak} ELSE {None, bak}
  /\ Return("ok")
  /\ UNCHANGED <<exe, new, old, noted, running>>

-----------------------------------------------------------------------------
(* The process *)

(* It ends: by the restart after an update, by one that was asked for, or  *)
(* by a crash anywhere.                                                    *)
Stop ==
  /\ running # "down"
  /\ running' = "down"
  /\ at' = "idle"
  /\ result' = IF at = "idle" THEN result ELSE "none"
  /\ UNCHANGED <<platform, program, noted, target, before, stale>>

(* Whatever starts it runs the file, if that is a program; then            *)
(* CleanupOnStartup, where removing the .old file or the note may fail.    *)
Start ==
  /\ running = "down" /\ exe \in Version
  /\ running' = "exe"
  /\ old' \in {old} \cup {f \in {None} : noted} /\ noted' \in {noted, FALSE}
  /\ stale' = FALSE
  /\ UNCHANGED <<platform, exe, bak, new, at, target, before, result>>

-----------------------------------------------------------------------------
OnLinux   == NewOpens \/ NewEnds \/ Rename
OnWindows == RemoveOld \/ SetAside \/ ExeOpens \/ ExeEnds \/ PutBack \/ Note
Install   == \/ BackupOpens \/ BackupEnds \/ OnLinux \/ OnWindows
             \/ RollBackOpens \/ RollBackEnds \/ DropBackup \/ Succeed

Next == (\E v \in Version : Begin(v)) \/ Install \/ Stop \/ Start

Spec == Init /\ [][Next]_vars

-----------------------------------------------------------------------------
Points == {"idle", "backup", "backing up", "replace", "writing new", "rename", "set aside",
           "write exe", "writing exe", "put back", "note", "roll back", "rolling back",
           "drop backup", "installed"}
File == Version \cup {None, Torn}

(* Every variable holds a value of its type, the files that run are        *)
(* programs, and one that is reported as installed is in place.            *)
TypeOK ==
  /\ platform \in {"linux", "windows"}
  /\ {exe, bak, new, old} \subseteq File
  /\ noted \in BOOLEAN /\ stale \in BOOLEAN
  /\ running \in {"exe", "old", "unlinked", "down"}
  /\ at \in Points /\ {target} \subseteq Version /\ before \in File
  /\ result \in {"none", "ok", "failed"}
  /\ running = "exe" => exe \in Version
  /\ running = "old" => old \in Version
  /\ at \in {"note", "installed"} => exe = target

(* Whatever fails and wherever the process dies, a whole program is left   *)
(* in the file, in its backup or in the .old file, and on Linux it is the  *)
(* file itself, so that the service starts again.  The exception there is  *)
(* an update by a process that had replaced its file before and was not    *)
(* restarted: a failed copy back may tear the file, and the backup is      *)
(* removed all the same (installer.go:328-340).                            *)
ProgramSurvives ==
  \/ platform = "linux" /\ stale
  \/ IF platform = "linux" THEN exe \in Version ELSE {exe, bak, old} \cap Version # {}

(* The file tells the truth about the answer: after a success it holds the *)
(* new version, after a failure never (README.md:565, "rolls back on       *)
(* failure").                                                              *)
OutcomeIsTrue ==
  at = "idle" => /\ result = "ok" => exe = target
                 /\ result = "failed" => exe \in {before, None, Torn}

=============================================================================
