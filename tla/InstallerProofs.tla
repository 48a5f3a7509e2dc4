--------------------------- MODULE InstallerProofs ---------------------------
(***************************************************************************)
(* A whole program survives every update, its answer is true, and what is  *)
(* installed is the release that was announced, for any number of versions *)
(* and any size of the packages.                                           *)
(***************************************************************************)
EXTENDS Packages, TLAPS

(* Where the program is set aside under Windows *)
Aside == {"write exe", "writing exe", "put back"}

(* An installation that has its backup and is not done *)
Open == {"replace", "writing new", "rename", "set aside", "roll back", "rolling back",
         "drop backup"} \cup Aside

(* Each branch belongs to its system.                                      *)
Branches ==
  /\ platform = "linux" => /\ at \notin Aside \cup {"set aside", "note"}
                           /\ running # "old"
  /\ platform = "windows" => /\ at \notin {"writing new", "rename"}
                             /\ running # "unlinked"

(* A process that installs is not down, and only one whose file is not the *)
(* program's runs while that is written.                                   *)
Writers ==
  /\ at # "idle" => running # "down"
  /\ at \in Aside \cup {"rolling back", "note"} => running # "exe"
  /\ platform = "linux" /\ ~stale /\ at \notin {"idle", "installed"} => running = "exe"

(* What the files hold on the way *)
Contents ==
  /\ at \in Open => bak = before
  /\ at \in Aside => old = before
  /\ at = "rename" => new = target
  /\ at \in {"backup", "backing up"} => exe = before
  /\ at \in Open => exe \in {before, None, Torn}

IInv == TypeOK /\ ProgramSurvives /\ OutcomeIsTrue /\ Branches /\ Writers /\ Contents

-----------------------------------------------------------------------------
(* One program among the files is enough. *)
LEMMA OneSurvives ==
  ASSUME exe \in Version \/ (platform # "linux" /\ (bak \in Version \/ old \in Version))
  PROVE  ProgramSurvives
BY DEF ProgramSurvives

(* It holds of the first version, running. *)
LEMMA InitIInv == Init => IInv
<1> SUFFICES ASSUME Init PROVE IInv
  OBVIOUS
<1>1. 0 \in Version
  BY InstallerAssumption DEF Version
<1>2. TypeOK
  BY <1>1 DEF Init, TypeOK, File, Points
<1>3. ProgramSurvives
  BY <1>1, OneSurvives DEF Init
<1>4. OutcomeIsTrue /\ Branches /\ Writers /\ Contents
  BY DEF Init, OutcomeIsTrue, Branches, Writers, Contents, Open, Aside
<1> QED BY <1>2, <1>3, <1>4 DEF IInv

-----------------------------------------------------------------------------
(* An installation begins. *)
LEMMA BeginIInv == ASSUME IInv, NEW v \in Version, Begin(v) PROVE IInv'
<1> USE DEF IInv, Begin, program
<1>2. TypeOK'
  BY DEF TypeOK, Points, File
<1>3. (OutcomeIsTrue /\ Branches /\ Writers /\ Contents)'
  BY DEF TypeOK, OutcomeIsTrue, Branches, Writers, Contents, Open, Aside
<1>4. ProgramSurvives'
  BY DEF ProgramSurvives, TypeOK, Branches
<1> QED BY <1>2, <1>3, <1>4

(* The copy to .bak leaves the program alone. *)
LEMMA BackupIInv ==
  ASSUME IInv, BackupOpens \/ BackupEnds
  PROVE  IInv'
<1> USE InstallerAssumption DEF IInv, Go, Return, program, BackupOpens, BackupEnds
<1>1. TypeOK'
  BY DEF TypeOK, File, Points, Branches, Writers, Contents, Aside
<1>2. OutcomeIsTrue'
  BY DEF OutcomeIsTrue, TypeOK, Contents, Branches, Writers, Open, Aside
<1>3. Branches'
  BY DEF Branches, Aside
<1>4. Writers'
  BY DEF Writers, Branches, Aside
<1>5. Contents'
  BY DEF Contents, TypeOK, Branches, Writers, Open, Aside
<1>6. ProgramSurvives'
  BY DEF ProgramSurvives, TypeOK, Branches, Writers, Contents, Open, Aside
<1> QED BY <1>1, <1>2, <1>3, <1>4, <1>5, <1>6

(* Linux: a rename puts the new program in the place of the old. *)
LEMMA LinuxIInv ==
  ASSUME IInv, OnLinux
  PROVE  IInv'
<1> USE InstallerAssumption DEF IInv, Go, Return, program, OnLinux,
             NewOpens, NewEnds, Rename, Replaced
<1>1. TypeOK'
  BY DEF TypeOK, File, Points, Branches, Writers, Contents, Aside
<1>2. OutcomeIsTrue'
  BY DEF OutcomeIsTrue, TypeOK, Contents, Branches, Writers, Open, Aside
<1>3. Branches'
  BY DEF Branches, Aside
<1>4. Writers'
  BY DEF Writers, Branches, Aside
<1>5. Contents'
  BY DEF Contents, TypeOK, Branches, Writers, Open, Aside
<1>6. ProgramSurvives'
  BY DEF ProgramSurvives, TypeOK, Branches, Writers, Contents, Open, Aside
<1> QED BY <1>1, <1>2, <1>3, <1>4, <1>5, <1>6

(* Windows: the old program is set aside and the new one written. *)
LEMMA WindowsIInv ==
  ASSUME IInv, OnWindows
  PROVE  IInv'
<1> USE InstallerAssumption DEF IInv, Go, Return, program, OnWindows,
             RemoveOld, SetAside, ExeOpens, ExeEnds, PutBack, Note
<1>1. TypeOK'
  BY DEF TypeOK, File, Points, Branches, Writers, Contents, Aside
<1>2. OutcomeIsTrue'
  BY DEF OutcomeIsTrue, TypeOK, Contents, Branches, Writers, Open, Aside
<1>3. Branches'
  BY DEF Branches, Aside
<1>4. Writers'
  BY DEF Writers, Branches, Aside
<1>5. Contents'
  BY DEF Contents, TypeOK, Branches, Writers, Open, Aside
<1>6. ProgramSurvives'
  BY DEF ProgramSurvives, TypeOK, Branches, Writers, Contents, Open, Aside
<1> QED BY <1>1, <1>2, <1>3, <1>4, <1>5, <1>6

(* The end of an installation, well or not. *)
LEMMA EndIInv ==
  ASSUME IInv, RollBackOpens \/ RollBackEnds \/ DropBackup \/ Succeed
  PROVE  IInv'
<1> USE InstallerAssumption DEF IInv, Go, Return, program,
             RollBackOpens, RollBackEnds, DropBackup, Succeed
<1>1. TypeOK'
  BY DEF TypeOK, File, Points, Branches, Writers, Contents, Aside
<1>2. OutcomeIsTrue'
  BY DEF OutcomeIsTrue, TypeOK, Contents, Branches, Writers, Open, Aside
<1>3. Branches'
  BY DEF Branches, Aside
<1>4. Writers'
  BY DEF Writers, Branches, Aside
<1>5. Contents'
  BY DEF Contents, TypeOK, Branches, Writers, Open, Aside
<1>6. ProgramSurvives'
  BY DEF ProgramSurvives, TypeOK, Branches, Writers, Contents, Open, Aside
<1> QED BY <1>1, <1>2, <1>3, <1>4, <1>5, <1>6

(* The process ends, wherever it is, and starts again. *)
LEMMA ProcessIInv ==
  ASSUME IInv, Stop \/ Start
  PROVE  IInv'
<1> USE InstallerAssumption DEF IInv, Go, Return, program, Stop, Start
<1>1. TypeOK'
  BY DEF TypeOK, File, Points, Branches, Writers, Contents, Aside
<1>2. OutcomeIsTrue'
  BY DEF OutcomeIsTrue, TypeOK, Contents, Branches, Writers, Open, Aside
<1>3. Branches'
  BY DEF Branches, Aside
<1>4. Writers'
  BY DEF Writers, Branches, Aside
<1>5. Contents'
  BY DEF Contents, TypeOK, Branches, Writers, Open, Aside
<1>6. ProgramSurvives'
  BY DEF ProgramSurvives, TypeOK, Branches, Writers, Contents, Open, Aside
<1> QED BY <1>1, <1>2, <1>3, <1>4, <1>5, <1>6

-----------------------------------------------------------------------------
(* Every step keeps it. *)
LEMMA NextIInv == IInv /\ [Next]_vars => IInv'
<1> SUFFICES ASSUME IInv, [Next]_vars PROVE IInv'
  OBVIOUS
<1>0. CASE \E v \in Version : Begin(v)
  BY <1>0, BeginIInv
<1>1. CASE Install
  BY <1>1, BackupIInv, LinuxIInv, WindowsIInv, EndIInv DEF Install
<1>2. CASE Stop \/ Start
  BY <1>2, ProcessIInv
<1>3. CASE UNCHANGED vars
  <2> USE <1>3 DEF IInv, vars, program
  <2>1. TypeOK'
    BY DEF TypeOK
  <2>2. ProgramSurvives'
    BY DEF ProgramSurvives
  <2>3. (OutcomeIsTrue /\ Branches /\ Writers /\ Contents)'
    BY DEF OutcomeIsTrue, Branches, Writers, Contents
  <2> QED BY <2>1, <2>2, <2>3
<1> QED BY <1>0, <1>1, <1>2, <1>3 DEF Next

(* The invariant holds of every reachable state. *)
THEOREM Inductive == Spec => []IInv
BY InitIInv, NextIInv, PTL DEF Spec

(* Every variable holds a value of its type, what runs is a program, and   *)
(* what is reported as installed is in place.                              *)
THEOREM TypeCorrect == Spec => []TypeOK
<1>1. IInv => TypeOK
  BY DEF IInv
<1> QED BY Inductive, <1>1, PTL

(* A whole program is left, whatever fails and wherever the process dies   *)
(* (Installer.Install), for any number of versions.                        *)
THEOREM Survival == Spec => []ProgramSurvives
<1>1. IInv => ProgramSurvives
  BY DEF IInv
<1> QED BY Inductive, <1>1, PTL

(* After a success the file holds the new version, after a failure never   *)
(* (Installer.Install).                                                    *)
THEOREM TrueAnswer == Spec => []OutcomeIsTrue
<1>1. IInv => OutcomeIsTrue
  BY DEF IInv
<1> QED BY Inductive, <1>1, PTL

-----------------------------------------------------------------------------
(* The package on its way to the installer *)

(* Why the installer is given what was announced: it runs when and only    *)
(* when the goroutine is there, and nobody touches the file from its       *)
(* verification on.                                                        *)
PackageTypes ==
  /\ file \in [Release -> Seq(Release)]
  /\ name \in Release /\ asset \in Release

PackageInv ==
  /\ PackageTypes
  /\ get = "install" <=> at # "idle"
  /\ get \in {"extract", "install"} => Verified
  /\ get = "install" => target \in {file[name][i] : i \in DOMAIN file[name]}

(* A step of the installer leaves its target and the platform alone.       *)
LEMMA InstallKeepsTarget ==
  ASSUME Install
  PROVE  at # "idle" /\ target' = target
BY DEF Install, OnLinux, OnWindows, Go, Return, BackupOpens, BackupEnds, NewOpens, NewEnds,
       Rename, RemoveOld, SetAside, ExeOpens, ExeEnds, PutBack, Note, RollBackOpens,
       RollBackEnds, DropBackup, Succeed

LEMMA InitPackage == GetInit => PackageInv
<1> SUFFICES ASSUME GetInit PROVE PackageInv
  OBVIOUS
<1>1. file \in [Release -> Seq(Release)]
  BY DEF GetInit
<1>2. LastVersion \in Release
  BY InstallerAssumption, PackageAssumption DEF Release, Version
<1> QED BY <1>1, <1>2 DEF GetInit, Init, PackageTypes, PackageInv

(* The types, of every step that changes them. *)
LEMMA TypesKept ==
  ASSUME PackageTypes, GetNext
  PROVE  PackageTypes'
<1> USE DEF PackageTypes
<1>1. CASE Ask
  BY <1>1 DEF Ask
<1>2. CASE Connect
  <2>1. <<>> \in Seq(Release)
    OBVIOUS
  <2> QED BY <1>2, <2>1 DEF Connect, To
<1>3. CASE Piece
  <2>1. Append(file[name], asset) \in Seq(Release)
    OBVIOUS
  <2> QED BY <1>3, <2>1 DEF Piece, To
<1>4. CASE AlreadyThere \/ EndOfBody \/ AttemptFails \/ NothingToSend \/ Cancelled
  BY <1>4 DEF AlreadyThere, EndOfBody, AttemptFails, NothingToSend, Retry, Cancelled, To
<1>5. ASSUME Cleanup \/ UNCHANGED file PROVE file' \in [Release -> Seq(Release)]
  <2>1. <<>> \in Seq(Release)
    OBVIOUS
  <2> QED BY <1>5, <2>1 DEF Cleanup
<1>6. CASE Verify
  BY <1>5, <1>6 DEF Verify, To
<1>7. CASE Extract
  BY <1>5, <1>7 DEF Extract, To
<1>8. CASE Installs
  BY <1>5, <1>8 DEF Installs
<1>9. CASE Ends \/ Starts
  BY <1>9 DEF Ends, Starts, getVars
<1> QED BY <1>1, <1>2, <1>3, <1>4, <1>6, <1>7, <1>8, <1>9 DEF GetNext

(* Every step of the composition keeps it. *)
LEMMA NextPackage == PackageInv /\ [GetNext]_allVars => PackageInv'
<1> SUFFICES ASSUME PackageInv, [GetNext]_allVars PROVE PackageInv'
  OBVIOUS
<1>0. ASSUME GetNext PROVE PackageTypes'
  BY <1>0, TypesKept DEF PackageInv
<1> USE DEF PackageInv, Verified, Whole
<1>1. CASE Ask
  BY <1>0, <1>1 DEF Ask, vars, GetNext
<1>2. CASE \/ AlreadyThere \/ Connect \/ Piece \/ EndOfBody
           \/ AttemptFails \/ NothingToSend \/ Cancelled
  <2>1. get' \notin {"extract", "install"} /\ get # "install" /\ UNCHANGED vars
    BY <1>2 DEF AlreadyThere, Connect, Piece, EndOfBody, AttemptFails, NothingToSend, Retry,
                Cancelled, To
  <2> QED BY <1>0, <1>2, <2>1 DEF vars, GetNext
<1>3. CASE Verify
  BY <1>0, <1>3 DEF Verify, To, vars, GetNext
<1>4. CASE Extract
  <2>1. PackageTypes'
    BY <1>0, <1>4 DEF GetNext
  <2>2. CASE \E i \in DOMAIN file[name] : Begin(file[name][i])
    <3>1. PICK i \in DOMAIN file[name] : Begin(file[name][i])
      BY <2>2
    <3>2. get' = "install" /\ UNCHANGED <<file, name, asset, announced>>
      BY <1>4, <3>1 DEF Extract, Begin, To, vars
    <3>3. at' = "backup" /\ target' = file[name][i]
      BY <3>1 DEF Begin
    <3> QED BY <1>4, <2>1, <3>2, <3>3 DEF Extract
  <2>3. CASE To("none")
    BY <1>4, <2>1, <2>3 DEF Extract, To, vars
  <2> QED BY <1>4, <2>2, <2>3 DEF Extract
<1>5. CASE Installs
  <2>1. PackageTypes' /\ target' = target /\ get = "install"
    BY <1>0, <1>5, InstallKeepsTarget DEF Installs, GetNext
  <2>2. CASE at' = "idle"
    BY <1>5, <2>1, <2>2 DEF Installs
  <2>3. CASE at' # "idle"
    BY <1>5, <2>1, <2>3 DEF Installs
  <2> QED BY <2>2, <2>3
<1>6. CASE Ends
  BY <1>0, <1>6 DEF Ends, Stop, GetNext
<1>7. CASE Starts
  BY <1>0, <1>7 DEF Starts, Start, getVars, GetNext
<1>8. CASE UNCHANGED allVars
  BY <1>8 DEF PackageTypes, allVars, vars, getVars
<1> QED BY <1>1, <1>2, <1>3, <1>4, <1>5, <1>6, <1>7, <1>8 DEF GetNext

LEMMA PackageInductive == GetSpec => []PackageInv
BY InitPackage, NextPackage, PTL DEF GetSpec

(* Updates whose package has been downloaded are updates of the installer: *)
(* all that is proved of it holds of the composition.                      *)
THEOREM Composition == GetSpec => Spec
<1>1. GetInit => Init
  BY DEF GetInit
<1>2. PackageInv /\ [GetNext]_allVars => [Next]_vars
  <2> SUFFICES ASSUME PackageInv, [GetNext]_allVars PROVE [Next]_vars
    OBVIOUS
  <2>1. CASE Extract
    <3>1. \A i \in DOMAIN file[name] : file[name][i] \in Version
      BY DEF PackageInv, PackageTypes, Release
    <3> QED BY <2>1, <3>1 DEF Extract, To, Next
  <2>2. CASE Installs \/ Ends
    BY <2>2 DEF Installs, Ends, Next
  <2>3. CASE Ask \/ AlreadyThere \/ Connect \/ Piece \/ EndOfBody \/ AttemptFails
             \/ NothingToSend \/ Cancelled \/ Verify
    BY <2>3 DEF Ask, AlreadyThere, Connect, Piece, EndOfBody, AttemptFails, NothingToSend, Retry,
                Cancelled, Verify, To
  <2>4. CASE Starts \/ UNCHANGED allVars
    BY <2>4 DEF Next, Starts, allVars
  <2> QED BY <2>1, <2>2, <2>3, <2>4 DEF GetNext
<1> QED BY <1>1, <1>2, PackageInductive, PTL DEF GetSpec, Spec

(***************************************************************************)
(* What is installed has passed every check that its manifest allows       *)
(* (Download, Verify and runUpdate), whatever the file was left with: with *)
(* a digest it is the one whole release that was announced.                *)
(***************************************************************************)
THEOREM WholeRelease == GetSpec => []OneRelease
<1>1. PackageInv => OneRelease
  <2> SUFFICES ASSUME PackageInv, at # "idle"
               PROVE  /\ "digest" \in announced => file[name] = Whole(asset) /\ target = asset
                      /\ "size" \in announced => Len(file[name]) = Pieces
    BY DEF OneRelease
  <2>1. Verified /\ target \in {file[name][i] : i \in DOMAIN file[name]}
    BY DEF PackageInv
  <2>2. ASSUME "digest" \in announced PROVE file[name] = Whole(asset) /\ target = asset
    BY <2>1, <2>2 DEF Verified, Whole
  <2> QED BY <2>1, <2>2 DEF Verified
<1> QED BY PackageInductive, <1>1, PTL

(* A whole program is left also when what is installed was downloaded.     *)
THEOREM UpdateSurvives == GetSpec => []ProgramSurvives
BY Composition, Survival, PTL

(* An update that met no fault leaves no file behind when it ends (Cleanup *)
(* in runUpdate), so that no left-over can spoil update after update, if   *)
(* the sizes of packages are announced.                                    *)
THEOREM LeftoversAreRemoved == GetSpec => LeftoversGo
<1>1. PackageInv /\ [GetNext]_allVars
        => [get # "none" /\ get' = "none" /\ smooth' /\ "size" \in announced
              => file'[name] = <<>>]_allVars
  <2> SUFFICES ASSUME PackageInv, GetNext, get # "none", get' = "none", smooth',
                      "size" \in announced
               PROVE  file'[name] = <<>>
    OBVIOUS
  <2>1. CASE Verify \/ Extract \/ Installs
    BY <2>1 DEF Verify, Extract, Installs, Cleanup, To, PackageInv, PackageTypes
  <2>2. CASE Ask \/ AlreadyThere \/ Connect \/ Piece \/ EndOfBody
    BY <2>2 DEF Ask, AlreadyThere, Connect, Piece, EndOfBody, To
  <2>3. CASE AttemptFails \/ NothingToSend \/ Cancelled \/ Ends
    BY <2>3 DEF AttemptFails, NothingToSend, LooksComplete, Cancelled, Ends
  <2>4. CASE Starts
    BY <2>4 DEF Starts, getVars
  <2> QED BY <2>1, <2>2, <2>3, <2>4 DEF GetNext
<1> QED BY <1>1, PackageInductive, PTL DEF GetSpec, LeftoversGo
=============================================================================
