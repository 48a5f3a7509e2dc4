--------------------------- MODULE UpdateManager ---------------------------
(***************************************************************************)
(* The one-click update: Manager of src/updater/manager.go (Apply, Check,  *)
(* Cancel, runUpdate and the goroutine that restarts the process), the     *)
(* manifest cached by src/updater/checker.go, which the background check   *)
(* of src/main.go replaces at any time, and the ways a restart ends        *)
(* (src/web/restart.go).  What a download, an extraction and an            *)
(* installation do to files is not here, only how they end.                *)
(***************************************************************************)

CONSTANTS
  Caller,   \* the handlers of net/http that call the manager
  Update,   \* one per successful Apply: its goroutine and its context
  NoUpdate  \* cancelFunc is nil; a caller has picked no cancelFunc

ASSUME NullAssumption == NoUpdate \notin Update

VARIABLES
  state,      \* Manager.currentState
  cancelFunc, \* Manager.cancelFunc, named by the update it cancels
  ctxDone,    \* the updates whose context is cancelled
  flow,       \* where the goroutine of each update is
  manifest,   \* Checker.manifest: none, one that is newer than the program, or not
  replaced,   \* the updates that have replaced the binary
  at,         \* where each caller is in its call
  picked,     \* the cancelFunc a caller of Cancel has taken
  up          \* the process has not been replaced

managerVars == <<state, cancelFunc, manifest>>
callerVars  == <<at, picked>>
vars == <<managerVars, ctxDone, flow, replaced, callerVars, up>>

States == {"idle", "checking", "downloading", "verifying", "extracting", "installing",
           "restarting", "failed"}

(* A goroutine is in a phase when it has set the state of that name. *)
Phases == {"begin", "fetching", "downloading", "asset", "verifying", "extracting",
           "installing", "replaced", "restarting"}

Manifests == {"none", "newer", "old"}

Init ==
  /\ state = "idle" /\ cancelFunc = NoUpdate
  /\ manifest = "none"
  /\ ctxDone = {} /\ replaced = {}
  /\ flow = [u \in Update |-> "none"]
  /\ at = [h \in Caller |-> "idle"]
  /\ picked = [h \in Caller |-> NoUpdate]
  /\ up = TRUE

-----------------------------------------------------------------------------
(* The gate of Apply and Check *)

FreeMutant(s) == s \notin {"downloading", "verifying", "installing"}
Free(s) == s \in {"idle", "failed"}

(* Apply, under mu; bound: Update is finite under TLC. *)
Apply(u) ==
  /\ Free(state) /\ flow[u] = "none"
  /\ state' = "checking"
  /\ cancelFunc' = u
  /\ flow' = [flow EXCEPT ![u] = "begin"]
  /\ UNCHANGED <<manifest, ctxDone, replaced, callerVars>>

CheckBeginMutant(h) ==
  /\ at[h] = "idle"
  /\ state' = "checking"
  /\ at' = [at EXCEPT ![h] = "checking"]
  /\ UNCHANGED <<cancelFunc, manifest, ctxDone, flow, replaced, picked>>

CheckBegin(h) ==
  /\ at[h] = "idle" /\ Free(state)
  /\ state' = "checking"
  /\ at' = [at EXCEPT ![h] = "checking"]
  /\ UNCHANGED <<cancelFunc, manifest, ctxDone, flow, replaced, picked>>

(* checker.Check fails, or the manifest it found is cached. *)
Fetched == manifest' \in {manifest, "newer", "old"}

CheckFetch(h) ==
  /\ at[h] = "checking"
  /\ Fetched
  /\ at' = [at EXCEPT ![h] = "checked"]
  /\ UNCHANGED <<state, cancelFunc, ctxDone, flow, replaced, picked>>

(* The deferred reset. *)
CheckEnd(h) ==
  /\ at[h] = "checked"
  /\ state' = IF state = "checking" THEN "idle" ELSE state
  /\ at' = [at EXCEPT ![h] = "idle"]
  /\ UNCHANGED <<cancelFunc, manifest, ctxDone, flow, replaced, picked>>

(* startUpdateChecker does not go through the manager. *)
BackgroundCheck ==
  /\ Fetched
  /\ UNCHANGED <<state, cancelFunc, ctxDone, flow, replaced, callerVars>>

-----------------------------------------------------------------------------
(* Cancel *)

Cancellable(s) == s \in {"downloading", "verifying"}

(* Under mu: cancelFunc is taken whatever the state is. *)
CancelPick(h) ==
  /\ at[h] = "idle"
  /\ cancelFunc' = NoUpdate
  /\ IF cancelFunc # NoUpdate /\ Cancellable(state)
     THEN /\ at' = [at EXCEPT ![h] = "picked"]
          /\ picked' = [picked EXCEPT ![h] = cancelFunc]
     ELSE UNCHANGED callerVars
  /\ UNCHANGED <<state, manifest, ctxDone, flow, replaced>>

(* After mu is released. *)
CancelCall(h) ==
  /\ at[h] = "picked"
  /\ ctxDone' = ctxDone \cup {picked[h]}
  /\ at' = [at EXCEPT ![h] = "idle"]
  /\ picked' = [picked EXCEPT ![h] = NoUpdate]
  /\ UNCHANGED <<managerVars, flow, replaced>>

-----------------------------------------------------------------------------
(* runUpdate.  setState and the start of a phase are one step. *)

RunOnly == UNCHANGED <<cancelFunc, ctxDone, callerVars>>

To(u, from, to) == flow[u] = from /\ flow' = [flow EXCEPT ![u] = to]

SetState(s) == state' = s

(* setError and setState(StateIdle), followed by a return. *)
SetError(u, from) == To(u, from, "over") /\ SetState("failed")
BackToIdle(u, from) == To(u, from, "over") /\ SetState("idle")

(* A cached manifest is used as it is; without one the version is checked. *)
Begin(u) ==
  /\ IF manifest = "none"
     THEN To(u, "begin", "fetching") /\ SetState("checking")
     ELSE To(u, "begin", "downloading") /\ SetState("downloading")
  /\ UNCHANGED <<manifest, replaced>> /\ RunOnly

Fetch(u) ==
  /\ \/ SetError(u, "fetching") /\ UNCHANGED manifest
     \/ BackToIdle(u, "fetching") /\ manifest' = "old"
     \/ /\ To(u, "fetching", "downloading") /\ SetState("downloading")
        /\ manifest' = "newer"
  /\ UNCHANGED replaced /\ RunOnly

(* CurrentAsset reads the manifest that is cached by now. *)
Asset(u) ==
  /\ SetError(u, "downloading") \/ (To(u, "downloading", "asset") /\ UNCHANGED state)
  /\ UNCHANGED <<manifest, replaced>> /\ RunOnly

(* The download ends: complete, or with an error, cancelled or not. *)
DownloadMutant(u) ==
  /\ u \notin ctxDone
  /\ \/ To(u, "asset", "verifying") /\ SetState("verifying")
     \/ SetError(u, "asset")
  /\ UNCHANGED <<manifest, replaced>> /\ RunOnly

Download(u) ==
  /\ \/ To(u, "asset", "verifying") /\ SetState("verifying")
     \/ u \in ctxDone /\ BackToIdle(u, "asset")
     \/ u \notin ctxDone /\ SetError(u, "asset")
  /\ UNCHANGED <<manifest, replaced>> /\ RunOnly

Verify(u) ==
  /\ \/ To(u, "verifying", "extracting") /\ SetState("extracting")
     \/ SetError(u, "verifying")
  /\ UNCHANGED <<manifest, replaced>> /\ RunOnly

Extract(u) ==
  /\ \/ To(u, "extracting", "installing") /\ SetState("installing")
     \/ SetError(u, "extracting")
  /\ UNCHANGED <<manifest, replaced>> /\ RunOnly

(* Install replaces the binary, or fails and puts the old one back. *)
Install(u) ==
  /\ \/ /\ To(u, "installing", "replaced") /\ UNCHANGED state
        /\ replaced' = replaced \cup {u}
     \/ SetError(u, "installing") /\ UNCHANGED replaced
  /\ UNCHANGED manifest /\ RunOnly

OrderRestart(u) ==
  /\ To(u, "replaced", "restarting") /\ SetState("restarting")
  /\ UNCHANGED <<manifest, replaced>> /\ RunOnly

(***************************************************************************)
(* Restart returns: with an error (or panics, or there is no restarter),   *)
(* and the state goes back to idle; or without one, because systemctl has  *)
(* been started, and then the process waits to be replaced.                *)
(***************************************************************************)
RestartReturns(u) ==
  /\ \/ BackToIdle(u, "restarting")
     \/ To(u, "restarting", "over") /\ UNCHANGED state
  /\ UNCHANGED <<manifest, replaced>> /\ RunOnly

(* The recover of runUpdate. *)
Panic(u) ==
  /\ \E p \in Phases \ {"restarting"} : SetError(u, p)
  /\ UNCHANGED <<manifest, replaced>> /\ RunOnly

(* The process is replaced: by the new one, by systemd, or by the user. *)
Replaced ==
  /\ up' = FALSE
  /\ UNCHANGED <<managerVars, ctxDone, flow, replaced, callerVars>>

-----------------------------------------------------------------------------
Run(u) ==
  \/ Begin(u) \/ Fetch(u) \/ Asset(u) \/ Download(u) \/ Verify(u) \/ Extract(u)
  \/ Install(u) \/ OrderRestart(u) \/ RestartReturns(u)

Serve(h) == CheckFetch(h) \/ CheckEnd(h) \/ CancelCall(h)

Live(A) == up /\ A /\ UNCHANGED up

Next ==
  \/ \E u \in Update : Live(Apply(u) \/ Run(u) \/ Panic(u))
  \/ \E h \in Caller : Live(CheckBegin(h) \/ CancelPick(h) \/ Serve(h))
  \/ Live(BackgroundCheck)
  \/ up /\ Replaced

Spec == Init /\ [][Next]_vars

(* The transfer waits for the server.  Its client has no timeout and its   *)
(* context no deadline (downloader.go:41): only a cancel ends it for sure. *)
Hangs(u) == flow[u] = "asset" /\ u \notin ctxDone

(***************************************************************************)
(* Every other step comes: a version check has a timeout, files are        *)
(* finite, a cancelled transfer returns.  Nothing makes a server go on,    *)
(* and nothing forces the process to be replaced.                          *)
(***************************************************************************)
Fairness ==
  /\ \A u \in Update : WF_vars(~Hangs(u) /\ Live(Run(u)))
  /\ \A h \in Caller : WF_vars(Live(Serve(h)))

LiveSpec == Spec /\ Fairness

-----------------------------------------------------------------------------
(* Properties *)

(* Every variable keeps to its values; "done" is an event, never a state. *)
TypeOK ==
  /\ state \in States
  /\ cancelFunc \in Update \cup {NoUpdate}
  /\ manifest \in Manifests
  /\ ctxDone \subseteq Update /\ replaced \subseteq Update
  /\ flow \in [Update -> {"none", "over"} \cup Phases]
  /\ at \in [Caller -> {"idle", "checking", "checked", "picked"}]
  /\ picked \in [Caller -> Update \cup {NoUpdate}]
  /\ up \in BOOLEAN

Running(u) == flow[u] \in Phases
Checking(h) == at[h] \in {"checking", "checked"}

(***************************************************************************)
(* One at a time: no two updates run together, nor an update and a check,  *)
(* nor two checks, although the gate is a state that everybody rewrites.   *)
(***************************************************************************)
OneAtATime ==
  /\ \A u, v \in Update : Running(u) /\ Running(v) => u = v
  /\ \A g, h \in Caller : Checking(g) /\ Checking(h) => g = h
  /\ \A u \in Update, h \in Caller : ~(Running(u) /\ Checking(h))

(* The state set for each phase. *)
StateOf(phase) ==
  CASE phase \in {"begin", "fetching"} -> "checking"
    [] phase = "asset" -> "downloading"
    [] phase = "replaced" -> "installing"
    [] OTHER -> phase

(***************************************************************************)
(* The state the dashboard shows is that of the running update: no check,  *)
(* cancel or earlier update ever overwrites it.                            *)
(***************************************************************************)
StateIsTheFlows == \A u \in Update : Running(u) => state = StateOf(flow[u])

Owner ==
  IF \E u \in Update : Running(u) THEN "update"
  ELSE IF \E h \in Caller : Checking(h) THEN "check"
  ELSE "nobody"

Flow == INSTANCE UpdateFlow WITH owner <- Owner

(* The manager keeps the promise of UpdateFlow. *)
RefinesFlow == Flow!Spec

(***************************************************************************)
(* An update that is applied comes to an end: it can wait for ever only    *)
(* for a server that has stopped to send, and not even for that when it    *)
(* has been cancelled; once the transfer is over nothing holds it up.      *)
(***************************************************************************)
UpdatesEnd == \A u \in Update : Running(u) ~> flow[u] = "over" \/ ~up \/ Hangs(u)
=============================================================================
