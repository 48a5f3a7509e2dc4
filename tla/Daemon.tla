------------------------------- MODULE Daemon -------------------------------
(***************************************************************************)
(* The scheduled runs and the switch that turns them on and off:           *)
(* DaemonControl and its handler (src/web/daemon.go), the loop of          *)
(* runDaemon (src/main.go), the handlers that refuse a manual job while    *)
(* the schedule is on and the one that saves new settings                  *)
(* (src/web/handlers.go), and the restart of the process.                  *)
(*                                                                         *)
(* The switch is five pieces of state that its handler changes one after   *)
(* the other, without a lock around them: active, the signal to the loop,  *)
(* the timers, the configuration in memory and the one in config.yaml.     *)
(* A manual job is present here only as "running"; module Jobs is its      *)
(* life.                                                                   *)
(***************************************************************************)
EXTENDS Sequences, Naturals

CONSTANTS
  Handler,     \* the goroutines of net/http that serve one request at a time
  DaemonFlag,  \* the process is started with -daemon
  PostedModes, \* the values of daemon_mode in the settings forms users save
  SaveMayFail  \* writing config.yaml may fail

ASSUME SwitchAssumption ==
  /\ DaemonFlag \in BOOLEAN /\ SaveMayFail \in BOOLEAN
  /\ PostedModes \subseteq BOOLEAN

VARIABLES
  active,    \* DaemonControl.active
  toggleCh,  \* DaemonControl.toggleCh, capacity 1
  loop,      \* where runDaemon is
  armed,     \* the timers that will fire
  shown,     \* the next times set for the dashboard: nextCollect, nextPush
  pushOn,    \* cfg.PushInterval > 0
  cfgMode,   \* cfg.DaemonMode, shared by the loop and the handlers
  saved,     \* daemon_mode in config.yaml, <<>> while the file is truncated
  unsaved,   \* config.yaml could not be written the last time
  manual,    \* jobs.current() # nil
  at,        \* where each handler is in its request
  value,     \* the mode each handler carries to its next step
  crossed    \* history: two requests have met since the process started

modeVars  == <<cfgMode, saved, unsaved>>
loopVars  == <<loop, armed, shown>>
otherVars == <<active, toggleCh>>
vars == <<otherVars, loopVars, pushOn, modeVars, manual, at, value>>

Timers == {"collect", "push"}

HandlerPlaces == {"idle", "checked", "flipped", "full", "drained", "sent", "noted",
                  "writing", "allowed", "posting", "posted"}
LoopPlaces == {"first", "starting", "select", "collecting", "pushing", "exited"}

(* LoadConfig: an empty file leaves the default, which is off. *)
LoadedMode(file) == DaemonFlag \/ file = <<TRUE>>

(* runDaemon is called: immediate is the mode the process starts with. *)
Entry(m) == IF m THEN "first" ELSE "starting"

Init ==
  /\ saved \in {<<TRUE>>, <<FALSE>>}
  /\ active = LoadedMode(saved) /\ cfgMode = active
  /\ loop = Entry(active)
  /\ toggleCh = <<>>
  /\ armed = {} /\ shown = {}
  /\ pushOn \in BOOLEAN
  /\ manual = FALSE /\ unsaved = FALSE
  /\ at = [h \in Handler |-> "idle"]
  /\ value = [h \in Handler |-> FALSE]
  /\ crossed = FALSE

-----------------------------------------------------------------------------
(* runDaemon *)

LoopOnly == UNCHANGED <<active, pushOn, modeVars, manual, at, value>>

(* The run at the start, when the mode was on. *)
FirstRun ==
  /\ loop = "first" /\ loop' = "starting"
  /\ UNCHANGED <<armed, shown, toggleCh>> /\ LoopOnly

(* startCollectTimer, and startPushTimer if there is an interval. *)
StartTimers ==
  LET started == IF pushOn THEN Timers ELSE {"collect"}
  IN  armed' = armed \cup started /\ shown' = shown \cup started

StopTimers == armed' = {} /\ shown' = {}

Starting ==
  /\ loop = "starting" /\ loop' = "select"
  /\ IF active THEN StartTimers ELSE UNCHANGED <<armed, shown>>
  /\ UNCHANGED toggleCh /\ LoopOnly

(* Reset of a timer that has fired, under the interval of the moment. *)
Rearm(timer) ==
  IF timer = "push" /\ ~pushOn
  THEN armed' = armed \ {timer} /\ UNCHANGED shown
  ELSE armed' = armed \cup {timer} /\ shown' = shown \cup {timer}

(* A timer fires while the mode is on: a long run, and then the next time. *)
Run(timer) == IF timer = "collect" THEN "collecting" ELSE "pushing"

Fire(timer) ==
  /\ loop = "select" /\ timer \in armed /\ active
  /\ loop' = Run(timer)
  /\ armed' = armed \ {timer}
  /\ UNCHANGED <<shown, toggleCh>> /\ LoopOnly

RunEnds(timer) ==
  /\ loop = Run(timer) /\ loop' = "select"
  /\ Rearm(timer)
  /\ UNCHANGED toggleCh /\ LoopOnly

(* A timer fires before the loop has heard that the mode is off. *)
FireInVain(timer) ==
  /\ loop = "select" /\ timer \in armed /\ ~active
  /\ Rearm(timer)
  /\ UNCHANGED <<loop, toggleCh>> /\ LoopOnly

HearMutant ==
  /\ loop = "select" /\ toggleCh # <<>> /\ active
  /\ toggleCh' = <<>>
  /\ IF Head(toggleCh) THEN StartTimers ELSE StopTimers
  /\ UNCHANGED loop /\ LoopOnly

(* A new timer replaces the one armed before, which nothing waits for. *)
Hear ==
  /\ loop = "select" /\ toggleCh # <<>>
  /\ toggleCh' = <<>>
  /\ IF Head(toggleCh) THEN StartTimers ELSE StopTimers
  /\ UNCHANGED loop /\ LoopOnly

(* A signal is received; the process ends with the function. *)
Signal ==
  /\ loop = "select" /\ loop' = "exited"
  /\ armed' = {}
  /\ UNCHANGED <<shown, toggleCh>> /\ LoopOnly

-----------------------------------------------------------------------------
(* The handlers.  A process that has exited serves nobody. *)

Move(h, from, to) ==
  /\ at[h] = from /\ loop # "exited"
  /\ at' = [at EXCEPT ![h] = to]

Carry(h, v) == value' = [value EXCEPT ![h] = v]

(* What a request carries is gone with it. *)
Forget(h) == Carry(h, FALSE)

(* daemonToggleHandler: refuse while a job is running. *)
ToggleCheck(h) ==
  /\ ~manual
  /\ Move(h, "idle", "checked")
  /\ UNCHANGED <<otherVars, loopVars, pushOn, modeVars, manual, value>>

(* Toggle: the part under mu. *)
Flip(h) ==
  /\ Move(h, "checked", "flipped")
  /\ active' = ~active
  /\ Carry(h, ~active)
  /\ UNCHANGED <<toggleCh, loopVars, pushOn, modeVars, manual>>

(* Toggle: the select that sends if the channel has room. *)
TrySendMutant1(h) ==
  /\ Move(h, "flipped", "sent")
  /\ toggleCh' = IF toggleCh = <<>> THEN <<value[h]>> ELSE toggleCh
  /\ UNCHANGED <<active, loopVars, pushOn, modeVars, manual, value>>

TrySendMutant2(h) ==
  /\ Move(h, "flipped", "sent")
  /\ toggleCh' = Append(toggleCh, value[h])
  /\ UNCHANGED <<active, loopVars, pushOn, modeVars, manual, value>>

TrySend(h) ==
  /\ \/ /\ toggleCh = <<>> /\ Move(h, "flipped", "sent")
        /\ toggleCh' = <<value[h]>>
     \/ /\ toggleCh # <<>> /\ Move(h, "flipped", "full")
        /\ UNCHANGED toggleCh
  /\ UNCHANGED <<active, loopVars, pushOn, modeVars, manual, value>>

(* Toggle: the default branch empties the channel, *)
Empty(h) ==
  /\ Move(h, "full", "drained")
  /\ toggleCh' = <<>>
  /\ UNCHANGED <<active, loopVars, pushOn, modeVars, manual, value>>

(* and then sends, waiting for room if another handler was faster. *)
SendWaiting(h) ==
  /\ toggleCh = <<>>
  /\ Move(h, "drained", "sent")
  /\ toggleCh' = <<value[h]>>
  /\ UNCHANGED <<active, loopVars, pushOn, modeVars, manual, value>>

NoteMode(h) ==
  /\ Move(h, "sent", "noted")
  /\ cfgMode' = value[h]
  /\ UNCHANGED <<otherVars, loopVars, pushOn, saved, unsaved, manual, value>>

BeginSaveMutant(h) ==
  /\ Move(h, "noted", "idle") /\ Forget(h)
  /\ UNCHANGED <<otherVars, loopVars, pushOn, modeVars, manual>>

(* SaveConfig: the configuration is marshalled, os.WriteFile truncates, *)
BeginSave(h) ==
  /\ Move(h, "noted", "writing")
  /\ saved' = <<>>
  /\ Carry(h, cfgMode)
  /\ UNCHANGED <<otherVars, loopVars, pushOn, cfgMode, unsaved, manual>>

(* and writes; the answer to the client follows. *)
EndSave(h) ==
  /\ Move(h, "writing", "idle") /\ Forget(h)
  /\ saved' = <<value[h]>> /\ unsaved' = FALSE
  /\ UNCHANGED <<otherVars, loopVars, pushOn, cfgMode, manual>>

(* The file cannot be opened: an error is logged, the toggle stands. *)
SaveFails(h) ==
  /\ SaveMayFail
  /\ Move(h, "noted", "idle") /\ Forget(h)
  /\ unsaved' = TRUE
  /\ UNCHANGED <<otherVars, loopVars, pushOn, cfgMode, saved, manual>>

(* triggerBenchmarkHandler, triggerPushHandler: refuse while active. *)
TriggerCheckMutant(h) ==
  /\ Move(h, "idle", "allowed")
  /\ UNCHANGED <<otherVars, loopVars, pushOn, modeVars, manual, value>>

TriggerCheck(h) ==
  /\ ~active
  /\ Move(h, "idle", "allowed")
  /\ UNCHANGED <<otherVars, loopVars, pushOn, modeVars, manual, value>>

(* startJob: a job starts unless another is running. *)
StartJob(h) ==
  /\ Move(h, "allowed", "idle")
  /\ manual' = TRUE
  /\ UNCHANGED <<otherVars, loopVars, pushOn, modeVars, value>>

(* setConfigHandler: save the form; an error is reported at once. *)
PostConfig(h) ==
  /\ PostedModes # {}
  /\ Move(h, "idle", "posting")
  /\ saved' = <<>>
  /\ \E m \in PostedModes : Carry(h, m)
  /\ UNCHANGED <<otherVars, loopVars, pushOn, cfgMode, unsaved, manual>>

ConfigSaved(h) ==
  /\ Move(h, "posting", "posted")
  /\ saved' = <<value[h]>> /\ unsaved' = FALSE
  /\ UNCHANGED <<otherVars, loopVars, pushOn, cfgMode, manual, value>>

(* The shared configuration is overwritten: the mode, and the interval. *)
ConfigApplied(h) ==
  /\ Move(h, "posted", "idle") /\ Forget(h)
  /\ cfgMode' = value[h]
  /\ pushOn' \in BOOLEAN
  /\ UNCHANGED <<otherVars, loopVars, saved, unsaved, manual>>

ManualEnds ==
  /\ manual /\ loop # "exited"
  /\ manual' = FALSE
  /\ UNCHANGED <<otherVars, loopVars, pushOn, modeVars, at, value>>

-----------------------------------------------------------------------------
(* The process ends, or is killed, at any moment, and is started again. *)
Restart ==
  /\ active' = LoadedMode(saved) /\ cfgMode' = active'
  /\ loop' = Entry(active')
  /\ toggleCh' = <<>>
  /\ armed' = {} /\ shown' = {}
  /\ manual' = FALSE
  /\ at' = [h \in Handler |-> "idle"]
  /\ value' = [h \in Handler |-> FALSE]
  /\ UNCHANGED <<saved, unsaved, pushOn>>

Timed(timer) == Fire(timer) \/ RunEnds(timer) \/ FireInVain(timer)

Loop == FirstRun \/ Starting \/ Hear \/ Signal \/ \E timer \in Timers : Timed(timer)

Toggle(h) ==
  \/ Flip(h) \/ TrySend(h) \/ Empty(h) \/ SendWaiting(h)
  \/ NoteMode(h) \/ BeginSave(h) \/ EndSave(h) \/ SaveFails(h)

Settings(h) == ConfigSaved(h) \/ ConfigApplied(h)

Request(h) == ToggleCheck(h) \/ TriggerCheck(h) \/ PostConfig(h)

Meet == \E g, h \in Handler : g # h /\ at'[g] # "idle" /\ at'[h] # "idle"

Next ==
  \/ (Loop \/ ManualEnds) /\ UNCHANGED crossed
  \/ \E h \in Handler :
       /\ Request(h) \/ Toggle(h) \/ StartJob(h) \/ Settings(h)
       /\ crossed' = (crossed \/ Meet)
  \/ Restart /\ crossed' = FALSE

Spec == Init /\ [][Next]_<<vars, crossed>>

(***************************************************************************)
(* Every run ends and the loop comes back to its select, which chooses at  *)
(* random among the ready cases: a signal that is there again and again is *)
(* heard some day (strong fairness).  A handler goes on when it can.       *)
(***************************************************************************)
Fairness ==
  /\ WF_vars(FirstRun) /\ WF_vars(Starting) /\ SF_vars(Hear)
  /\ \A timer \in Timers : WF_vars(RunEnds(timer))
  /\ \A h \in Handler : WF_vars(Toggle(h)) /\ SF_vars(SendWaiting(h))

LiveSpec == Spec /\ Fairness

-----------------------------------------------------------------------------
(* Properties *)

(* Every variable keeps to its values. *)
TypeOK ==
  /\ active \in BOOLEAN /\ cfgMode \in BOOLEAN
  /\ pushOn \in BOOLEAN /\ manual \in BOOLEAN /\ unsaved \in BOOLEAN
  /\ toggleCh \in {<<>>, <<TRUE>>, <<FALSE>>}
  /\ loop \in LoopPlaces
  /\ armed \subseteq Timers /\ shown \subseteq Timers
  /\ saved \in {<<>>, <<TRUE>>, <<FALSE>>}
  /\ at \in [Handler -> HandlerPlaces]
  /\ value \in [Handler -> BOOLEAN]
  /\ crossed \in BOOLEAN

Heard == loop = "select" /\ toggleCh = <<>> /\ \A h \in Handler : at[h] = "idle"

(***************************************************************************)
(* IsActive says whether the scheduled tasks are activated: once the loop  *)
(* has heard every toggle, the collection timer is armed if and only if    *)
(* the mode is on, and nothing is armed or announced while it is off, also *)
(* when a toggle came during a run, which re-arms its timer at its end;    *)
(* but two toggles at a time may leave the loop with the older one.        *)
(***************************************************************************)
TimersFollowMode ==
  Heard /\ ~crossed => IF active THEN "collect" \in armed ELSE armed = {} /\ shown = {}

(***************************************************************************)
(* A manual job and the schedule exclude each other: the toggle is refused *)
(* while a job is running, a job is refused while the mode is on.  Both    *)
(* look before they act: a trigger and a toggle at a time may pass.        *)
(***************************************************************************)
ManualExcludesActive == manual /\ ~crossed => ~active

(***************************************************************************)
(* The mode survives a restart: a process that ends when no request is     *)
(* being served comes up in the same mode, provided that config.yaml could *)
(* be written and that no settings form has put another mode into it (the  *)
(* form changes the saved mode and not the switch), and that no two        *)
(* requests wrote it at a time.  A crash in the middle of an earlier write *)
(* does not matter either.                                                 *)
(***************************************************************************)
RestartKeepsMode ==
  [][(\A h \in Handler : at[h] = "idle") /\ ~unsaved /\ ~crossed /\ cfgMode = active
        /\ Restart
       => active' = active]_vars

(***************************************************************************)
(* A toggle is answered, although it may wait in Toggle for a loop that is *)
(* busy with a run of an hour, and its signal is heard, unless the process *)
(* exits.                                                                  *)
(***************************************************************************)
ToggleIsAnswered ==
  \A h \in Handler : at[h] = "flipped" ~> at[h] = "idle" \/ loop = "exited"

ToggleIsHeard == toggleCh # <<>> ~> toggleCh = <<>> \/ loop = "exited"
=============================================================================
