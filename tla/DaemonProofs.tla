---------------------------- MODULE DaemonProofs ----------------------------
(***************************************************************************)
(* Safety of the switch of the scheduled runs, for any number of handlers, *)
(* any settings and any restarts.                                          *)
(***************************************************************************)
EXTENDS Daemon, TLAPS

(* Unless two requests have met, at most one is being served. *)
Alone ==
  ~crossed => \A g, h \in Handler : at[g] # "idle" /\ at[h] # "idle" => g = h

(* A toggle that has not sent its signal yet carries the mode, *)
Telling(h) == at[h] \in {"flipped", "full", "drained"}

Carried == ~crossed => \A h \in Handler : Telling(h) => value[h] = active

(* and once it has, a signal that waits is that of the mode. *)
Told == ~crossed /\ \A h \in Handler : ~Telling(h)

SignalIsTheMode == Told /\ toggleCh # <<>> => toggleCh = <<active>>

(***************************************************************************)
(* With nothing left to hear, the timers are those of the mode; during a   *)
(* run the mode is on, as the signal of a toggle would still wait.         *)
(***************************************************************************)
Followed ==
  Told /\ toggleCh = <<>> =>
    /\ loop = "select" => IF active THEN "collect" \in armed ELSE armed = {} /\ shown = {}
    /\ loop = "collecting" => active
    /\ loop = "pushing" => active /\ "collect" \in armed

(* Nothing is armed before the loop has begun. *)
Fresh == loop \in {"first", "starting"} => armed = {} /\ shown = {}

(* What a lone request has looked at stays so until it acts. *)
ChecksHold ==
  ~crossed => \A h \in Handler :
    /\ at[h] = "checked" => ~manual
    /\ at[h] = "allowed" => ~active

IInv ==
  /\ TypeOK
  /\ Alone /\ Carried /\ SignalIsTheMode /\ Followed /\ Fresh
  /\ ChecksHold /\ ManualExcludesActive

-----------------------------------------------------------------------------
LEMMA InitIInv ==
  ASSUME SwitchAssumption, Init
  PROVE  IInv
BY DEF SwitchAssumption, Init, IInv, TypeOK, Alone, Carried, Told, Telling, SignalIsTheMode,
       Followed, Fresh, ChecksHold, ManualExcludesActive, Entry, LoadedMode, LoopPlaces,
       HandlerPlaces, Timers

LEMMA HeadOfOne == \A b : Head(<<b>>) = b
OBVIOUS

(* The loop: it changes nothing that a request has looked at. *)
LEMMA LoopTypeOK ==
  ASSUME TypeOK, Loop, UNCHANGED crossed
  PROVE  TypeOK'
<1> USE DEF TypeOK, LoopPlaces, Timers, LoopOnly, modeVars
<1>1. CASE FirstRun
  BY <1>1 DEF FirstRun
<1>2. CASE Starting
  BY <1>2 DEF Starting, StartTimers
<1>3. CASE Hear
  BY <1>3 DEF Hear, StartTimers, StopTimers
<1>4. CASE Signal
  BY <1>4 DEF Signal
<1>5. ASSUME NEW timer \in Timers, Fire(timer) PROVE TypeOK'
  BY <1>5 DEF Fire, Run
<1>6. ASSUME NEW timer \in Timers, Rearm(timer)
      PROVE  (armed \subseteq Timers /\ shown \subseteq Timers)'
  BY <1>6 DEF Rearm
<1>7. ASSUME NEW timer \in Timers, RunEnds(timer) PROVE TypeOK'
  BY <1>6, <1>7 DEF RunEnds
<1>8. ASSUME NEW timer \in Timers, FireInVain(timer) PROVE TypeOK'
  BY <1>6, <1>8 DEF FireInVain
<1>. QED
  BY <1>1, <1>2, <1>3, <1>4, <1>5, <1>7, <1>8 DEF Loop, Timed

LEMMA LoopIInv ==
  ASSUME IInv, Loop, UNCHANGED crossed
  PROVE  IInv'
<1>1. TypeOK'
  BY LoopTypeOK DEF IInv
<1>2. UNCHANGED <<active, pushOn, manual, at, value>>
  BY DEF Loop, FirstRun, Starting, Hear, Signal, Timed, Fire, RunEnds, FireInVain, LoopOnly
<1>3. (Alone /\ Carried /\ ChecksHold /\ ManualExcludesActive)'
  BY <1>2 DEF IInv, Alone, Carried, Telling, ChecksHold, ManualExcludesActive
<1>4. Told' <=> Told
  BY <1>2 DEF Told, Telling
<1>5. (SignalIsTheMode /\ Followed /\ Fresh)'
  <2> USE <1>2, <1>4 DEF IInv, SignalIsTheMode, Followed, Fresh
  <2>1. CASE FirstRun
    BY <2>1 DEF FirstRun
  <2>2. CASE Starting
    BY <2>2 DEF Starting, StartTimers, Timers
  <2>3. CASE Hear
    <3>1. SignalIsTheMode' /\ Fresh' /\ loop' = "select"
      BY <2>3 DEF Hear
    <3>2. ASSUME Told' PROVE Head(toggleCh) <=> active
      BY <2>3, <3>2, HeadOfOne DEF Hear, TypeOK
    <3>3. Followed'
      BY <2>3, <3>1, <3>2 DEF Hear, StartTimers, StopTimers, Timers
    <3>. QED
      BY <3>1, <3>3
  <2>4. CASE Signal
    BY <2>4 DEF Signal
  <2>5. ASSUME NEW timer \in Timers, Fire(timer)
        PROVE  (SignalIsTheMode /\ Followed /\ Fresh)'
    BY <2>5 DEF Fire, Run, Timers
  <2>6. ASSUME NEW timer \in Timers, RunEnds(timer)
        PROVE  (SignalIsTheMode /\ Followed /\ Fresh)'
    BY <2>6 DEF RunEnds, Run, Rearm, Timers
  <2>7. ASSUME NEW timer \in Timers, FireInVain(timer)
        PROVE  (SignalIsTheMode /\ Followed /\ Fresh)'
    BY <2>7 DEF FireInVain, Rearm, Timers
  <2>. QED
    BY <2>1, <2>2, <2>3, <2>4, <2>5, <2>6, <2>7 DEF Loop, Timed
<1>. QED
  BY <1>1, <1>3, <1>5 DEF IInv

-----------------------------------------------------------------------------
(* The requests *)

Served(h) == Request(h) \/ Toggle(h) \/ StartJob(h) \/ Settings(h)

LEMMA ServedTypeOK ==
  ASSUME SwitchAssumption, TypeOK, NEW h \in Handler, Served(h),
         crossed' = (crossed \/ Meet)
  PROVE  TypeOK'
<1> USE DEF SwitchAssumption, TypeOK, HandlerPlaces, Move, Carry, Forget, otherVars, loopVars,
            modeVars
<1>0. crossed' \in BOOLEAN
  BY DEF Meet
<1>1. CASE Request(h)
  BY <1>0, <1>1 DEF Request, ToggleCheck, TriggerCheck, PostConfig
<1>2. CASE Flip(h) \/ TrySend(h) \/ Empty(h) \/ SendWaiting(h)
  BY <1>0, <1>2 DEF Flip, TrySend, Empty, SendWaiting
<1>3. CASE NoteMode(h) \/ BeginSave(h) \/ EndSave(h) \/ SaveFails(h)
  BY <1>0, <1>3 DEF NoteMode, BeginSave, EndSave, SaveFails
<1>4. CASE StartJob(h) \/ Settings(h)
  BY <1>0, <1>4 DEF StartJob, Settings, ConfigSaved, ConfigApplied
<1>. QED
  BY <1>1, <1>2, <1>3, <1>4 DEF Served, Toggle

(***************************************************************************)
(* If no two requests have met, all others are idle before and after, and  *)
(* the loop stands still.                                                  *)
(***************************************************************************)
LEMMA ServedAlone ==
  ASSUME IInv, NEW h \in Handler, Served(h), crossed' = (crossed \/ Meet)
  PROVE  /\ Alone'
         /\ ~crossed' =>
              /\ ~crossed
              /\ \A g \in Handler \ {h} : at[g] = "idle" /\ at'[g] = "idle"
         /\ UNCHANGED <<loop, armed, shown>>
<1>1. /\ UNCHANGED <<loop, armed, shown>>
      /\ \E from, to \in HandlerPlaces : Move(h, from, to) /\ (from # "idle" \/ to # "idle")
  BY DEF Served, Request, ToggleCheck, TriggerCheck, PostConfig, Toggle, Flip, TrySend, Empty,
         SendWaiting, NoteMode, BeginSave, EndSave, SaveFails, StartJob, Settings, ConfigSaved,
         ConfigApplied, loopVars, HandlerPlaces, Move
<1>2. /\ at'[h] \in HandlerPlaces
      /\ \A g \in Handler \ {h} : at'[g] = at[g]
      /\ at[h] # "idle" \/ at'[h] # "idle"
  BY <1>1 DEF IInv, TypeOK, Move
<1>3. ASSUME ~crossed'
      PROVE  ~crossed /\ \A g, k \in Handler : at'[g] # "idle" /\ at'[k] # "idle" => g = k
  BY <1>3 DEF Meet, IInv, TypeOK
<1>4. Alone'
  BY <1>3 DEF Alone
<1>5. ASSUME ~crossed', NEW g \in Handler \ {h}
      PROVE  at[g] = "idle" /\ at'[g] = "idle"
  <2>1. CASE at[h] # "idle"
    BY <1>2, <1>3, <1>5, <2>1 DEF IInv, Alone
  <2>2. CASE at'[h] # "idle"
    BY <1>2, <1>3, <1>5, <2>2
  <2>. QED
    BY <1>2, <2>1, <2>2
<1>. QED
  BY <1>1, <1>3, <1>4, <1>5

LEMMA ServedIInv ==
  ASSUME SwitchAssumption, IInv, NEW h \in Handler, Served(h),
         crossed' = (crossed \/ Meet)
  PROVE  IInv'
<1>1. TypeOK' /\ Alone' /\ Fresh'
  BY ServedTypeOK, ServedAlone DEF IInv, Fresh
<1>2. CASE crossed'
  BY <1>1, <1>2 DEF IInv, Carried, Told, SignalIsTheMode, Followed, ChecksHold,
                    ManualExcludesActive
<1>3. CASE ~crossed'
  <2>1. /\ ~crossed /\ UNCHANGED <<loop, armed, shown>>
        /\ \A g \in Handler \ {h} : at[g] = "idle" /\ at'[g] = "idle"
    BY <1>3, ServedAlone
  <2>2. /\ Told <=> ~Telling(h)
        /\ Told' <=> ~Telling(h)'
        /\ Carried <=> (Telling(h) => value[h] = active)
        /\ Carried' <=> (Telling(h) => value[h] = active)'
        /\ ChecksHold <=> (at[h] = "checked" => ~manual) /\ (at[h] = "allowed" => ~active)
        /\ ChecksHold' <=> ((at[h] = "checked" => ~manual) /\ (at[h] = "allowed" => ~active))'
    BY <1>3, <2>1 DEF Told, Telling, Carried, ChecksHold
  <2> USE <1>1, <1>3, <2>1, <2>2 DEF IInv, TypeOK, Telling, SignalIsTheMode, Followed,
                               ManualExcludesActive, Move, Carry, Forget, otherVars, loopVars
  <2>3. CASE Request(h)
    BY <2>3 DEF Request, ToggleCheck, TriggerCheck, PostConfig
  <2>4. CASE Flip(h)
    BY <2>4 DEF Flip
  <2>5. CASE TrySend(h)
    <3>1. value[h] = active /\ active' = active
      BY <2>5 DEF TrySend
    <3>2. toggleCh' = <<value[h]>> => toggleCh' = <<active'>>
      BY ONLY <3>1
    <3>3. UNCHANGED <<active, manual, value>> /\ at[h] = "flipped"
      BY <2>5 DEF TrySend
    <3>4. CASE toggleCh' = <<value[h]>> /\ at'[h] = "sent"
      BY <3>2, <3>3, <3>4
    <3>5. CASE at'[h] = "full"
      BY <3>3, <3>5
    <3>. QED
      BY <2>5, <3>4, <3>5 DEF TrySend
  <2>6. CASE Empty(h)
    BY <2>6 DEF Empty
  <2>7. CASE SendWaiting(h)
    <3>1. value[h] = active /\ active' = active
      BY <2>7 DEF SendWaiting
    <3>2. toggleCh' = <<value[h]>> => toggleCh' = <<active'>>
      BY ONLY <3>1
    <3>3. toggleCh' = <<value[h]>> /\ at'[h] = "sent" /\ UNCHANGED <<active, manual, value>>
      BY <2>7 DEF SendWaiting
    <3>. QED
      BY <3>2, <3>3
  <2>8. CASE NoteMode(h) \/ BeginSave(h) \/ EndSave(h) \/ SaveFails(h)
    BY <2>8 DEF NoteMode, BeginSave, EndSave, SaveFails
  <2>9. CASE StartJob(h)
    BY <2>9 DEF StartJob
  <2>10. CASE Settings(h)
    BY <2>10 DEF Settings, ConfigSaved, ConfigApplied
  <2>. QED
    BY <2>3, <2>4, <2>5, <2>6, <2>7, <2>8, <2>9, <2>10 DEF Served, Toggle
<1>. QED
  BY <1>2, <1>3

LEMMA NextIInv ==
  ASSUME SwitchAssumption, IInv, [Next]_<<vars, crossed>>
  PROVE  IInv'
<1>1. CASE Loop /\ UNCHANGED crossed
  BY <1>1, LoopIInv
<1>2. CASE ManualEnds /\ UNCHANGED crossed
  BY <1>2 DEF ManualEnds, otherVars, loopVars, modeVars, IInv, TypeOK, Alone, Carried, Told,
              Telling, SignalIsTheMode, Followed, Fresh, ChecksHold, ManualExcludesActive
<1>3. ASSUME NEW h \in Handler, Served(h), crossed' = (crossed \/ Meet) PROVE IInv'
  BY <1>3, ServedIInv
<1>4. CASE Restart /\ crossed' = FALSE
  BY <1>4 DEF Restart, SwitchAssumption, IInv, TypeOK, Alone, Carried, Told, Telling,
              SignalIsTheMode, Followed, Fresh, ChecksHold, ManualExcludesActive, Entry,
              LoadedMode, LoopPlaces, HandlerPlaces, Timers
<1>5. CASE UNCHANGED <<vars, crossed>>
  <2> USE <1>5 DEF vars, otherVars, loopVars, modeVars, IInv
  <2>1. TypeOK'
    BY DEF TypeOK
  <2>2. (Alone /\ Carried /\ ChecksHold /\ ManualExcludesActive)'
    BY DEF Alone, Carried, Telling, ChecksHold, ManualExcludesActive
  <2>3. (SignalIsTheMode /\ Followed /\ Fresh)'
    BY DEF SignalIsTheMode, Followed, Fresh, Told, Telling
  <2>. QED
    BY <2>1, <2>2, <2>3
<1>. QED
  BY <1>1, <1>2, <1>3, <1>4, <1>5 DEF Next, Served

LEMMA Inductive == Spec => []IInv
<1>1. Init => IInv
  BY SwitchAssumption, InitIInv
<1>2. IInv /\ [Next]_<<vars, crossed>> => IInv'
  BY SwitchAssumption, NextIInv
<1>. QED
  BY <1>1, <1>2, PTL DEF Spec

-----------------------------------------------------------------------------
(***************************************************************************)
(* config.yaml: when nothing is being stored and the last save has worked, *)
(* it holds the mode in memory.                                            *)
(***************************************************************************)
Storing(h) == at[h] \in {"noted", "writing", "posting", "posted"}

FileIsTheMode ==
  ~unsaved /\ ~crossed /\ (\A h \in Handler : ~Storing(h)) =>
    (saved = <<TRUE>> <=> cfgMode)

StoresTheMode ==
  ~crossed => \A h \in Handler :
    /\ at[h] = "writing" => value[h] = cfgMode
    /\ at[h] = "posted" => saved = <<value[h]>>

FInv == FileIsTheMode /\ StoresTheMode

LEMMA OneValue == \A b \in BOOLEAN : <<b>> = <<TRUE>> <=> b
OBVIOUS

LEMMA ServedFInv ==
  ASSUME IInv, FInv, NEW h \in Handler, Served(h), crossed' = (crossed \/ Meet)
  PROVE  FInv'
<1>1. CASE crossed'
  BY <1>1 DEF FInv, FileIsTheMode, StoresTheMode
<1>2. CASE ~crossed'
  <2>1. ~crossed /\ \A g \in Handler \ {h} : at[g] = "idle" /\ at'[g] = "idle"
    BY <1>2, ServedAlone
  <2>2. /\ (\A g \in Handler : ~Storing(g)) <=> ~Storing(h)
        /\ (\A g \in Handler : ~Storing(g)') <=> ~Storing(h)'
        /\ StoresTheMode => /\ at[h] = "writing" => value[h] = cfgMode
                            /\ at[h] = "posted" => saved = <<value[h]>>
        /\ (/\ at[h] = "writing" => value[h] = cfgMode
            /\ at[h] = "posted" => saved = <<value[h]>>)' => StoresTheMode'
    BY <1>2, <2>1 DEF Storing, StoresTheMode
  <2>3. value[h] \in BOOLEAN /\ cfgMode \in BOOLEAN /\ value \in [Handler -> BOOLEAN]
        /\ at \in [Handler -> HandlerPlaces]
    BY DEF IInv, TypeOK
  <2> USE <1>2, <2>1, <2>2, <2>3, OneValue
      DEF FInv, FileIsTheMode, Storing, Move, Carry, Forget, modeVars
  <2>4. CASE ToggleCheck(h) \/ TriggerCheck(h)
    BY <2>4 DEF ToggleCheck, TriggerCheck
  <2>5. CASE PostConfig(h)
    BY <2>5 DEF PostConfig
  <2>6. CASE Flip(h) \/ TrySend(h) \/ Empty(h) \/ SendWaiting(h)
    BY <2>6 DEF Flip, TrySend, Empty, SendWaiting
  <2>7. CASE NoteMode(h)
    BY <2>7 DEF NoteMode
  <2>8. CASE BeginSave(h)
    BY <2>8 DEF BeginSave
  <2>9. CASE EndSave(h)
    BY <2>9 DEF EndSave
  <2>10. CASE SaveFails(h) \/ StartJob(h)
    BY <2>10 DEF SaveFails, StartJob
  <2>11. CASE ConfigSaved(h)
    BY <2>11 DEF ConfigSaved
  <2>12. CASE ConfigApplied(h)
    BY <2>12 DEF ConfigApplied
  <2>. QED
    BY <2>4, <2>5, <2>6, <2>7, <2>8, <2>9, <2>10, <2>11, <2>12
       DEF Served, Request, Toggle, Settings
<1>. QED
  BY <1>1, <1>2

LEMMA NextFInv ==
  ASSUME ~DaemonFlag, IInv, FInv, [Next]_<<vars, crossed>>
  PROVE  FInv'
<1>1. ASSUME NEW h \in Handler, Served(h), crossed' = (crossed \/ Meet) PROVE FInv'
  BY <1>1, ServedFInv
<1>2. CASE Restart /\ crossed' = FALSE
  BY <1>2 DEF Restart, LoadedMode, FInv, FileIsTheMode, StoresTheMode
<1>3. CASE UNCHANGED <<modeVars, at, value, crossed>>
  BY <1>3 DEF modeVars, FInv, FileIsTheMode, StoresTheMode, Storing
<1>4. Loop \/ ManualEnds => UNCHANGED <<modeVars, at, value>>
  BY DEF Loop, FirstRun, Starting, Hear, Signal, Timed, Fire, RunEnds, FireInVain, LoopOnly,
         ManualEnds
<1>5. UNCHANGED <<vars, crossed>> => UNCHANGED <<modeVars, at, value, crossed>>
  BY DEF vars
<1>. QED
  BY <1>1, <1>2, <1>3, <1>4, <1>5 DEF Next, Served

-----------------------------------------------------------------------------
(***************************************************************************)
(* Type correctness; the signal channel of DaemonControl never holds more  *)
(* than its capacity of one.                                               *)
(***************************************************************************)
THEOREM TypeCorrect == Spec => []TypeOK
<1>1. IInv => TypeOK
  BY DEF IInv
<1>. QED
  BY <1>1, Inductive, PTL

(***************************************************************************)
(* TimersFollowMode for any number of handlers: when runDaemon has heard   *)
(* all that was told, the collection timer is armed if and only if the     *)
(* mode is on, unless two requests have met.                               *)
(***************************************************************************)
THEOREM TimersFollow == Spec => []TimersFollowMode
<1>1. IInv => TimersFollowMode
  BY DEF IInv, Followed, Told, Telling, TimersFollowMode, Heard
<1>. QED
  BY <1>1, Inductive, PTL

(***************************************************************************)
(* ManualExcludesActive for any number of handlers: a manual job runs only *)
(* while the mode is off, unless two requests have met.                    *)
(***************************************************************************)
THEOREM ManualExclusion == Spec => []ManualExcludesActive
<1>1. IInv => ManualExcludesActive
  BY DEF IInv
<1>. QED
  BY <1>1, Inductive, PTL

(***************************************************************************)
(* RestartKeepsMode for any number of handlers, of a process that is not   *)
(* started with -daemon, a flag that overrides config.yaml.                *)
(***************************************************************************)
THEOREM ModeSurvives ==
  ASSUME ~DaemonFlag
  PROVE  Spec => RestartKeepsMode
<1> DEFINE Quiet == (\A h \in Handler : at[h] = "idle") /\ ~unsaved /\ ~crossed
                    /\ cfgMode = active
<1>1. Init => FInv
  <2> SUFFICES ASSUME Init PROVE FInv
    OBVIOUS
  <2>1. cfgMode <=> DaemonFlag \/ saved = <<TRUE>>
    BY Zenon DEF Init, LoadedMode
  <2>2. \A h \in Handler : at[h] = "idle"
    BY DEF Init
  <2>. QED
    BY <2>1, <2>2 DEF FInv, FileIsTheMode, StoresTheMode
<1>2. IInv /\ FInv /\ [Next]_<<vars, crossed>> => FInv'
  BY NextFInv
<1>3. IInv /\ FInv => [Quiet /\ Restart => active' = active]_vars
  BY DEF FInv, FileIsTheMode, Storing, Restart, LoadedMode, IInv, TypeOK
<1>. QED
  BY <1>1, <1>2, <1>3, Inductive, PTL DEF Spec, RestartKeepsMode
=============================================================================
