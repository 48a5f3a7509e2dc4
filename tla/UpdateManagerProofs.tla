------------------------ MODULE UpdateManagerProofs ------------------------
(***************************************************************************)
(* Safety of the one-click update, for any number of updates and callers.  *)
(***************************************************************************)
EXTENDS UpdateManager, TLAPS

(***************************************************************************)
(* The strengthening: a check, too, finds the state as it has set it.  So  *)
(* whoever owns the state keeps it out of {"idle", "failed"}, and the gate *)
(* of Apply and Check lets nobody else in.                                 *)
(***************************************************************************)
StateIsTheChecks == \A h \in Caller : Checking(h) => state = "checking"

(* A caller that goes on to call a cancelFunc has one. *)
PickedIsSome == \A h \in Caller : at[h] = "picked" => picked[h] # NoUpdate

IInv ==
  /\ TypeOK
  /\ OneAtATime
  /\ StateIsTheFlows
  /\ StateIsTheChecks
  /\ PickedIsSome

-----------------------------------------------------------------------------
(* Whoever finds the gate open is alone. *)
LEMMA GateIsOpen ==
  ASSUME IInv, Free(state)
  PROVE  /\ \A u \in Update : ~Running(u)
         /\ \A h \in Caller : ~Checking(h)
BY DEF IInv, TypeOK, StateIsTheFlows, StateIsTheChecks, PickedIsSome, Free, Running, StateOf, Phases

(* Apply and Check enter one by one. *)
LEMMA ApplyIInv ==
  ASSUME IInv, UNCHANGED up, NEW u \in Update, Apply(u)
  PROVE  IInv'
BY GateIsOpen
   DEF Apply, IInv, TypeOK, OneAtATime, StateIsTheFlows, StateIsTheChecks, PickedIsSome,
       Running, Checking, Phases, StateOf, States, callerVars

LEMMA CheckBeginIInv ==
  ASSUME IInv, UNCHANGED up, NEW h \in Caller, CheckBegin(h)
  PROVE  IInv'
BY GateIsOpen
   DEF CheckBegin, IInv, TypeOK, OneAtATime, StateIsTheFlows, StateIsTheChecks, PickedIsSome,
       Running, Checking, Phases, StateOf, States

(* The rest of a check, a cancel and the background check. *)
LEMMA CallIInv ==
  ASSUME IInv, UNCHANGED up,
         BackgroundCheck \/ \E h \in Caller : CancelPick(h) \/ Serve(h)
  PROVE  IInv'
<1> USE DEF IInv, TypeOK, OneAtATime, StateIsTheFlows, StateIsTheChecks, PickedIsSome,
            Running, Checking, Manifests, States
<1>1. CASE BackgroundCheck
  BY <1>1 DEF BackgroundCheck, Fetched, callerVars
<1>2. ASSUME NEW h \in Caller, CancelPick(h) PROVE IInv'
  <2>1. \A g \in Caller : Checking(g)' <=> Checking(g)
    BY <1>2 DEF CancelPick, callerVars
  <2>2. TypeOK'
    BY <1>2 DEF CancelPick, callerVars
  <2>3. PickedIsSome'
    BY <1>2 DEF CancelPick, callerVars
  <2>. QED
    BY <1>2, <2>1, <2>2, <2>3 DEF CancelPick
<1>3. ASSUME NEW h \in Caller, CheckFetch(h) PROVE IInv'
  BY <1>3 DEF CheckFetch, Fetched
<1>4. ASSUME NEW h \in Caller, CheckEnd(h) PROVE IInv'
  <2>1. state' = "idle" /\ \A u \in Update : ~Running(u)
    BY <1>4 DEF CheckEnd
  <2>2. \A g \in Caller : ~Checking(g)'
    BY <1>4 DEF CheckEnd
  <2>. QED
    BY <1>4, <2>1, <2>2 DEF CheckEnd
<1>5. ASSUME NEW h \in Caller, CancelCall(h) PROVE IInv'
  BY <1>5 DEF CancelCall, managerVars
<1>. QED
  BY <1>1, <1>2, <1>3, <1>4, <1>5 DEF Serve

(***************************************************************************)
(* Each step of an update moves it from one phase, which it is alone in,   *)
(* to another or to its end, and sets the state that goes with it.         *)
(***************************************************************************)
LEMMA RunShape ==
  ASSUME IInv, NEW u \in Update, Run(u) \/ Panic(u)
  PROVE  /\ Running(u)
         /\ \E p \in Phases \cup {"over"} :
              /\ flow' = [flow EXCEPT ![u] = p]
              /\ p # "over" => state' = StateOf(p)
              /\ p = "over" => state' \in {"idle", "failed", "restarting"}
         /\ UNCHANGED <<cancelFunc, ctxDone, at, picked>>
         /\ manifest' \in Manifests /\ replaced' \subseteq Update
<1> USE DEF IInv, TypeOK, StateIsTheFlows, Running, To, SetState, SetError, BackToIdle,
            RunOnly, callerVars, Phases, StateOf, Manifests
<1>1. CASE Begin(u)
  BY <1>1 DEF Begin
<1>2. CASE Fetch(u)
  BY <1>2 DEF Fetch
<1>3. CASE Asset(u)
  BY <1>3 DEF Asset
<1>4. CASE Download(u)
  BY <1>4 DEF Download
<1>5. CASE Verify(u)
  BY <1>5 DEF Verify
<1>6. CASE Extract(u)
  BY <1>6 DEF Extract
<1>7. CASE Install(u)
  BY <1>7 DEF Install
<1>8. CASE OrderRestart(u)
  BY <1>8 DEF OrderRestart
<1>9. CASE RestartReturns(u)
  BY <1>9 DEF RestartReturns
<1>10. CASE Panic(u)
  BY <1>10 DEF Panic
<1>. QED
  BY <1>1, <1>2, <1>3, <1>4, <1>5, <1>6, <1>7, <1>8, <1>9, <1>10 DEF Run

LEMMA RunIInv ==
  ASSUME IInv, UNCHANGED up, NEW u \in Update, Run(u) \/ Panic(u)
  PROVE  IInv'
<1>1. PICK p \in Phases \cup {"over"} :
        /\ flow' = [flow EXCEPT ![u] = p]
        /\ p # "over" => state' = StateOf(p)
        /\ p = "over" => state' \in {"idle", "failed", "restarting"}
  BY RunShape
<1>2. /\ \A v \in Update : Running(v)' => v = u
      /\ \A h \in Caller : ~Checking(h)'
  BY <1>1, RunShape DEF IInv, TypeOK, OneAtATime, Running, Checking
<1>3. TypeOK'
  BY <1>1, RunShape DEF IInv, TypeOK, StateOf, States, Phases
<1>4. StateIsTheFlows'
  BY <1>1, <1>2 DEF IInv, TypeOK, StateIsTheFlows, Running, Phases
<1>5. PickedIsSome'
  BY RunShape DEF IInv, PickedIsSome
<1>. QED
  BY <1>2, <1>3, <1>4, <1>5 DEF IInv, OneAtATime, StateIsTheChecks, PickedIsSome

LEMMA NextIInv == IInv /\ [Next]_vars => IInv'
<1> SUFFICES ASSUME IInv, [Next]_vars PROVE IInv'
  OBVIOUS
<1>1. ASSUME NEW u \in Update, Live(Apply(u) \/ Run(u) \/ Panic(u)) PROVE IInv'
  BY <1>1, ApplyIInv, RunIInv DEF Live
<1>2. ASSUME NEW h \in Caller, Live(CheckBegin(h) \/ CancelPick(h) \/ Serve(h)) PROVE IInv'
  BY <1>2, CheckBeginIInv, CallIInv DEF Live
<1>3. CASE Live(BackgroundCheck)
  BY <1>3, CallIInv DEF Live
<1>4. CASE Replaced \/ UNCHANGED vars
  BY <1>4 DEF Replaced, vars, managerVars, callerVars, IInv, TypeOK, OneAtATime,
              StateIsTheFlows, StateIsTheChecks, PickedIsSome, Running, Checking
<1>. QED
  BY <1>1, <1>2, <1>3, <1>4 DEF Next

LEMMA InitIInv == Init => IInv
BY DEF Init, IInv, TypeOK, OneAtATime, StateIsTheFlows, StateIsTheChecks, PickedIsSome,
       Running, Checking, States, Manifests, Phases

THEOREM Inductive == Spec => []IInv
BY InitIInv, NextIInv, PTL DEF Spec

(* Every variable keeps to the values the code gives it. *)
THEOREM TypeCorrect == Spec => []TypeOK
<1>1. IInv => TypeOK
  BY DEF IInv
<1>. QED  BY <1>1, Inductive, PTL

(***************************************************************************)
(* However Apply, Check, Cancel and the running goroutines interleave, at  *)
(* most one update or check is under way (Manager's gate).                 *)
(***************************************************************************)
THEOREM UpdateExclusion == Spec => []OneAtATime
BY Inductive, PTL DEF IInv

(* The state shown during an update is the state of its phase. *)
THEOREM StateIsTrue == Spec => []StateIsTheFlows
BY Inductive, PTL DEF IInv

-----------------------------------------------------------------------------
(* The manager implements UpdateFlow. *)

(* The owner named by the mapping. *)
LEMMA OwnerIs ==
  ASSUME IInv
  PROVE  /\ \A u \in Update : Running(u) => Owner = "update"
         /\ \A h \in Caller : Checking(h) => Owner = "check"
         /\ Free(state) => Owner = "nobody"
<1>1. \A u \in Update, h \in Caller : ~(Running(u) /\ Checking(h))
  BY DEF IInv, OneAtATime
<1>. QED
  BY <1>1, GateIsOpen DEF Owner

LEMMA ApplyFlow ==
  ASSUME IInv, UNCHANGED up, NEW u \in Update, Apply(u)
  PROVE  Flow!Next
<1>1. Running(u)'
  BY DEF Apply, Running, Phases, IInv, TypeOK
<1>2. Owner' = "update"
  BY <1>1 DEF Owner
<1>3. Owner = "nobody" /\ Flow!Free(state) /\ state' = "checking"
  BY OwnerIs DEF Apply, Free, Flow!Free
<1>. QED
  BY <1>2, <1>3 DEF Flow!Next, Flow!Begin

LEMMA RunFlow ==
  ASSUME IInv, UNCHANGED up, NEW u \in Update, Run(u) \/ Panic(u)
  PROVE  Flow!Next \/ UNCHANGED Flow!vars
<1>1. IInv' /\ Running(u) /\ Owner = "update"
  BY RunIInv, RunShape, OwnerIs
<1>2. CASE Running(u)'
  <2>1. Owner' = "update"
    BY <1>2 DEF Owner
  <2>2. state' = state \/ <<state, state'>> \in Flow!Forward
    BY <1>1, <1>2
       DEF Run, Begin, Fetch, Asset, Download, Verify, Extract, Install, OrderRestart,
           RestartReturns, Panic, To, SetState, SetError, BackToIdle, Running, Phases,
           IInv, TypeOK, StateIsTheFlows, StateOf, Flow!Forward
  <2>. QED
    BY <1>1, <2>1, <2>2 DEF Flow!Next, Flow!Advance, Flow!vars
<1>3. CASE ~Running(u)'
  <2>1. Owner' = "nobody"
    BY <1>1, <1>3, RunShape DEF Owner, IInv, TypeOK, OneAtATime, Running, Checking
  <2>2. \/ state \in Flow!Stops /\ state' = "idle"
        \/ state' = "failed"
        \/ state = "restarting" /\ state' = state
    BY <1>1, <1>3
       DEF Run, Begin, Fetch, Asset, Download, Verify, Extract, Install, OrderRestart,
           RestartReturns, Panic, To, SetState, SetError, BackToIdle, Running, Phases,
           IInv, TypeOK, StateIsTheFlows, StateOf, Flow!Stops
  <2>. QED
    BY <1>1, <2>1, <2>2 DEF Flow!Next, Flow!End, Flow!Ordered
<1>. QED
  BY <1>2, <1>3

LEMMA CallFlow ==
  ASSUME IInv, UNCHANGED up, NEW h \in Caller, CheckBegin(h) \/ CancelPick(h) \/ Serve(h)
  PROVE  Flow!Next \/ UNCHANGED Flow!vars
<1>1. CASE CheckBegin(h)
  <2>1. IInv' /\ Checking(h)'
    BY <1>1, CheckBeginIInv DEF CheckBegin, Checking, IInv, TypeOK
  <2>2. Owner' = "check"
    BY <2>1 DEF Owner, IInv, OneAtATime
  <2>3. Owner = "nobody" /\ Flow!Free(state) /\ state' = "checking"
    BY <1>1, OwnerIs DEF CheckBegin, Free, Flow!Free
  <2>. QED
    BY <2>2, <2>3 DEF Flow!Next, Flow!Begin
<1>2. CASE CheckEnd(h)
  <2>1. Checking(h) /\ state = "checking" /\ state' = "idle"
    BY <1>2 DEF CheckEnd, Checking, IInv, StateIsTheChecks
  <2>2. IInv' /\ Free(state')
    BY <1>2, <2>1, CallIInv DEF Serve, Free
  <2>3. Owner' = "nobody"
    BY <1>2, <2>1 DEF CheckEnd, Owner, Running, Checking, IInv, TypeOK, OneAtATime
  <2>. QED
    BY <2>1, <2>3, OwnerIs DEF Flow!Next, Flow!End, Flow!Stops
<1>3. CASE CheckFetch(h) \/ CancelCall(h) \/ CancelPick(h)
  <2>1. state' = state /\ flow' = flow
    BY <1>3 DEF CheckFetch, CancelCall, CancelPick, managerVars
  <2>2. \A g \in Caller : Checking(g)' <=> Checking(g)
    BY <1>3 DEF CheckFetch, CancelCall, CancelPick, callerVars, Checking, IInv, TypeOK
  <2>. QED
    BY <2>1, <2>2 DEF Owner, Running, Flow!vars
<1>. QED
  BY <1>1, <1>2, <1>3 DEF Serve

(***************************************************************************)
(* RefinesFlow: what users see of an update is what the comments of the    *)
(* manager promise, for any number of callers and updates.                 *)
(***************************************************************************)
THEOREM FlowRefinement == Spec => RefinesFlow
<1>1. Init => Flow!Init
  BY DEF Init, Flow!Init, Owner, Running, Checking, Phases
<1>2. IInv /\ [Next]_vars => [Flow!Next]_(Flow!vars)
  <2> SUFFICES ASSUME IInv, [Next]_vars PROVE Flow!Next \/ UNCHANGED Flow!vars
    OBVIOUS
  <2>1. ASSUME NEW u \in Update, Live(Apply(u) \/ Run(u) \/ Panic(u))
        PROVE  Flow!Next \/ UNCHANGED Flow!vars
    BY <2>1, ApplyFlow, RunFlow DEF Live
  <2>2. ASSUME NEW h \in Caller, Live(CheckBegin(h) \/ CancelPick(h) \/ Serve(h))
        PROVE  Flow!Next \/ UNCHANGED Flow!vars
    BY <2>2, CallFlow DEF Live
  <2>3. CASE Live(BackgroundCheck) \/ Replaced \/ UNCHANGED vars
    BY <2>3 DEF Live, BackgroundCheck, Replaced, vars, managerVars, callerVars,
                Owner, Running, Checking, Flow!vars
  <2>. QED
    BY <2>1, <2>2, <2>3 DEF Next
<1>. QED
  BY <1>1, <1>2, Inductive, PTL DEF Spec, RefinesFlow, Flow!Spec
=============================================================================
