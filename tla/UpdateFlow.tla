----------------------------- MODULE UpdateFlow -----------------------------
(***************************************************************************)
(* What the update manager promises to those who look at its state (the    *)
(* comments of src/updater/manager.go and the dashboard): a version check  *)
(* or an update owns the state from the moment it makes it "checking"      *)
(* until it gives it back as "idle" or "failed", nobody else changes it    *)
(* meanwhile, and an update goes through its phases in order.              *)
(***************************************************************************)
VARIABLES state, owner

vars == <<state, owner>>

Free(s) == s \in {"idle", "failed"}

(* The phases an update may go through, each with the next. *)
Forward == {<<"checking", "downloading">>, <<"downloading", "verifying">>,
            <<"verifying", "extracting">>, <<"extracting", "installing">>,
            <<"installing", "restarting">>}

(* Phases from which an update ends without a failure: nothing to do, a    *)
(* cancelled download, a restart that is left to the user.                 *)
Stops == {"checking", "downloading", "restarting"}

Init == state = "idle" /\ owner = "nobody"

Begin(who) ==
  /\ owner = "nobody" /\ Free(state)
  /\ owner' = who
  /\ state' = "checking"

Advance ==
  /\ owner = "update" /\ UNCHANGED owner
  /\ \E f \in Forward : state = f[1] /\ state' = f[2]

(* A check gives the state back as idle, whatever it found. *)
End ==
  /\ owner # "nobody" /\ owner' = "nobody"
  /\ \/ state \in Stops /\ state' = "idle"
     \/ owner = "update" /\ state' = "failed"

(* The restart has been ordered and nothing has come of it yet. *)
Ordered ==
  /\ owner = "update" /\ owner' = "nobody"
  /\ state = "restarting" /\ UNCHANGED state

Next == Begin("check") \/ Begin("update") \/ Advance \/ End \/ Ordered

Spec == Init /\ [][Next]_vars
=============================================================================
