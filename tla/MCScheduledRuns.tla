-------------------------- MODULE MCScheduledRuns --------------------------
(* ScheduledRuns for TLC: keys of the same kind are alike. *)
EXTENDS ScheduledRuns, TLC

KeySymmetry == Permutations(Ours) \cup Permutations(Foreign)
=============================================================================
