----------------------------- MODULE MCPublish -----------------------------
(* Publish for TLC: which address is which does not matter. *)
EXTENDS Publish, TLC

Addressless == Permutations(IP)
=============================================================================
