---------------------------- MODULE MCCollection ----------------------------
(* A small instance of Collection for TLC: two ranges, of which the last  *)
(* is as small as its share may become; lists with and without ports.      *)
EXTENDS Collection

MCSize   == <<2, 2>>
MCListed == [s \in Custom |-> {1}]
Address  == [range |-> 1, place |-> 0]
MCLines  == [s \in Source |-> {[ip |-> Address, port |-> p] :
                                p \in IF s = "official" THEN {0, 8080} ELSE {443, 8080}}]

(* Requests change every field: the count to its default, MaxIPs to none, *)
(* and one port goes away.                                                 *)
MCSettings ==
  {[count |-> 5, cap |-> 0, ports |-> {443}],
   [count |-> 0, cap |-> 2, ports |-> {443, 80}]}

(* Nothing changes it. *)
OneSetting == {[count |-> 3, cap |-> 0, ports |-> {443}]}
=============================================================================
