---------------------------- MODULE ResultStream ----------------------------
(***************************************************************************)
(* What the pools of worker goroutines promise to those who call them: one *)
(* answer for every task, and then the end of the stream.  JobPipelines is *)
(* written against this promise; WorkerPool keeps it.                      *)
(***************************************************************************)
CONSTANT Task

VARIABLES
  staffed,  \* the pool has at least one worker
  answered, \* the tasks whose answer the caller has received
  ended     \* the caller knows that no more will come

vars == <<staffed, answered, ended>>

Init ==
  /\ staffed \in BOOLEAN
  /\ answered = {}
  /\ ended = FALSE

(* Answers come one by one, or all together at the end. *)
Answer ==
  /\ ~ended /\ staffed
  /\ \E more \in SUBSET (Task \ answered) :
       more # {} /\ answered' = answered \cup more
  /\ UNCHANGED <<staffed, ended>>

(* Nobody to answer: the stream ends at once, and that is no error. *)
End ==
  /\ ~ended
  /\ staffed => answered = Task
  /\ ended' = TRUE
  /\ UNCHANGED <<staffed, answered>>

Next == Answer \/ End

Spec == Init /\ [][Next]_vars
=============================================================================
