--------------------------- MODULE UpdateProgress ---------------------------
(***************************************************************************)
(* Who hears of an update: the events that runUpdate broadcasts, Subscribe,*)
(* Unsubscribe and broadcast of src/updater/manager.go, and the stream of  *)
(* server-sent events behind the dashboard (src/web/update_apply.go).      *)
(* The updates themselves are those of UpdateFlow, which UpdateManager     *)
(* implements.                                                             *)
(*                                                                         *)
(* setState changes the state under mu and broadcasts after it has let go  *)
(* of it: the gate of Apply is open before the end of an update is told.   *)
(* A broadcast walks over the channels under a read lock of subMu; a       *)
(* channel is deleted under the write lock and closed after that.          *)
(***************************************************************************)
EXTENDS UpdateFlow, Naturals, Sequences

CONSTANTS
  Stream,    \* the requests for the progress, each with a channel of its own
  Buffer,    \* the capacity of a channel
  MaxUpdates \* bound: calls of Apply that succeed

ASSUME ProgressAssumption == Buffer \in Nat /\ MaxUpdates \in Nat

Update == 1 .. MaxUpdates

VARIABLES
  current, \* the update that runs or has run last
  unsent,  \* by update: the events its goroutine has yet to broadcast
  reach,   \* by update: the channels its broadcast, under the lock, has yet to try
  casting, \* the updates whose goroutine holds the read lock
  subscribers, \* Manager.subscribers
  stream,  \* where each handler is
  channel, \* the buffered events
  heard,   \* the last event written to each stream
  missed   \* history: the streams an event was dropped for

castVars   == <<unsent, reach, casting>>
streamVars == <<subscribers, stream, channel, heard, missed>>
pvars == <<vars, current, castVars, streamVars>>

Event(u, s) == [of |-> u, state |-> s]
Nothing == Event(0, "none")

PInit ==
  /\ Init
  /\ current = 0
  /\ unsent = [u \in Update |-> <<>>] /\ reach = [u \in Update |-> {}] /\ casting = {}
  /\ subscribers = {}
  /\ stream = [s \in Stream |-> "none"]
  /\ channel = [s \in Stream |-> <<>>]
  /\ heard = [s \in Stream |-> Nothing]
  /\ missed = {}

-----------------------------------------------------------------------------
(* The goroutine of an update *)

Quiet == UNCHANGED <<castVars, streamVars>>

Check ==
  /\ Begin("check") \/ (owner = "check" /\ End)
  /\ UNCHANGED current /\ Quiet

ApplyMutant ==
  /\ state # "downloading" /\ current < MaxUpdates
  /\ owner' = "update" /\ state' = "checking"
  /\ current' = current + 1
  /\ Quiet

Apply ==
  /\ current < MaxUpdates
  /\ Begin("update")
  /\ current' = current + 1
  /\ Quiet

Running(u) == owner = "update" /\ current = u

(* It goes on when all of what it did has been told. *)
Tell(u, events) ==
  /\ unsent[u] = <<>>
  /\ unsent' = [unsent EXCEPT ![u] = events]
  /\ UNCHANGED <<current, reach, casting, streamVars>>

StepMutant(u) ==
  /\ Running(u)
  /\ \/ Advance /\ Tell(u, IF state' = "restarting" THEN <<"restarting", "done">> ELSE <<state'>>)
     \/ End /\ Tell(u, IF state' = "failed" /\ state = "extracting" THEN <<>> ELSE <<state'>>)
     \/ Ordered /\ Tell(u, <<>>)

(* The last phase is told with the success; then the process waits to be   *)
(* replaced, or the restart is left to the user.                           *)
Step(u) ==
  /\ Running(u)
  /\ \/ Advance /\ Tell(u, IF state' = "restarting" THEN <<"restarting", "done">> ELSE <<state'>>)
     \/ End /\ Tell(u, <<state'>>)
     \/ Ordered /\ Tell(u, <<>>)

(* The message about the version check, and the callback of the download. *)
Repeat(u) ==
  /\ Running(u) /\ state \in {"checking", "downloading"}
  /\ Tell(u, <<state>>) /\ UNCHANGED vars

-----------------------------------------------------------------------------
(* broadcast *)

BroadcastBegin(u) ==
  /\ unsent[u] # <<>> /\ u \notin casting
  /\ casting' = casting \cup {u}
  /\ reach' = [reach EXCEPT ![u] = subscribers]
  /\ UNCHANGED <<vars, current, unsent, streamVars>>

(* A full channel is passed over. *)
Send(u, s) ==
  /\ u \in casting /\ s \in reach[u]
  /\ reach' = [reach EXCEPT ![u] = @ \ {s}]
  /\ IF Len(channel[s]) < Buffer
     THEN /\ channel' = [channel EXCEPT ![s] = Append(@, Event(u, Head(unsent[u])))]
          /\ UNCHANGED missed
     ELSE missed' = missed \cup {s} /\ UNCHANGED channel
  /\ UNCHANGED <<vars, current, unsent, casting, subscribers, stream, heard>>

BroadcastEnd(u) ==
  /\ u \in casting /\ reach[u] = {}
  /\ casting' = casting \ {u}
  /\ unsent' = [unsent EXCEPT ![u] = Tail(@)]
  /\ UNCHANGED <<vars, current, reach, streamVars>>

Broadcast(u) == BroadcastBegin(u) \/ BroadcastEnd(u) \/ \E s \in Stream : Send(u, s)

-----------------------------------------------------------------------------
(* updateProgressHandler *)

Subscribe(s) ==
  /\ stream[s] = "none" /\ casting = {}
  /\ subscribers' = subscribers \cup {s}
  /\ stream' = [stream EXCEPT ![s] = "open"]
  /\ UNCHANGED <<vars, current, castVars, channel, heard, missed>>

(* The stream ends with the event of a failure or a success. *)
Hear(s) ==
  /\ stream[s] = "open" /\ channel[s] # <<>>
  /\ heard' = [heard EXCEPT ![s] = Head(channel[s])]
  /\ channel' = [channel EXCEPT ![s] = Tail(@)]
  /\ stream' = IF Head(channel[s]).state \in {"failed", "done"}
               THEN [stream EXCEPT ![s] = "leaving"] ELSE stream
  /\ UNCHANGED <<vars, current, castVars, subscribers, missed>>

(* The client goes away, or a write to it fails. *)
Disconnect(s) ==
  /\ stream[s] = "open"
  /\ stream' = [stream EXCEPT ![s] = "leaving"]
  /\ UNCHANGED <<vars, current, castVars, subscribers, channel, heard, missed>>

UnsubscribeMutant(s) ==
  /\ stream[s] = "leaving"
  /\ subscribers' = subscribers \ {s}
  /\ stream' = [stream EXCEPT ![s] = "deleted"]
  /\ UNCHANGED <<vars, current, castVars, channel, heard, missed>>

Unsubscribe(s) ==
  /\ stream[s] = "leaving" /\ casting = {}
  /\ subscribers' = subscribers \ {s}
  /\ stream' = [stream EXCEPT ![s] = "deleted"]
  /\ UNCHANGED <<vars, current, castVars, channel, heard, missed>>

Close(s) ==
  /\ stream[s] = "deleted"
  /\ stream' = [stream EXCEPT ![s] = "closed"]
  /\ channel' = [channel EXCEPT ![s] = <<>>]
  /\ UNCHANGED <<vars, current, castVars, subscribers, heard, missed>>

Handling(s) == Hear(s) \/ Unsubscribe(s) \/ Close(s)

-----------------------------------------------------------------------------
PNext ==
  \/ Check \/ Apply
  \/ \E u \in Update : Step(u) \/ Repeat(u) \/ Broadcast(u)
  \/ \E s \in Stream : Subscribe(s) \/ Handling(s) \/ Disconnect(s)

Downloading(u) == Running(u) /\ state = "downloading"

(***************************************************************************)
(* The goroutines of updates and of streams go on.  Every phase of an      *)
(* update ends, whatever the number of events before, a fairness of its    *)
(* own; but a download may wait for its server for ever                    *)
(* (downloader.go:41).                                                     *)
(***************************************************************************)
PFairness ==
  /\ \A u \in Update : SF_pvars(~Downloading(u) /\ Step(u)) /\ WF_pvars(Broadcast(u))
  /\ \A s \in Stream : WF_pvars(Handling(s))

PSpec == PInit /\ [][PNext]_pvars /\ PFairness

-----------------------------------------------------------------------------
(* Properties *)

(***************************************************************************)
(* No broadcast sends on a closed channel, which would panic in the middle *)
(* of an update, whoever leaves while it walks over the channels.          *)
(***************************************************************************)
NoSendOnClosed == \A u \in casting : \A s \in reach[u] : stream[s] \in {"open", "leaving"}

(***************************************************************************)
(* The end of an update may be told after the next one has begun; nothing  *)
(* else comes that late: behind an event of one update a stream is told of *)
(* an earlier one only how it ended.                                       *)
(***************************************************************************)
OnlyEndsComeLate ==
  \A s \in Stream :
    LET told == <<heard[s]>> \o channel[s]
    IN  \A i, j \in DOMAIN told :
          i < j /\ told[i].of > told[j].of => told[j].state \in {"idle", "failed"}

EndOf(u) == {Event(u, e) : e \in {"idle", "failed", "done"}}

(***************************************************************************)
(* Unless its download hangs, who has subscribed in time hears how the     *)
(* update ended, except who left, was sent away by the end of an earlier   *)
(* update, or did not keep up with the events: a stream does not hang on   *)
(* an update that is over, also if it ended while another one began.       *)
(***************************************************************************)
EndIsHeard ==
  \A u \in Update, s \in Stream :
    \/ <>[]Downloading(u)
    \/ stream[s] = "open" /\ Running(u) /\ state # "restarting"
         ~> heard[s] \in EndOf(u) \/ stream[s] # "open" \/ s \in missed
=============================================================================
