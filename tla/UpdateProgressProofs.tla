------------------------ MODULE UpdateProgressProofs ------------------------
(***************************************************************************)
(* What the streams of an update may rely on, for any number of updates    *)
(* and of streams and any capacity of their channels.                      *)
(***************************************************************************)
EXTENDS UpdateProgress, TLAPS

FlowStates == {"idle", "failed"} \cup UNION {{f[1], f[2]} : f \in Forward}

Events == [of : Update \cup {0}, state : FlowStates \cup {"none", "done"}]

Places == {"none", "open", "leaving", "deleted", "closed"}

TypeOK ==
  /\ state \in FlowStates
  /\ owner \in {"nobody", "check", "update"}
  /\ current \in Update \cup {0}
  /\ unsent \in [Update -> Seq(FlowStates \cup {"done"})]
  /\ reach \in [Update -> SUBSET Stream]
  /\ casting \subseteq Update
  /\ subscribers \subseteq Stream
  /\ stream \in [Stream -> Places]
  /\ channel \in [Stream -> Seq(Events)]
  /\ heard \in [Stream -> Events]
  /\ missed \subseteq Stream

(* The channels in the manager's map are those that are not deleted, *)
Registered == subscribers = {s \in Stream : stream[s] \in {"open", "leaving"}}

(* and a broadcast, which holds the lock of the map, walks over such only. *)
Walks == \A u \in casting : reach[u] \subseteq subscribers /\ unsent[u] # <<>>

Ends == {"idle", "failed"}

(* An update that is over has at most its end left to tell. *)
OnlyTheEnd ==
  \A u \in Update :
    /\ u > current => unsent[u] = <<>>
    /\ ~Running(u) => unsent[u] = <<>> \/ \E e \in Ends : unsent[u] = <<e>>

Told(s) == <<heard[s]>> \o channel[s]

(* Nobody has been told of an update that is yet to come. *)
NoneAhead == \A s \in Stream : \A i \in DOMAIN Told(s) : Told(s)[i].of <= current

IInv ==
  /\ TypeOK
  /\ Registered /\ Walks
  /\ OnlyTheEnd /\ NoneAhead /\ OnlyEndsComeLate

-----------------------------------------------------------------------------
LEMMA InitIInv ==
  ASSUME PInit
  PROVE  IInv
<1>1. TypeOK
  BY ProgressAssumption DEF PInit, Init, TypeOK, FlowStates, Events, Event, Nothing, Update, Places
<1>2. \A s \in Stream : Told(s) = <<Nothing>>
  BY DEF PInit, Told
<1>3. NoneAhead /\ OnlyEndsComeLate
  BY <1>2 DEF PInit, NoneAhead, OnlyEndsComeLate, Told, Nothing, Event
<1>4. Registered /\ Walks /\ OnlyTheEnd
  BY DEF PInit, Registered, Walks, OnlyTheEnd
<1>. QED
  BY <1>1, <1>3, <1>4 DEF IInv

(* The steps of the updates themselves, which touch no stream. *)
LEMMA UpdateIInv ==
  ASSUME IInv, Check \/ Apply \/ \E u \in Update : Step(u) \/ Repeat(u)
  PROVE  IInv'
<1> USE ProgressAssumption
<1>1. UNCHANGED <<reach, casting, streamVars>>
  BY DEF Check, Apply, Step, Repeat, Tell, Quiet, castVars
<1>2. current' \in {current, current + 1} /\ current' \in Update \cup {0}
  <2>1. CASE Apply
    BY <2>1 DEF Apply, IInv, TypeOK, Update
  <2>2. Check \/ (\E u \in Update : Step(u) \/ Repeat(u)) => UNCHANGED current
    BY DEF Check, Step, Repeat, Tell
  <2>. QED
    BY <2>1, <2>2 DEF IInv, TypeOK
<1>3. Registered'
  BY <1>1 DEF streamVars, IInv, Registered
<1>4. NoneAhead'
  <2> SUFFICES ASSUME NEW s \in Stream, NEW i \in DOMAIN Told(s) PROVE Told(s)[i].of <= current'
    BY <1>1 DEF NoneAhead, Told, streamVars
  <2>1. Told(s)[i].of <= current
    BY DEF IInv, NoneAhead
  <2>2. Told(s)[i] \in Events
    BY DEF Told, IInv, TypeOK
  <2>3. Told(s)[i].of \in Nat
    BY <2>2 DEF Events, Update
  <2>. QED
    BY <1>2, <2>1, <2>3 DEF IInv, TypeOK, Update
<1>5. OnlyEndsComeLate'
  BY <1>1 DEF streamVars, IInv, OnlyEndsComeLate
<1>6. CASE Check
  <2>1. state' \in FlowStates /\ owner' \in {"nobody", "check"} /\ owner # "update"
    BY <1>6 DEF Check, Begin, End, FlowStates, Forward
  <2>2. UNCHANGED <<current, castVars, streamVars>>
    BY <1>6 DEF Check, Quiet
  <2>3. TypeOK'
    BY <2>1, <2>2 DEF IInv, TypeOK, castVars, streamVars
  <2>4. Walks' /\ OnlyTheEnd'
    BY <2>1, <2>2 DEF IInv, Walks, OnlyTheEnd, Running, castVars, streamVars
  <2>. QED
    BY <1>3, <1>4, <1>5, <2>3, <2>4 DEF IInv
<1>7. CASE Apply
  <2>1. /\ owner = "nobody" /\ owner' = "update" /\ state' = "checking"
        /\ current < MaxUpdates /\ current' = current + 1
        /\ UNCHANGED <<castVars, streamVars>>
    BY <1>7 DEF Apply, Begin, Quiet
  <2>2. TypeOK'
    BY <2>1, <1>2 DEF IInv, TypeOK, castVars, streamVars, FlowStates, Forward
  <2>3. Walks'
    BY <2>1 DEF IInv, Walks, castVars, streamVars
  <2>4. OnlyTheEnd'
    BY <2>1 DEF IInv, TypeOK, OnlyTheEnd, Running, castVars, Update
  <2>. QED
    BY <1>3, <1>4, <1>5, <2>2, <2>3, <2>4 DEF IInv
<1>8. ASSUME NEW u \in Update, Step(u) \/ Repeat(u) PROVE IInv'
  <2>1. /\ Running(u) /\ unsent[u] = <<>> /\ UNCHANGED current
        /\ state' \in FlowStates /\ owner' \in {"nobody", "update"}
    BY <1>8 DEF Step, Repeat, Tell, Advance, End, Ordered, FlowStates, Forward, vars, Running,
                IInv, TypeOK
  <2>2. PICK events \in Seq(FlowStates \cup {"done"}) :
          /\ unsent' = [unsent EXCEPT ![u] = events]
          /\ owner' = "update" \/ events = <<>> \/ \E e \in Ends : events = <<e>>
    <3>1. CASE Advance /\ Tell(u, IF state' = "restarting" THEN <<"restarting", "done">>
                                                           ELSE <<state'>>)
      <4>1. owner' = "update"
        BY <3>1 DEF Advance
      <4>2. <<"restarting", "done">> \in Seq(FlowStates \cup {"done"})
        BY DEF FlowStates, Forward
      <4>3. <<state'>> \in Seq(FlowStates \cup {"done"})
        BY <2>1
      <4>. QED
        BY <3>1, <4>1, <4>2, <4>3 DEF Tell
    <3>2. CASE End /\ Tell(u, <<state'>>)
      <4>1. state' \in Ends
        BY <3>2 DEF End, Ends
      <4>2. <<state'>> \in Seq(FlowStates \cup {"done"})
        BY <2>1
      <4>. QED
        BY <3>2, <4>1, <4>2 DEF Tell
    <3>3. CASE Tell(u, <<>>)
      <4>1. <<>> \in Seq(FlowStates \cup {"done"})
        OBVIOUS
      <4>. QED
        BY <3>3, <4>1 DEF Tell
    <3>4. CASE Repeat(u)
      <4>1. owner' = "update" /\ <<state>> \in Seq(FlowStates \cup {"done"})
        BY <3>4 DEF Repeat, Running, vars, IInv, TypeOK
      <4>. QED
        BY <3>4, <4>1 DEF Repeat, Tell
    <3>. QED
      BY <1>8, <3>1, <3>2, <3>3, <3>4 DEF Step
  <2>3. TypeOK'
    BY <1>1, <2>1, <2>2 DEF IInv, TypeOK, streamVars
  <2>4. u \notin casting
    BY <2>1 DEF IInv, Walks
  <2>5. Walks'
    BY <1>1, <2>2, <2>4 DEF IInv, TypeOK, Walks, streamVars
  <2>6. OnlyTheEnd'
    <3>1. \A v \in Update \ {u} : unsent'[v] = unsent[v] /\ ~Running(v)
      BY <2>1, <2>2 DEF IInv, TypeOK, Running
    <3>2. unsent'[u] = events /\ u = current
      BY <2>1, <2>2 DEF IInv, TypeOK, Running
    <3>3. u \in Nat /\ ~(u > current)
      BY <3>2 DEF Update
    <3>4. ASSUME NEW v \in Update, v > current' PROVE unsent'[v] = <<>>
      BY <2>1, <3>1, <3>3, <3>4 DEF IInv, OnlyTheEnd
    <3>5. ASSUME NEW v \in Update, ~Running(v)'
          PROVE  unsent'[v] = <<>> \/ \E e \in Ends : unsent'[v] = <<e>>
      BY <2>1, <2>2, <3>1, <3>2, <3>5 DEF IInv, OnlyTheEnd, Running
    <3>. QED
      BY <3>4, <3>5 DEF OnlyTheEnd
  <2>. QED
    BY <1>3, <1>4, <1>5, <2>3, <2>5, <2>6 DEF IInv
<1>. QED
  BY <1>6, <1>7, <1>8

-----------------------------------------------------------------------------
(* What a stream is told, as its channel grows, is read and is closed. *)
LEMMA ToldParts ==
  ASSUME NEW S, NEW h \in S, NEW c \in Seq(S)
  PROVE  /\ <<h>> \o c \in Seq(S)
         /\ Len(<<h>> \o c) = Len(c) + 1
         /\ (<<h>> \o c)[1] = h
         /\ \A i \in DOMAIN c : (<<h>> \o c)[i + 1] = c[i]
OBVIOUS

LEMMA ToldMore ==
  ASSUME NEW S, NEW h \in S, NEW c \in Seq(S), NEW e \in S
  PROVE  /\ Len(<<h>> \o Append(c, e)) = Len(<<h>> \o c) + 1
         /\ \A i \in DOMAIN (<<h>> \o c) : (<<h>> \o Append(c, e))[i] = (<<h>> \o c)[i]
         /\ (<<h>> \o Append(c, e))[Len(<<h>> \o c) + 1] = e
OBVIOUS

LEMMA ToldAll == ASSUME NEW h PROVE <<h>> \o <<>> = <<h>>
OBVIOUS

-----------------------------------------------------------------------------
(* The broadcasts *)

(* What a broadcast tells is of the last update, or the end of an earlier. *)
LEMMA NextEvent ==
  ASSUME IInv, NEW u \in casting
  PROVE  /\ Event(u, Head(unsent[u])) \in Events
         /\ u <= current
         /\ u # current => Head(unsent[u]) \in Ends
<1>1. u \in Update /\ unsent[u] # <<>> /\ unsent[u] \in Seq(FlowStates \cup {"done"})
  BY DEF IInv, TypeOK, Walks
<1>2. Head(unsent[u]) \in FlowStates \cup {"done"}
  BY <1>1
<1>3. u <= current
  BY <1>1, ProgressAssumption DEF IInv, TypeOK, OnlyTheEnd, Update
<1>4. u # current => Head(unsent[u]) \in Ends
  BY <1>1 DEF IInv, OnlyTheEnd, Running
<1>. QED
  BY <1>1, <1>2, <1>3, <1>4 DEF Event, Events

LEMMA SendIInv ==
  ASSUME IInv, NEW u \in Update, NEW s \in Stream, Send(u, s)
  PROVE  IInv'
<1> USE ProgressAssumption
<1> DEFINE e == Event(u, Head(unsent[u]))
<1>1. /\ u \in casting /\ e \in Events /\ u <= current
      /\ u # current => Head(unsent[u]) \in Ends
  BY NextEvent DEF Send
<1>2. /\ UNCHANGED <<vars, current, unsent, casting, subscribers, stream, heard>>
      /\ reach' = [reach EXCEPT ![u] = @ \ {s}]
      /\ \/ channel' = [channel EXCEPT ![s] = Append(@, e)]
         \/ UNCHANGED channel
  BY DEF Send
<1>3. missed' \subseteq Stream
  BY DEF Send, IInv, TypeOK
<1>4. TypeOK'
  <2>1. channel' \in [Stream -> Seq(Events)]
    <3>1. channel[s] \in Seq(Events)
      BY DEF IInv, TypeOK
    <3>2. Append(channel[s], e) \in Seq(Events)
      BY <1>1, <3>1
    <3>. QED
      BY <1>2, <3>2 DEF IInv, TypeOK
  <2>2. reach' \in [Update -> SUBSET Stream]
    BY <1>2 DEF IInv, TypeOK
  <2>. QED
    BY <1>2, <1>3, <2>1, <2>2 DEF IInv, TypeOK, vars
<1>5. Registered' /\ Walks' /\ OnlyTheEnd'
  BY <1>2 DEF IInv, TypeOK, Registered, Walks, OnlyTheEnd, Running, vars
<1>6. \A t \in Stream :
        \/ Told(t)' = Told(t)
        \/ /\ Len(Told(t)') = Len(Told(t)) + 1
           /\ \A i \in DOMAIN Told(t) : Told(t)'[i] = Told(t)[i]
           /\ Told(t)'[Len(Told(t)) + 1] = e
  <2>1. heard[s] \in Events /\ channel[s] \in Seq(Events)
    BY DEF IInv, TypeOK
  <2>2. CASE channel' = [channel EXCEPT ![s] = Append(@, e)]
    <3>1. Told(s)' = <<heard[s]>> \o Append(channel[s], e)
      BY <1>2, <2>2 DEF Told, IInv, TypeOK
    <3>2. \A t \in Stream \ {s} : Told(t)' = Told(t)
      BY <1>2, <2>2 DEF Told, IInv, TypeOK
    <3>3. e \in Events
      BY <1>1
    <3> HIDE DEF e
    <3>4. LET told == <<heard[s]>> \o channel[s]
              more == <<heard[s]>> \o Append(channel[s], e)
          IN  /\ Len(more) = Len(told) + 1
              /\ \A i \in DOMAIN told : more[i] = told[i]
              /\ more[Len(told) + 1] = e
      BY <2>1, <3>3, ToldMore
    <3>5. Told(s) = <<heard[s]>> \o channel[s]
      BY DEF Told
    <3>. QED
      BY <3>1, <3>2, <3>4, <3>5
  <2>. QED
    BY <1>2, <2>2 DEF Told
<1>7. \A t \in Stream : Told(t) \in Seq(Events) /\ Told(t)' \in Seq(Events)
  BY <1>4, ToldParts DEF IInv, TypeOK, Told
<1>8. NoneAhead'
  <2> SUFFICES ASSUME NEW t \in Stream, NEW i \in DOMAIN Told(t)'
               PROVE  Told(t)'[i].of <= current
    BY <1>2 DEF NoneAhead
  <2>1. CASE Told(t)' = Told(t)
    BY <2>1 DEF IInv, NoneAhead
  <2>2. CASE i \in DOMAIN Told(t) /\ Told(t)'[i] = Told(t)[i]
    BY <2>2 DEF IInv, NoneAhead
  <2>3. CASE Told(t)'[i] = e
    BY <1>1, <2>3 DEF Event
  <2>. QED
    BY <1>6, <1>7, <2>1, <2>2, <2>3
<1>9. OnlyEndsComeLate'
  <2> SUFFICES ASSUME NEW t \in Stream, NEW i \in DOMAIN Told(t)', NEW j \in DOMAIN Told(t)',
                      i < j, Told(t)'[i].of > Told(t)'[j].of
               PROVE  Told(t)'[j].state \in Ends
    BY DEF OnlyEndsComeLate, Told, Ends
  <2>1. CASE Told(t)' = Told(t)
    BY <2>1 DEF IInv, OnlyEndsComeLate, Told, Ends
  <2>2. CASE i \in DOMAIN Told(t) /\ j \in DOMAIN Told(t) /\ Told(t)'[i] = Told(t)[i]
               /\ Told(t)'[j] = Told(t)[j]
    BY <2>2 DEF IInv, OnlyEndsComeLate, Told, Ends
  <2>3. CASE Told(t)'[j] = e
    <3>1. Told(t)'[i].of <= current
      BY <1>2, <1>8 DEF NoneAhead
    <3>2. Told(t)' \in Seq(Events)
      BY <1>7
    <3>3. Told(t)'[i].of \in Nat
      <4>1. Told(t)'[i] \in Events
        BY <3>2
      <4>. QED
        BY <4>1 DEF Events, Update
    <3>4. u # current
      BY <2>3, <3>1, <3>3, <1>4 DEF Event, TypeOK, Update
    <3>. QED
      BY <1>1, <2>3, <3>4 DEF Event
  <2>. QED
    BY <1>6, <1>7, <2>1, <2>2, <2>3
<1>. QED
  BY <1>4, <1>5, <1>8, <1>9 DEF IInv

LEMMA BroadcastIInv ==
  ASSUME IInv, NEW u \in Update, BroadcastBegin(u) \/ BroadcastEnd(u)
  PROVE  IInv'
<1>1. UNCHANGED <<vars, current, streamVars>>
  BY DEF BroadcastBegin, BroadcastEnd
<1>2. Registered' /\ NoneAhead' /\ OnlyEndsComeLate'
  BY <1>1 DEF IInv, Registered, NoneAhead, OnlyEndsComeLate, Told, streamVars
<1>3. CASE BroadcastBegin(u)
  BY <1>1, <1>2, <1>3 DEF BroadcastBegin, IInv, TypeOK, Walks, OnlyTheEnd, Running, vars, streamVars
<1>4. CASE BroadcastEnd(u)
  <2>1. /\ unsent[u] # <<>> /\ unsent[u] \in Seq(FlowStates \cup {"done"})
        /\ unsent' = [unsent EXCEPT ![u] = Tail(@)] /\ casting' = casting \ {u} /\ UNCHANGED reach
    BY <1>4 DEF BroadcastEnd, IInv, TypeOK, Walks
  <2>2. TypeOK'
    BY <1>1, <2>1 DEF IInv, TypeOK, vars, streamVars
  <2>3. Walks'
    BY <1>1, <2>1 DEF IInv, TypeOK, Walks, vars, streamVars
  <2>4. (\E e \in Ends : unsent[u] = <<e>>) => Tail(unsent[u]) = <<>>
    OBVIOUS
  <2>5. OnlyTheEnd'
    BY <1>1, <2>1, <2>4 DEF IInv, TypeOK, OnlyTheEnd, Running, vars
  <2>. QED
    BY <1>2, <2>2, <2>3, <2>5 DEF IInv
<1>. QED
  BY <1>3, <1>4

-----------------------------------------------------------------------------
(* The streams *)

LEMMA StreamIInv ==
  ASSUME IInv, NEW s \in Stream, Subscribe(s) \/ Handling(s) \/ Disconnect(s)
  PROVE  IInv'
<1>1. UNCHANGED <<vars, current, castVars, missed>>
  BY DEF Subscribe, Handling, Disconnect, Hear, Unsubscribe, Close
<1>2. OnlyTheEnd'
  BY <1>1 DEF IInv, OnlyTheEnd, Running, vars, castVars
<1>3. TypeOK' /\ Registered' /\ Walks'
  <2> USE <1>1 DEF IInv, TypeOK, Registered, Walks, Places, vars, castVars
  <2>1. CASE Subscribe(s)
    BY <2>1 DEF Subscribe
  <2>2. CASE Hear(s)
    BY <2>2 DEF Hear
  <2>3. CASE Disconnect(s)
    BY <2>3 DEF Disconnect
  <2>4. CASE Unsubscribe(s)
    BY <2>4 DEF Unsubscribe
  <2>5. CASE Close(s)
    BY <2>5 DEF Close
  <2>. QED
    BY <2>1, <2>2, <2>3, <2>4, <2>5 DEF Handling
<1>4. \A t \in Stream :
        \/ Told(t)' = Told(t)
        \/ /\ Len(Told(t)') = Len(Told(t)) - 1
           /\ \A i \in DOMAIN Told(t)' : Told(t)'[i] = Told(t)[i + 1]
        \/ Told(t)' = <<heard[t]>>
  <2>1. CASE Hear(s)
    <3>1. \A t \in Stream \ {s} : Told(t)' = Told(t)
      BY <2>1 DEF Hear, Told, IInv, TypeOK
    <3>2. /\ Told(s)' = <<Head(channel[s])>> \o Tail(channel[s])
          /\ channel[s] \in Seq(Events) /\ channel[s] # <<>>
      BY <2>1 DEF Hear, Told, IInv, TypeOK
    <3>3. Told(s)' = channel[s]
      BY <3>2
    <3>4. heard[s] \in Events
      BY DEF IInv, TypeOK
    <3>5. /\ Len(Told(s)') = Len(Told(s)) - 1
          /\ \A i \in DOMAIN Told(s)' : Told(s)'[i] = Told(s)[i + 1]
      <4>1. LET told == <<heard[s]>> \o channel[s]
            IN  /\ Len(told) = Len(channel[s]) + 1
                /\ \A i \in DOMAIN channel[s] : channel[s][i] = told[i + 1]
        BY <3>2, <3>4, ToldParts
      <4>2. Told(s) = <<heard[s]>> \o channel[s] /\ Len(channel[s]) \in Nat
        BY <3>2 DEF Told
      <4>. QED
        BY <3>3, <4>1, <4>2
    <3>. QED
      BY <3>1, <3>5
  <2>2. CASE Close(s)
    <3>1. \A t \in Stream \ {s} : Told(t)' = Told(t)
      BY <2>2 DEF Close, Told, IInv, TypeOK
    <3>2. Told(s)' = <<heard[s]>> \o <<>>
      BY <2>2 DEF Close, Told, IInv, TypeOK
    <3>. QED
      BY <3>1, <3>2, ToldAll
  <2>3. CASE Subscribe(s) \/ Disconnect(s) \/ Unsubscribe(s)
    BY <2>3 DEF Subscribe, Disconnect, Unsubscribe, Told
  <2>. QED
    BY <2>1, <2>2, <2>3 DEF Handling
<1>5. \A t \in Stream : Told(t) \in Seq(Events) /\ Told(t)' \in Seq(Events)
                        /\ Told(t)[1] = heard[t] /\ 1 \in DOMAIN Told(t)
  BY <1>3, ToldParts DEF IInv, TypeOK, Told
<1>6. \A t \in Stream : \A i, j \in DOMAIN Told(t)' : i <= j =>
        \E k, l \in DOMAIN Told(t) :
          /\ k <= l /\ (i < j => k < l)
          /\ Told(t)'[i] = Told(t)[k] /\ Told(t)'[j] = Told(t)[l]
  <2> SUFFICES ASSUME NEW t \in Stream, NEW i \in DOMAIN Told(t)', NEW j \in DOMAIN Told(t)',
                      i <= j
               PROVE  \E k, l \in DOMAIN Told(t) :
                        /\ k <= l /\ (i < j => k < l)
                        /\ Told(t)'[i] = Told(t)[k] /\ Told(t)'[j] = Told(t)[l]
    OBVIOUS
  <2>1. CASE Told(t)' = Told(t)
    BY <2>1
  <2>2. CASE /\ Len(Told(t)') = Len(Told(t)) - 1
             /\ \A k \in DOMAIN Told(t)' : Told(t)'[k] = Told(t)[k + 1]
    <3>1. i + 1 \in DOMAIN Told(t) /\ j + 1 \in DOMAIN Told(t)
      BY <1>5, <2>2
    <3>. QED
      BY <1>5, <2>2, <3>1
  <2>3. CASE Told(t)' = <<heard[t]>>
    BY <1>5, <2>3
  <2>. QED
    BY <1>4, <2>1, <2>2, <2>3
<1>7. NoneAhead'
  <2> SUFFICES ASSUME NEW t \in Stream, NEW i \in DOMAIN Told(t)'
               PROVE  Told(t)'[i].of <= current
    BY <1>1 DEF NoneAhead
  <2>1. i <= i
    BY <1>5
  <2>2. PICK k \in DOMAIN Told(t) : Told(t)'[i] = Told(t)[k]
    BY <1>6, <2>1
  <2>. QED
    BY <2>2 DEF IInv, NoneAhead
<1>8. OnlyEndsComeLate'
  <2> SUFFICES ASSUME NEW t \in Stream, NEW i \in DOMAIN Told(t)', NEW j \in DOMAIN Told(t)',
                      i < j, Told(t)'[i].of > Told(t)'[j].of
               PROVE  Told(t)'[j].state \in Ends
    BY DEF OnlyEndsComeLate, Told, Ends
  <2>1. i <= j
    BY <1>5
  <2>2. PICK k \in DOMAIN Told(t), l \in DOMAIN Told(t) :
          k < l /\ Told(t)'[i] = Told(t)[k] /\ Told(t)'[j] = Told(t)[l]
    BY <1>6, <2>1
  <2>. QED
    BY <2>2 DEF IInv, OnlyEndsComeLate, Told, Ends
<1>. QED
  BY <1>2, <1>3, <1>7, <1>8 DEF IInv

-----------------------------------------------------------------------------
LEMMA Inductive == PSpec => []IInv
<1>1. PInit => IInv
  BY InitIInv
<1>2. IInv /\ [PNext]_pvars => IInv'
  <2> SUFFICES ASSUME IInv, [PNext]_pvars PROVE IInv'
    OBVIOUS
  <2>1. CASE UNCHANGED pvars
    BY <2>1 DEF pvars, vars, castVars, streamVars, IInv, TypeOK, Registered, Walks, OnlyTheEnd,
                Running, Told, NoneAhead, OnlyEndsComeLate
  <2>2. CASE PNext
    BY <2>2, UpdateIInv, SendIInv, BroadcastIInv, StreamIInv DEF PNext, Broadcast
  <2>. QED
    BY <2>1, <2>2
<1>. QED
  BY <1>1, <1>2, PTL DEF PSpec

(***************************************************************************)
(* NoSendOnClosed for any number of updates and streams: a broadcast never *)
(* meets a channel that Unsubscribe has closed.                            *)
(***************************************************************************)
THEOREM NoPanic == PSpec => []NoSendOnClosed
<1>1. IInv => NoSendOnClosed
  BY DEF IInv, TypeOK, Registered, Walks, NoSendOnClosed
<1>. QED
  BY <1>1, Inductive, PTL

(***************************************************************************)
(* OnlyEndsComeLate for any number of updates and streams and any buffer:  *)
(* what a stream hears goes backwards only to the end of an update.        *)
(***************************************************************************)
THEOREM ToldInOrder == PSpec => []OnlyEndsComeLate
<1>1. IInv => OnlyEndsComeLate
  BY DEF IInv
<1>. QED
  BY <1>1, Inductive, PTL

(***************************************************************************)
(* Telling is no part of an update: with the streams beside it, and events *)
(* that may come late, the flow of UpdateFlow is what it was.              *)
(***************************************************************************)
THEOREM FlowUndisturbed == PSpec => Spec
<1>1. PInit => Init
  BY DEF PInit
<1>2. [PNext]_pvars => [Next]_vars
  BY DEF PNext, pvars, Check, Apply, Step, Repeat, Broadcast, BroadcastBegin, Send, BroadcastEnd,
         Subscribe, Handling, Hear, Unsubscribe, Close, Disconnect, Next
<1>. QED
  BY <1>1, <1>2, PTL DEF PSpec, Spec
=============================================================================
