---------------------------- MODULE PublishProofs ----------------------------
(***************************************************************************)
(* A push with no other beside it reports success only if it has put its   *)
(* addresses under the name, and leaves the records alone that it keeps,   *)
(* for any number of addresses and pushes.                                 *)
(***************************************************************************)
EXTENDS Publish, TLAPS

(* A push that is alone is the only one at work. *)
Lonely ==
  \A p, q \in Pusher : p # q /\ alone[p] /\ at[p] # "idle" => ~Busy(q)

(***************************************************************************)
(* What a push believes, once it has looked: the records it keeps are the  *)
(* ones it knows, and of the others only those it knows may still exist.   *)
(* A push that never saw a listing believes in no record.                  *)
(***************************************************************************)
Agrees(p) ==
  /\ ~listed[p] => known[p] = None
  /\ listed[p] => \A ip \in IP :
       /\ ip \in wanted[p] /\ known[p][ip] # 0 => record[ip] = known[p][ip]
       /\ ip \notin wanted[p] => record[ip] \in {0, known[p][ip]}

Deleted(p, ips) == \A ip \in ips : record[ip] = 0
Created(p, ips) == \A ip \in ips : record[ip] # 0

Progress(p) ==
  /\ at[p] = "list" => ~listed[p]
  /\ at[p] = "batch" /\ listed[p] => known[p] = record
  /\ at[p] = "delete" /\ ~errors[p] => Deleted(p, Surplus(p) \ untried[p])
  /\ at[p] = "create" /\ ~errors[p] =>
       Deleted(p, Surplus(p)) /\ Created(p, Missing(p) \ untried[p])

Alone(p) == alone[p] /\ at[p] # "idle"
Outcome == \A p \in Pusher : ok[p] => at[p] = "done"
Believes == \A p \in Pusher : Alone(p) /\ Busy(p) => Agrees(p) /\ Progress(p)
Unlisted == \A p \in Pusher : at[p] = "idle" => ~listed[p] /\ known[p] = None

IInv == TypeOK /\ Lonely /\ Outcome /\ Unlisted /\ Believes /\ SuccessMeansPublished

-----------------------------------------------------------------------------
(* What an edit makes of the record of an address. *)
LEMMA EditIs ==
  ASSUME TypeOK, NEW gone \in [IP -> Nat], NEW new \in SUBSET IP, Edit(gone, new)
  PROVE  /\ record' \in [IP -> Nat] /\ serial' \in [IP -> Nat]
         /\ \A ip \in IP :
              /\ record'[ip] \in {0, serial'[ip]}
              /\ ip \in new /\ record[ip] \in {0, gone[ip]} => record'[ip] # 0
              /\ ip \notin new /\ record[ip] \in {0, gone[ip]} => record'[ip] = 0
              /\ record[ip] \notin {0, gone[ip]} => record'[ip] = record[ip]
<1> DEFINE r == Without(record, gone)
<1> USE DEF TypeOK, Edit, Without, With
<1>1. r \in [IP -> Nat]
  OBVIOUS
<1>2. record' = [ip \in IP |-> IF ip \in new /\ r[ip] = 0 THEN serial[ip] + 1 ELSE r[ip]]
  OBVIOUS
<1>3. record' \in [IP -> Nat]
  BY <1>1, <1>2
<1>4. serial' = [ip \in IP |-> serial[ip] + (IF record'[ip] \notin {0, record[ip]} THEN 1 ELSE 0)]
  OBVIOUS
<1>5. serial' \in [IP -> Nat]
  BY <1>3, <1>4
<1>6. SUFFICES ASSUME NEW ip \in IP
               PROVE  /\ record'[ip] \in {0, serial'[ip]}
                      /\ ip \in new /\ record[ip] \in {0, gone[ip]} => record'[ip] # 0
                      /\ ip \notin new /\ record[ip] \in {0, gone[ip]} => record'[ip] = 0
                      /\ record[ip] \notin {0, gone[ip]} => record'[ip] = record[ip]
  BY <1>3, <1>5
<1>7. record[ip] \in Nat /\ serial[ip] \in Nat /\ gone[ip] \in Nat /\ record[ip] \in {0, serial[ip]}
  OBVIOUS
<1>8. r[ip] = IF gone[ip] = record[ip] THEN 0 ELSE record[ip]
  OBVIOUS
<1>9. record'[ip] = IF ip \in new /\ r[ip] = 0 THEN serial[ip] + 1 ELSE r[ip]
  BY <1>2
<1>10. serial'[ip] = serial[ip] + (IF record'[ip] \notin {0, record[ip]} THEN 1 ELSE 0)
  BY <1>4
<1> HIDE DEF r, TypeOK, Edit, Without, With
<1> QED BY <1>7, <1>8, <1>9, <1>10

-----------------------------------------------------------------------------
Published(p) ==
  /\ wanted[p] \subseteq Addresses(record)
  /\ listed[p] => Addresses(record) = wanted[p]

(* Nothing has begun: there is nothing to believe. *)
LEMMA InitIInv == Init => IInv
<1> SUFFICES ASSUME Init PROVE IInv
  OBVIOUS
<1>1. TypeOK
  BY DEF Init, TypeOK, Stages, None
<1>2. Lonely /\ Outcome /\ Unlisted /\ Believes /\ SuccessMeansPublished
  BY DEF Init, Lonely, Outcome, Unlisted, Believes, SuccessMeansPublished, Busy, Alone
<1> QED BY <1>1, <1>2 DEF IInv

(* A push at work need only answer for itself: no other is alone. *)
LEMMA OnlyMine ==
  ASSUME IInv, NEW p \in Pusher, Busy(p), TypeOK',
         alone' = alone, at'[p] # "idle",
         \A q \in Pusher \ {p} : /\ at'[q] = at[q] /\ ok'[q] = ok[q]
                                 /\ listed'[q] = listed[q] /\ known'[q] = known[q],
         ok'[p] => at'[p] = "done",
         alone[p] /\ at'[p] # "done" => Agrees(p)' /\ Progress(p)',
         ok'[p] /\ alone[p] => Published(p)'
  PROVE  IInv'
<1>1. ASSUME NEW q \in Pusher \ {p} PROVE ~Alone(q) /\ ~Alone(q)'
  BY <1>1 DEF IInv, Lonely, Alone
<1>2. Lonely'
  BY <1>1 DEF IInv, Lonely, Alone, Busy
<1>3. Outcome' /\ Unlisted'
  BY DEF IInv, Outcome, Unlisted
<1>4. Believes'
  BY <1>1 DEF Believes, Alone, Busy
<1>5. SuccessMeansPublished'
  <2> SUFFICES ASSUME NEW q \in Pusher, ok'[q] /\ alone'[q] PROVE Published(q)'
    BY DEF SuccessMeansPublished, Published
  <2>1. at'[q] # "idle"
    BY <1>3 DEF Outcome
  <2>2. q = p
    BY <1>1, <2>1 DEF Alone
  <2> QED BY <2>2
<1> QED BY <1>2, <1>3, <1>4, <1>5 DEF IInv

(* A push begins: it takes the others their solitude. *)
LEMMA BeginIInv == ASSUME IInv, NEW p \in Pusher, Begin(p) PROVE IInv'
<1> USE DEF IInv, Begin, zone
<1>1. TypeOK'
  BY DEF TypeOK, Stages, Surplus, Missing, Addresses
<1>2. Lonely' /\ Outcome' /\ Unlisted'
  BY DEF TypeOK, Lonely, Outcome, Unlisted, Busy
<1>3. Believes'
  BY DEF TypeOK, Believes, Alone, Busy, Unlisted, Agrees, Progress
<1>4. SuccessMeansPublished'
  BY DEF TypeOK, SuccessMeansPublished, Outcome
<1> QED BY <1>1, <1>2, <1>3, <1>4

(* A listing, or none, before the batch and before the fallback *)
LEMMA ListIInv == ASSUME IInv, NEW p \in Pusher, List(p) PROVE IInv'
<1> USE DEF IInv, List, zone
<1>1. Busy(p) /\ ~ok[p]
  BY DEF Busy, Outcome
<1>2. TypeOK'
  <2>1. known' \in [Pusher -> [IP -> Nat]] /\ listed' \in [Pusher -> BOOLEAN]
    BY DEF TypeOK
  <2>2. \A q \in Pusher \ {p} : known'[q] = known[q] /\ at'[q] = at[q]
    BY DEF TypeOK
  <2>3. at'[p] = "batch" /\ at' \in [Pusher -> Stages]
    BY DEF TypeOK, Stages
  <2> QED BY <2>1, <2>2, <2>3 DEF TypeOK, Surplus, Missing, Addresses
<1>3. alone[p] => Agrees(p)' /\ Progress(p)'
  BY <1>1 DEF TypeOK, Believes, Alone, Agrees, Progress
<1> QED BY <1>1, <1>2, <1>3, OnlyMine DEF TypeOK

LEMMA RelistIInv == ASSUME IInv, NEW p \in Pusher, Relist(p) PROVE IInv'
<1> USE DEF IInv, Relist, zone
<1>1. Busy(p) /\ ~ok[p]
  BY DEF Busy, Outcome
<1>2. TypeOK'
  <2>1. known' \in [Pusher -> [IP -> Nat]] /\ listed' \in [Pusher -> BOOLEAN]
    BY DEF TypeOK
  <2>2. \A q \in Pusher \ {p} : /\ known'[q] = known[q] /\ at'[q] = at[q]
                                /\ untried'[q] = untried[q]
    BY DEF TypeOK
  <2>3. at'[p] = "delete" /\ at' \in [Pusher -> Stages]
    BY DEF TypeOK, Stages
  <2>4. untried' \in [Pusher -> SUBSET IP] /\ untried'[p] = Surplus(p)'
    BY DEF TypeOK, Surplus, Addresses
  <2> QED BY <2>1, <2>2, <2>3, <2>4 DEF TypeOK, Surplus, Missing, Addresses
<1>3. untried'[p] = Surplus(p)' /\ at'[p] = "delete"
  BY DEF TypeOK, Surplus, Addresses
<1>4. alone[p] => Agrees(p)'
  BY <1>1 DEF TypeOK, Believes, Alone, Agrees
<1>5. Progress(p)'
  BY <1>3 DEF Progress, Deleted
<1> QED BY <1>1, <1>2, <1>4, <1>5, OnlyMine DEF TypeOK

(* The batch succeeds: the name has what was wanted. *)
LEMMA BatchOkIInv == ASSUME IInv, NEW p \in Pusher, BatchOk(p) PROVE IInv'
<1> USE DEF IInv
<1> DEFINE gone == Only(known[p], Surplus(p))
<1>1. Busy(p) /\ alone' = alone /\ at'[p] = "done"
  BY DEF BatchOk, Busy, ReturnOk, TypeOK
<1>2. gone \in [IP -> Nat] /\ Missing(p) \in SUBSET IP /\ Edit(gone, Missing(p))
  BY DEF BatchOk, Only, TypeOK, Missing
<1>3. \A ip \in IP : gone[ip] = IF ip \in Surplus(p) THEN known[p][ip] ELSE 0
  BY DEF Only
<1> HIDE DEF gone
<1>4. record' \in [IP -> Nat] /\ serial' \in [IP -> Nat]
  /\ \A ip \in IP : record'[ip] \in {0, serial'[ip]}
  BY <1>2, EditIs
<1>5. TypeOK'
  BY <1>4 DEF BatchOk, ReturnOk, notes, TypeOK, Stages, Surplus, Missing, Addresses
<1>6. ASSUME alone[p] PROVE Published(p)'
  <2>1. Agrees(p) /\ Progress(p) /\ at[p] = "batch"
    BY <1>1, <1>6 DEF Believes, Alone, Busy, BatchOk
  <2>2. wanted'[p] = wanted[p] /\ listed'[p] = listed[p]
    BY DEF BatchOk, notes
  <2>3. ASSUME NEW ip \in IP PROVE ip \in wanted[p] => record'[ip] # 0
    <3>1. CASE ip \in Missing(p)
      BY <3>1, <1>2, EditIs DEF BatchOk
    <3>2. CASE ip \in wanted[p] \ Missing(p)
      <4>1. record[ip] = known[p][ip] /\ record[ip] # 0
        BY <2>1, <3>2 DEF Agrees, Missing, Addresses, TypeOK, None
      <4>2. gone[ip] = 0
        BY <1>3, <3>2 DEF Surplus
      <4> QED BY <4>1, <4>2, <1>2, EditIs
    <3> QED BY <3>1, <3>2
  <2>4. ASSUME NEW ip \in IP PROVE listed[p] /\ ip \notin wanted[p] => record'[ip] = 0
    <3> SUFFICES ASSUME listed[p], ip \notin wanted[p] PROVE record'[ip] = 0
      OBVIOUS
    <3>1. record[ip] \in {0, gone[ip]}
      BY <2>1, <1>3 DEF Agrees, Surplus, Addresses
    <3> QED BY <3>1, <1>2, EditIs DEF Missing
  <2> QED BY <2>2, <2>3, <2>4 DEF Published, Addresses, TypeOK
<1> QED BY <1>1, <1>5, <1>6, OnlyMine DEF BatchOk, ReturnOk, notes, TypeOK

(* It fails: what it has carried out is within what the push knows. *)
LEMMA BatchFailsIInv == ASSUME IInv, NEW p \in Pusher, BatchFails(p) PROVE IInv'
<1> USE DEF IInv
<1>1. Busy(p) /\ alone' = alone /\ at'[p] = "relist" /\ ~ok[p]
  BY DEF BatchFails, Busy, TypeOK, Stages, Outcome
<1>2. PICK some \in SUBSET Surplus(p), new \in SUBSET Missing(p) : Edit(Only(known[p], some), new)
  BY DEF BatchFails
<1> DEFINE gone == Only(known[p], some)
<1>3. gone \in [IP -> Nat] /\ new \in SUBSET IP /\ Edit(gone, new)
  BY <1>2 DEF Only, TypeOK, Missing
<1>4. \A ip \in IP : gone[ip] = IF ip \in some THEN known[p][ip] ELSE 0
  BY DEF Only
<1> HIDE DEF gone
<1>5. record' \in [IP -> Nat] /\ serial' \in [IP -> Nat]
  /\ \A ip \in IP : record'[ip] \in {0, serial'[ip]}
  BY <1>3, EditIs
<1>6. TypeOK'
  BY <1>5 DEF BatchFails, notes, TypeOK, Stages, Surplus, Missing, Addresses
<1>7. ASSUME alone[p] PROVE Agrees(p)' /\ Progress(p)'
  <2>1. Agrees(p)
    BY <1>1, <1>7 DEF Believes, Alone, Busy
  <2>2. wanted' = wanted /\ listed' = listed /\ known' = known
    BY DEF BatchFails, notes
  <2>3. ASSUME NEW ip \in IP, listed[p]
        PROVE  /\ ip \in wanted[p] /\ known[p][ip] # 0 => record'[ip] = known[p][ip]
               /\ ip \notin wanted[p] => record'[ip] \in {0, known[p][ip]}
    <3>1. CASE ip \in wanted[p] /\ known[p][ip] # 0
      <4>1. gone[ip] = 0
        BY <1>4, <3>1 DEF Surplus
      <4>2. record[ip] = known[p][ip]
        BY <2>1, <2>3, <3>1 DEF Agrees
      <4> QED BY <3>1, <4>1, <4>2, <1>3, EditIs
    <3>2. CASE ip \notin wanted[p]
      <4>1. record[ip] \in {0, known[p][ip]} /\ ip \notin new
        BY <2>1, <2>3, <3>2 DEF Agrees, Missing
      <4> QED BY <3>2, <4>1, <1>3, EditIs
    <3> QED BY <3>1, <3>2
  <2>4. Agrees(p)'
    BY <2>1, <2>2, <2>3 DEF Agrees
  <2>5. Progress(p)'
    BY <1>1 DEF Progress
  <2> QED BY <2>4, <2>5
<1> QED BY <1>1, <1>6, <1>7, OnlyMine DEF BatchFails, notes, TypeOK

-----------------------------------------------------------------------------
(* A request of the fallback edits the records or leaves them. *)
LEMMA TryIs ==
  ASSUME TypeOK, NEW p \in Pusher, NEW ip \in IP,
         NEW gone \in [IP -> Nat], NEW new \in SUBSET IP, Try(p, ip, gone, new)
  PROVE  /\ TypeOK'
         /\ Edit(gone, new) \/ (record' = record /\ errors'[p])
         /\ errors[p] => errors'[p]
<1>1. Edit(gone, new) \/ (record' = record /\ serial' = serial /\ errors'[p])
  BY DEF Try, zone, TypeOK
<1>2. record' \in [IP -> Nat] /\ serial' \in [IP -> Nat]
  /\ \A i \in IP : record'[i] \in {0, serial'[i]}
  BY <1>1, EditIs DEF TypeOK
<1>3. errors' \in [Pusher -> BOOLEAN] /\ (errors[p] => errors'[p])
  BY DEF Try, TypeOK
<1>4. untried' \in [Pusher -> SUBSET IP] /\ \A q \in Pusher : untried'[q] \subseteq untried[q]
  BY DEF Try, TypeOK
<1>5. UNCHANGED <<at, wanted, known, listed, ok, alone>>
  BY DEF Try
<1>6. TypeOK'
  BY <1>2, <1>3, <1>4, <1>5 DEF TypeOK, Surplus, Missing, Addresses
<1> QED BY <1>1, <1>3, <1>6

(* A deletion takes one record that is not wanted. *)
LEMMA DeleteIInv == ASSUME IInv, NEW p \in Pusher, NEW ip \in IP, Delete(p, ip) PROVE IInv'
<1> USE DEF IInv
<1> DEFINE gone == Only(known[p], {ip})
<1>1. Busy(p) /\ ~ok[p] /\ at[p] = "delete" /\ UNCHANGED <<at, wanted, known, listed, ok, alone>>
  BY DEF Delete, Try, Busy, Outcome
<1>2. gone \in [IP -> Nat] /\ {} \in SUBSET IP /\ Try(p, ip, gone, {})
  BY DEF Delete, Only, TypeOK
<1>3. \A i \in IP : gone[i] = IF i = ip THEN known[p][i] ELSE 0
  BY DEF Only
<1> HIDE DEF gone
<1>4. TypeOK' /\ (Edit(gone, {}) \/ (record' = record /\ errors'[p])) /\ (errors[p] => errors'[p])
  BY <1>2, TryIs
<1>5. ip \in untried[p] /\ ip \in Surplus(p) /\ untried'[p] = untried[p] \ {ip}
  BY <1>1, <1>2 DEF Try, TypeOK
<1>6. \A i \in IP \ {ip} : record'[i] = record[i]
  <2> SUFFICES ASSUME NEW i \in IP \ {ip}, Edit(gone, {}) PROVE record'[i] = record[i]
    BY <1>4
  <2>1. gone[i] = 0
    BY <1>3
  <2>2. /\ record[i] \in {0, gone[i]} => record'[i] = 0
        /\ record[i] \notin {0, gone[i]} => record'[i] = record[i]
    BY <1>2, EditIs
  <2> QED BY <2>1, <2>2
<1>7. ASSUME alone[p] PROVE Agrees(p)' /\ Progress(p)'
  <2>1. Agrees(p) /\ Progress(p)
    BY <1>1, <1>7 DEF Believes, Alone
  <2>2. listed[p] /\ ip \notin wanted[p]
    BY <1>5, <2>1 DEF Agrees, Surplus, Addresses, None
  <2>3. record[ip] \in {0, gone[ip]}
    BY <1>3, <2>1, <2>2 DEF Agrees
  <2>4. Edit(gone, {}) => record'[ip] = 0
    BY <1>2, <2>3, EditIs
  <2>5. record'[ip] \in {0, known[p][ip]}
    BY <1>3, <1>4, <2>3, <2>4
  <2>6. Agrees(p)'
    BY <1>1, <1>6, <2>1, <2>2, <2>5 DEF Agrees
  <2>7. ~errors'[p] => Deleted(p, Surplus(p) \ untried[p]) /\ record'[ip] = 0
    BY <1>1, <1>4, <2>1, <2>4 DEF Progress
  <2>8. Surplus(p)' = Surplus(p) /\ Surplus(p) \subseteq IP
    BY <1>1 DEF Surplus, Addresses
  <2>9. ~errors'[p] => Deleted(p, Surplus(p) \ untried[p])'
    BY <1>5, <1>6, <2>7, <2>8 DEF Deleted
  <2> QED BY <1>1, <2>6, <2>9 DEF Progress
<1> QED BY <1>1, <1>4, <1>7, OnlyMine

(* A creation adds one record that is wanted. *)
LEMMA CreateIInv == ASSUME IInv, NEW p \in Pusher, NEW ip \in IP, Create(p, ip) PROVE IInv'
<1> USE DEF IInv
<1>1. Busy(p) /\ ~ok[p] /\ at[p] = "create" /\ UNCHANGED <<at, wanted, known, listed, ok, alone>>
  BY DEF Create, Try, Busy, Outcome
<1>2. None \in [IP -> Nat] /\ {ip} \in SUBSET IP /\ Try(p, ip, None, {ip})
  BY DEF Create, None
<1>3. TypeOK' /\ (Edit(None, {ip}) \/ (record' = record /\ errors'[p])) /\ (errors[p] => errors'[p])
  BY <1>2, TryIs
<1>4. ip \in untried[p] /\ ip \in Missing(p) /\ untried'[p] = untried[p] \ {ip}
  BY <1>1, <1>2 DEF Try, TypeOK
<1>5. /\ \A i \in IP \ {ip} : record'[i] = record[i]
      /\ record[ip] # 0 => record'[ip] # 0
      /\ Edit(None, {ip}) => record'[ip] # 0
  <2>1. \A i \in IP : None[i] = 0
    BY DEF None
  <2>2. ASSUME NEW i \in IP \ {ip}, Edit(None, {ip}) PROVE record'[i] = record[i]
    <3>1. /\ record[i] \in {0, None[i]} => record'[i] = 0
          /\ record[i] \notin {0, None[i]} => record'[i] = record[i]
      BY <1>2, <2>2, EditIs
    <3> QED BY <2>1, <3>1
  <2>3. Edit(None, {ip}) => record'[ip] # 0
    <3> SUFFICES ASSUME Edit(None, {ip}) PROVE record'[ip] # 0
      OBVIOUS
    <3>1. /\ record[ip] \in {0, None[ip]} => record'[ip] # 0
          /\ record[ip] \notin {0, None[ip]} => record'[ip] = record[ip]
      BY <1>2, EditIs
    <3> QED BY <3>1
  <2> QED BY <1>3, <2>2, <2>3
<1>6. ASSUME alone[p] PROVE Agrees(p)' /\ Progress(p)'
  <2>1. Agrees(p) /\ Progress(p)
    BY <1>1, <1>6 DEF Believes, Alone
  <2>2. ip \in wanted[p] /\ known[p][ip] = 0
    BY <1>4 DEF Missing, Addresses
  <2>3. Agrees(p)'
    BY <1>1, <1>5, <2>1, <2>2 DEF Agrees
  <2>4. /\ Surplus(p)' = Surplus(p) /\ Surplus(p) \subseteq IP \ {ip}
        /\ Missing(p)' = Missing(p) /\ Missing(p) \subseteq IP
    BY <1>1, <2>2 DEF Surplus, Missing, Addresses, TypeOK
  <2>5. ~errors'[p] => /\ Deleted(p, Surplus(p)) /\ Created(p, Missing(p) \ untried[p])
                       /\ record'[ip] # 0
    BY <1>1, <1>3, <1>5, <2>1 DEF Progress
  <2>6. ~errors'[p] => Deleted(p, Surplus(p))' /\ Created(p, Missing(p) \ untried[p])'
    BY <1>4, <1>5, <2>4, <2>5 DEF Deleted, Created
  <2> QED BY <1>1, <2>3, <2>6 DEF Progress
<1> QED BY <1>1, <1>3, <1>6, OnlyMine

(* The deletions are over. *)
LEMMA DeletesDoneIInv == ASSUME IInv, NEW p \in Pusher, DeletesDone(p) PROVE IInv'
<1> USE DEF IInv, DeletesDone, zone
<1>1. Busy(p) /\ ~ok[p] /\ at[p] = "delete" /\ untried[p] = {}
  BY DEF Busy, Outcome
<1>2. /\ at'[p] = "create" /\ untried'[p] = Missing(p) /\ untried' \in [Pusher -> SUBSET IP]
      /\ at' \in [Pusher -> Stages]
      /\ \A q \in Pusher \ {p} : at'[q] = at[q] /\ untried'[q] = untried[q]
  BY DEF TypeOK, Stages, Missing
<1>3. TypeOK'
  BY <1>2 DEF TypeOK, Surplus, Missing, Addresses
<1>4. ASSUME alone[p] PROVE Agrees(p)' /\ Progress(p)'
  <2>1. Agrees(p) /\ Progress(p)
    BY <1>1, <1>4 DEF Believes, Alone
  <2>2. Agrees(p)'
    BY <2>1 DEF Agrees
  <2>3. Progress(p)'
    BY <1>1, <1>2, <2>1 DEF Progress, Deleted, Created, Surplus, Missing, Addresses
  <2> QED BY <2>2, <2>3
<1> QED BY <1>1, <1>2, <1>3, <1>4, OnlyMine

(* The push returns. *)
LEMMA CreatesDoneIInv == ASSUME IInv, NEW p \in Pusher, CreatesDone(p) PROVE IInv'
<1> USE DEF IInv, CreatesDone, ReturnOk, zone, notes
<1>1. Busy(p) /\ ~ok[p] /\ at[p] = "create" /\ untried[p] = {}
  BY DEF Busy, Outcome
<1>2. /\ at'[p] = "done" /\ at' \in [Pusher -> Stages]
      /\ ok' \in [Pusher -> BOOLEAN] /\ (ok'[p] => ~errors[p])
      /\ \A q \in Pusher \ {p} : at'[q] = at[q] /\ ok'[q] = ok[q]
  BY <1>1 DEF TypeOK, Stages
<1>3. TypeOK'
  <2>1. \A q \in Pusher : at'[q] \in {"delete", "create"} => at'[q] = at[q]
    BY <1>2
  <2>2. UNCHANGED <<record, serial, wanted, known, listed, untried, errors, alone>>
    OBVIOUS
  <2> HIDE DEF CreatesDone, ReturnOk
  <2> QED BY <1>2, <2>1, <2>2 DEF TypeOK, Surplus, Missing, Addresses
<1>4. ASSUME alone[p], ok'[p] PROVE Published(p)'
  <2>1. Agrees(p) /\ Progress(p)
    BY <1>1, <1>4 DEF Believes, Alone
  <2>2. Deleted(p, Surplus(p)) /\ Created(p, Missing(p))
    BY <1>1, <1>2, <1>4, <2>1 DEF Progress, Created
  <2>3. ASSUME NEW ip \in IP PROVE ip \in wanted[p] => record[ip] # 0
    BY <2>1, <2>2 DEF Agrees, Created, Missing, Addresses, None
  <2>4. ASSUME NEW ip \in IP PROVE listed[p] /\ ip \notin wanted[p] => record[ip] = 0
    BY <2>1, <2>2 DEF Agrees, Deleted, Surplus, Addresses
  <2> QED BY <2>3, <2>4 DEF Published, Addresses, TypeOK
<1> QED BY <1>1, <1>2, <1>3, <1>4, OnlyMine

-----------------------------------------------------------------------------
LEMMA NextIInv == ASSUME IInv, [Next]_vars PROVE IInv'
<1>1. CASE UNCHANGED vars
  BY <1>1 DEF vars, zone, notes, IInv, TypeOK, Lonely, Outcome, Unlisted, Believes,
              SuccessMeansPublished, Busy, Alone, Agrees, Progress, Deleted, Created,
              Surplus, Missing, Addresses
<1>2. ASSUME NEW p \in Pusher, PushStep(p) PROVE IInv'
  BY <1>2, BeginIInv, ListIInv, BatchOkIInv, BatchFailsIInv, RelistIInv, DeleteIInv,
     CreateIInv, DeletesDoneIInv, CreatesDoneIInv DEF PushStep
<1> QED BY <1>1, <1>2 DEF Next

(* The invariant holds in every state. *)
THEOREM Inductive == Spec => []IInv
<1>1. Init => IInv
  BY InitIInv
<1>2. IInv /\ [Next]_vars => IInv'
  BY NextIInv
<1> QED BY <1>1, <1>2, PTL DEF Spec

(* Every variable holds a value of its type, and a loop of the fallback has *)
(* only its own addresses before it.                                        *)
THEOREM TypeCorrect == Spec => []TypeOK
<1>1. IInv => TypeOK
  BY DEF IInv
<1> QED BY <1>1, Inductive, PTL

(* A push that reports success, with no other beside it, has put its       *)
(* addresses under the name, whatever failed on the way                    *)
(* (cloudflare.go:144-208).                                                *)
THEOREM SuccessIsTrue == Spec => []SuccessMeansPublished
<1>1. IInv => SuccessMeansPublished
  BY DEF IInv
<1> QED BY <1>1, Inductive, PTL

-----------------------------------------------------------------------------
(* Every edit of a push spares the addresses it wants. *)
LEMMA EditsSpare ==
  ASSUME IInv, NEW p \in Pusher, NEW ips \in SUBSET Surplus(p), NEW new \in SUBSET IP,
         Edit(Only(known[p], ips), new),
         NEW ip \in wanted[p], record[ip] # 0
  PROVE  record'[ip] = record[ip]
<1> DEFINE gone == Only(known[p], ips)
<1>1. gone \in [IP -> Nat] /\ ip \in IP
  BY DEF Only, IInv, TypeOK
<1>2. gone[ip] = 0
  BY <1>1 DEF Only, Surplus
<1> HIDE DEF gone
<1>3. record[ip] \notin {0, gone[ip]} => record'[ip] = record[ip]
  BY <1>1, EditIs DEF IInv, gone
<1> QED BY <1>2, <1>3

(* An address that has a record and is to keep it keeps that very record   *)
(* at every moment of a push with no other beside it                       *)
(* (cloudflare.go:168-178, 236-244).                                       *)
THEOREM RecordsStay == Spec => KeptThroughout
<1> DEFINE Kept == \A p \in Pusher : Busy(p) /\ alone[p] =>
                     \A ip \in wanted[p] : record[ip] # 0 => record'[ip] = record[ip]
<1>1. ASSUME IInv, Next PROVE Kept
  <2>1. PICK q \in Pusher : PushStep(q)
    BY <1>1 DEF Next
  <2>2. SUFFICES ASSUME NEW p \in Pusher, Busy(p), alone[p],
                        NEW ip \in wanted[p], record[ip] # 0, ~UNCHANGED record
                 PROVE  record'[ip] = record[ip]
    BY DEF Kept
  <2>3. BatchOk(q) \/ BatchFails(q) \/ \E i \in IP : Delete(q, i) \/ Create(q, i)
    BY <2>1, <2>2 DEF PushStep, Begin, List, Relist, DeletesDone, CreatesDone, zone
  <2>4. q = p
    BY <1>1, <2>2, <2>3 DEF IInv, Lonely, Busy, BatchOk, BatchFails, Delete, Create
  <2>5. PICK ips \in SUBSET Surplus(p), new \in SUBSET IP : Edit(Only(known[p], ips), new)
    <3>1. CASE BatchOk(p)
      BY <1>1, <3>1 DEF BatchOk, Missing, IInv, TypeOK
    <3>2. CASE BatchFails(p)
      BY <1>1, <3>2 DEF BatchFails, Missing, IInv, TypeOK
    <3>3. ASSUME NEW i \in IP, Delete(p, i)
          PROVE  i \in Surplus(p) /\ Edit(Only(known[p], {i}), {})
      BY <1>1, <2>2, <3>3 DEF Delete, Try, zone, IInv, TypeOK
    <3>4. ASSUME NEW i \in IP, Create(p, i)
          PROVE  Edit(Only(known[p], {}), {i})
      BY <2>2, <3>4 DEF Create, Try, zone, Only, None
    <3> QED BY <2>3, <2>4, <3>1, <3>2, <3>3, <3>4
  <2> QED BY <1>1, <2>2, <2>5, EditsSpare
<1>2. IInv /\ [Next]_vars => [Kept]_vars
  BY <1>1
<1> QED BY <1>2, Inductive, PTL DEF Spec, KeptThroughout, Kept

=============================================================================
