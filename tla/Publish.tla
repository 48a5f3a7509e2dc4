------------------------------ MODULE Publish ------------------------------
(***************************************************************************)
(* Publishing a list of IPs as the A records of a Cloudflare DNS name.     *)
(*                                                                         *)
(*   CloudflarePusher.Push, batchUpdateDNS, getAllDNSRecords,              *)
(*   createDNSRecord, deleteDNSRecord   (src/pusher/cloudflare.go)         *)
(*                                                                         *)
(* Cloudflare fails as the code expects it to: a request may not arrive,   *)
(* its reply may not, and a batch may be carried out in part.              *)
(*                                                                         *)
(* The mutex of CloudflarePusher is not here: every caller builds a pusher *)
(* of its own for one push, so that nobody ever waits for it (main.go:948, *)
(* web/service.go:946).                                                    *)
(***************************************************************************)
EXTENDS Naturals

CONSTANTS
  IP,      \* the addresses
  Pusher   \* the pushes: of the push timer, of a manual job, ...

VARIABLES
  record,   \* the record of an address under the name: 0 or its serial number
  serial,   \* how many records an address has ever had
  at,       \* where each push is
  wanted,   \* newIPs
  known,    \* existingMap, then freshMap: the records a push believes in
  listed,   \* known comes from a listing
  untried,  \* the addresses the loop of the fallback has not come to
  errors,   \* len(result.Errors) > 0
  ok,       \* Push has returned no error
  alone     \* history: no other push has run since this one began

zone   == <<record, serial>>
notes  == <<wanted, known, listed, untried, errors>>
vars == <<zone, at, notes, ok, alone>>

None == [ip \in IP |-> 0]
Addresses(r) == {ip \in IP : r[ip] # 0}

Init ==
  /\ record \in [IP -> {0, 1}] /\ serial = record
  /\ at = [p \in Pusher |-> "idle"]
  /\ wanted = [p \in Pusher |-> {}]
  /\ known = [p \in Pusher |-> None]
  /\ listed = [p \in Pusher |-> FALSE]
  /\ untried = [p \in Pusher |-> {}]
  /\ errors = [p \in Pusher |-> FALSE]
  /\ ok = [p \in Pusher |-> FALSE]
  /\ alone = [p \in Pusher |-> TRUE]

Busy(p) == at[p] \notin {"idle", "done"}

-----------------------------------------------------------------------------
(* What Cloudflare does to the records *)

(* Deleting a record is by its number: a newer one of the address stays. *)
Without(r, gone) == [ip \in IP |-> IF gone[ip] = r[ip] THEN 0 ELSE r[ip]]

(* An address has one record: creating it again is refused. *)
With(r, new) ==
  [ip \in IP |-> IF ip \in new /\ r[ip] = 0 THEN serial[ip] + 1 ELSE r[ip]]

Edit(gone, new) ==
  /\ record' = With(Without(record, gone), new)
  /\ serial' = [ip \in IP |-> serial[ip] + (IF record'[ip] \notin {0, record[ip]} THEN 1 ELSE 0)]

Only(r, ips) == [ip \in IP |-> IF ip \in ips THEN r[ip] ELSE 0]

-----------------------------------------------------------------------------
(* CloudflarePusher.Push *)

Begin(p) ==
  /\ at[p] = "idle"
  /\ at' = [at EXCEPT ![p] = "list"]
  /\ \E new \in SUBSET IP \ {{}} : wanted' = [wanted EXCEPT ![p] = new]
  /\ alone' = [q \in Pusher |-> IF q = p THEN \A o \in Pusher : ~Busy(o) ELSE FALSE]
  /\ UNCHANGED <<zone, known, listed, untried, errors, ok>>

(* A listing that fails is taken for a name without records. *)
List(p) ==
  /\ at[p] = "list"
  /\ at' = [at EXCEPT ![p] = "batch"]
  /\ \/ /\ known' = [known EXCEPT ![p] = record]
        /\ listed' = [listed EXCEPT ![p] = TRUE]
     \/ UNCHANGED <<known, listed>>
  /\ UNCHANGED <<zone, wanted, untried, errors, ok, alone>>

SurplusMutant(p) == Addresses(known[p])
Surplus(p) == Addresses(known[p]) \ wanted[p]
Missing(p) == wanted[p] \ Addresses(known[p])

ReturnOk(p) ==
  /\ at' = [at EXCEPT ![p] = "done"]
  /\ ok' = [ok EXCEPT ![p] = TRUE]

(* One request deletes and creates everything, or nothing is to be done. *)
BatchOk(p) ==
  /\ at[p] = "batch"
  /\ \A ip \in Surplus(p) : record[ip] = known[p][ip]
  /\ \A ip \in Missing(p) : record[ip] = 0
  /\ Edit(Only(known[p], Surplus(p)), Missing(p))
  /\ ReturnOk(p)
  /\ UNCHANGED <<notes, alone>>

(* An error comes back, whatever part of the request was carried out. *)
BatchFails(p) ==
  /\ at[p] = "batch"
  /\ Surplus(p) \cup Missing(p) # {}
  /\ at' = [at EXCEPT ![p] = "relist"]
  /\ \E gone \in SUBSET Surplus(p), new \in SUBSET Missing(p) : Edit(Only(known[p], gone), new)
  /\ UNCHANGED <<notes, ok, alone>>

(* The fallback lists anew: the batch may have left its mark. *)
RelistMutant(p) ==
  /\ at[p] = "relist"
  /\ at' = [at EXCEPT ![p] = "delete"]
  /\ \/ /\ known' = [known EXCEPT ![p] = record]
        /\ listed' = [listed EXCEPT ![p] = TRUE]
     \/ /\ known' = [known EXCEPT ![p] = None]
        /\ UNCHANGED listed
  /\ untried' = [untried EXCEPT ![p] = Addresses(known'[p]) \ wanted[p]]
  /\ UNCHANGED <<zone, wanted, errors, ok, alone>>

Relist(p) ==
  /\ at[p] = "relist"
  /\ at' = [at EXCEPT ![p] = "delete"]
  /\ \/ /\ known' = [known EXCEPT ![p] = record]
        /\ listed' = [listed EXCEPT ![p] = TRUE]
     \/ UNCHANGED <<known, listed>>
  /\ untried' = [untried EXCEPT ![p] = Addresses(known'[p]) \ wanted[p]]
  /\ UNCHANGED <<zone, wanted, errors, ok, alone>>

(* One request of the fallback, in any order; "no such record" and "an     *)
(* identical record exists" count as success.                              *)
Try(p, ip, gone, new) ==
  /\ ip \in untried[p]
  /\ untried' = [untried EXCEPT ![p] = @ \ {ip}]
  /\ \/ Edit(gone, new) /\ UNCHANGED errors
     \/ Edit(gone, new) /\ errors' = [errors EXCEPT ![p] = TRUE]
     \/ UNCHANGED zone /\ errors' = [errors EXCEPT ![p] = TRUE]
  /\ UNCHANGED <<at, wanted, known, listed, ok, alone>>

Delete(p, ip) == at[p] = "delete" /\ Try(p, ip, Only(known[p], {ip}), {})
Create(p, ip) == at[p] = "create" /\ Try(p, ip, None, {ip})

DeletesDone(p) ==
  /\ at[p] = "delete" /\ untried[p] = {}
  /\ at' = [at EXCEPT ![p] = "create"]
  /\ untried' = [untried EXCEPT ![p] = Missing(p)]
  /\ UNCHANGED <<zone, wanted, known, listed, errors, ok, alone>>

CreatesDone(p) ==
  /\ at[p] = "create" /\ untried[p] = {}
  /\ IF errors[p]
     THEN at' = [at EXCEPT ![p] = "done"] /\ UNCHANGED ok
     ELSE ReturnOk(p)
  /\ UNCHANGED <<zone, notes, alone>>

-----------------------------------------------------------------------------
PushStep(p) ==
  \/ Begin(p) \/ List(p) \/ BatchOk(p) \/ BatchFails(p) \/ Relist(p)
  \/ DeletesDone(p) \/ CreatesDone(p)
  \/ \E ip \in IP : Delete(p, ip) \/ Create(p, ip)

Next == \E p \in Pusher : PushStep(p)

Spec == Init /\ [][Next]_vars

-----------------------------------------------------------------------------
Stages == {"idle", "list", "batch", "relist", "delete", "create", "done"}

(* Every variable holds a value of its type, and a loop of the fallback has *)
(* only its own addresses before it.                                        *)
TypeOK ==
  /\ record \in [IP -> Nat] /\ serial \in [IP -> Nat]
  /\ at \in [Pusher -> Stages]
  /\ wanted \in [Pusher -> SUBSET IP] /\ untried \in [Pusher -> SUBSET IP]
  /\ known \in [Pusher -> [IP -> Nat]]
  /\ {listed, errors, ok, alone} \subseteq [Pusher -> BOOLEAN]
  /\ \A ip \in IP : record[ip] \in {0, serial[ip]}
  /\ \A p \in Pusher : /\ at[p] = "delete" => untried[p] \subseteq Surplus(p)
                       /\ at[p] = "create" => untried[p] \subseteq Missing(p)

(* A push that reports success, with no other push beside it, has put all  *)
(* its addresses under the name, and nothing else is there if it ever got  *)
(* a listing: however much of the batch was carried out before it failed,  *)
(* and whichever listing failed (cloudflare.go:144-208).                   *)
SuccessMeansPublished ==
  \A p \in Pusher : ok[p] /\ alone[p] =>
    /\ wanted[p] \subseteq Addresses(record)
    /\ listed[p] => Addresses(record) = wanted[p]

(* An address that has a record and is to keep it keeps that very record   *)
(* at every moment of a push with no other beside it, so that the name     *)
(* never stops answering with it (cloudflare.go:168-178, 236-244).         *)
KeptThroughout ==
  [][\A p \in Pusher : Busy(p) /\ alone[p] =>
       \A ip \in wanted[p] : record[ip] # 0 => record'[ip] = record[ip]]_vars
=============================================================================
