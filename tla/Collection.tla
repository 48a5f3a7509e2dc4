----------------------------- MODULE Collection -----------------------------
(***************************************************************************)
(* Where the addresses to test come from:                                  *)
(*                                                                         *)
(*   Fetcher.FetchCategorized, sampleCIDRsWeighted, computeQuotas,         *)
(*   sampleFromCIDR, parseIPList, splitByOrigin                            *)
(*                                   (src/collector/ipfetcher.go)          *)
(*   CIDRStats                       (src/collector/cidr_stats.go)         *)
(*   and the step of a run that rates the ranges (src/web/service.go,      *)
(*   src/main.go).                                                         *)
(*                                                                         *)
(* Every source is fetched by a goroutine of its own.  The official one    *)
(* lists ranges; each gets a share of the sample that follows its hit rate *)
(* in earlier rounds.  A custom source lists ranges, or single addresses   *)
(* with or without a port.  A range is named by its place in the official  *)
(* list, an address by its range and its place in it; a line of ranges     *)
(* that yields no address (it cannot be parsed, or is of IPv6) is a range  *)
(* of size 0, which has its share like the others.  Lines of a list of     *)
(* addresses that cannot be parsed, and repeated lines, are left out.      *)
(*                                                                         *)
(* The configuration belongs to the whole process: setConfigHandler        *)
(* (src/web/handlers.go:775) overwrites it in place at any time, field by  *)
(* field, while goroutines read it without a lock.  So nothing is assumed  *)
(* of two reads: each is a choice of its own among the Settings.           *)
(***************************************************************************)
EXTENDS Integers, FiniteSets, FiniteSetsExt, Functions

CONSTANTS
  NumRanges,  \* the official list has the ranges 1 .. NumRanges
  Size,       \* the number of addresses of each range
  Custom,     \* the custom sources
  Listed,     \* the ranges a custom source lists
  Lines,      \* by source: lines [ip, port] when it lists no ranges; port 0: none is given
  Settings,   \* the configurations that requests set: IPv4Count, MaxIPs, TCPPingPorts
  DefaultCount, \* the sample when IPv4Count is 0: 100
  SamplesPerCIDR, \* SAMPLES_PER_CIDR
  MaxRounds   \* bound: rounds of collection

Ranges == 1 .. NumRanges

ASSUME CollectionAssumption ==
  /\ NumRanges \in Nat \ {0}
  /\ Size \in [Ranges -> Nat]
  /\ Listed \in [Custom -> SUBSET Ranges]
  /\ IsFiniteSet(Custom) /\ "official" \notin Custom
  /\ \A s \in Custom \cup {"official"} : IsFiniteSet(Lines[s])
  /\ \A c \in Settings :
       c.count \in Nat /\ c.cap \in Nat /\ IsFiniteSet(c.ports) /\ c.ports # {}
  /\ SamplesPerCIDR \in Nat \ {0} /\ DefaultCount \in Nat \ {0}

VARIABLES
  stats,      \* CIDRStats.Stats: what was sampled and what passed, by range
  rated,      \* cidr_stats_path is set: this process keeps statistics
  savedStats, \* what the file of the statistics holds: {}, none that can be read
  phase,      \* where the round is
  waiting,    \* the sources whose goroutines have not ended
  fetched,    \* the tasks that each source has yielded
  official, custom, \* FetchResult
  configRead, \* history: the ports and the values of MaxIPs that the merge has read
  rounds

collectionVars ==
  <<stats, rated, savedStats, phase, waiting, fetched, official, custom, configRead, rounds>>

Source == Custom \cup {"official"}

(* What a read of a field of the configuration may find *)
Counts    == {c.count : c \in Settings}
Caps      == {c.cap : c \in Settings}
PortLists == {c.ports : c \in Settings}

(* IPv4Count as the number of addresses to sample from ranges *)
Asked(n) == IF n = 0 THEN DefaultCount ELSE n

NothingRead == [ports |-> {}, caps |-> {}]

NoHistory == [r \in Ranges |-> [sampled |-> 0, passed |-> 0]]

CollectionInit ==
  /\ rated \in BOOLEAN
  /\ stats = NoHistory /\ savedStats = {}
  /\ phase = "idle" /\ waiting = {}
  /\ fetched = [s \in Source |-> {}]
  /\ official = {} /\ custom = {} /\ configRead = NothingRead
  /\ rounds = 0

-----------------------------------------------------------------------------
(* The shares of the ranges *)

(* GetWeight: a fraction. *)
Weight(stat) ==
  IF stat.sampled = 0 THEN [num |-> 1, den |-> 10]
  ELSE IF stat.passed * 20 < stat.sampled THEN [num |-> 1, den |-> 20]
  ELSE [num |-> stat.passed, den |-> stat.sampled]

(* The weights over a common denominator. *)
Weights(st) ==
  LET den == [r \in Ranges |-> Weight(st[r]).den]
  IN  [r \in Ranges |->
         FoldFunctionOnSet(LAMBDA a, b : a * b, Weight(st[r]).num, den, Ranges \ {r})]

(* The first of the ranges with the highest weight. *)
BestRange(w) == Min({r \in Ranges : \A q \in Ranges : w[q] <= w[r]})

(* A quotient of floating-point numbers, truncated: one that should be a   *)
(* whole number may come out just below it.                                *)
Truncated(n, d) ==
  IF n <= 0 THEN {0}
  ELSE {n \div d} \cup {k \in {n \div d - 1} : n % d = 0}

PoolsMutant(total) ==
  LET exploit == (total * 3) \div 5
      each    == (total - exploit) \div NumRanges
  IN  IF each < 1 THEN [each |-> 1, exploit |-> exploit]
                  ELSE [each |-> each, exploit |-> exploit]

(* 60 % for the ranges with the best history, the rest for all alike, but  *)
(* one address for each range first.                                       *)
Pools(total) ==
  LET exploit == (total * 3) \div 5
      each    == (total - exploit) \div NumRanges
  IN  IF each < 1 THEN [each |-> 1, exploit |-> total - NumRanges]
                  ELSE [each |-> each, exploit |-> exploit]

(* computeQuotas with statistics: what rounding leaves goes to the best. *)
Quotas(st, total) ==
  LET pools == Pools(total)
      w     == Weights(st)
      sum   == SumFunction(w)
      best  == BestRange(w)
      shares == {f \in [Ranges -> 0 .. total] :
                   \A r \in Ranges : f[r] \in Truncated(pools.exploit * w[r], sum)}
      quota(f) ==
        LET rest == pools.exploit - SumFunction(f)
        IN  [r \in Ranges |-> pools.each + f[r] + IF r = best /\ rest > 0 THEN rest ELSE 0]
  IN  {quota(f) : f \in shares}

(* computeQuotas without. *)
Uniform(total) ==
  LET each == total \div NumRanges
  IN  {[r \in Ranges |-> IF each < 1 THEN 1 ELSE each]}

-----------------------------------------------------------------------------
(* Addresses and tasks *)

Addresses(r) == {[range |-> r, place |-> k] : k \in 0 .. Size[r] - 1}

(* sampleFromCIDR: a range that is no larger than its share is expanded    *)
(* for an empty list of ports, into nothing.                               *)
Sample(r, n) == IF Size[r] <= n THEN {{}} ELSE kSubset(n, Addresses(r))

Task(s, ip, port, range) == [source |-> s, ip |-> ip, port |-> port, range |-> range]

TasksOf(s, pick, ports) ==
  {Task(s, ip, p, ip.range) : ip \in UNION Range(pick), p \in ports}

(* A number in the configuration is read three times: whether there is a   *)
(* limit, whether the tasks exceed it, and how many of them to keep.       *)
TooMany(tasks, limit, bound) == limit > 0 /\ Cardinality(tasks) > bound

(* sampleIPs, when there are too many: none of the sets if more are to be  *)
(* kept than there are, where the slice panics.                            *)
Cut(tasks, limit, bound, size) ==
  IF TooMany(tasks, limit, bound) THEN kSubset(size, tasks) ELSE {tasks}

(* parseIPList: a line with a port of its own stays if it is configured. *)
ParseIPList(s, ports) ==
  {Task(s, l[1].ip, l[2], 0) :
     l \in {m \in Lines[s] \X ports : m[1].port \in {0, m[2]}}}

CountOf(tasks, r) == Cardinality({t \in tasks : t.range = r})

(* RecordSampled, RecordPassed: the history of a range decays only when    *)
(* something is recorded for it.                                           *)
Decayed(n) == (n * 4) \div 5

Recorded(st, field, count) ==
  [r \in Ranges |-> IF count[r] = 0 THEN st[r]
                    ELSE [st[r] EXCEPT ![field] = Decayed(@) + count[r]]]

-----------------------------------------------------------------------------
(* FetchCategorized *)

StartRound ==
  /\ phase = "idle" /\ rounds < MaxRounds
  /\ phase' = "fetching" /\ waiting' = Source
  /\ rounds' = rounds + 1
  /\ UNCHANGED <<stats, rated, savedStats, fetched, official, custom, configRead>>

(* The end of a round, or of its use here, drops what it has fetched. *)
Dropped ==
  /\ fetched' = [s \in Source |-> {}]
  /\ official' = {} /\ custom' = {} /\ configRead' = NothingRead

Ended(s, tasks) ==
  /\ phase = "fetching" /\ s \in waiting
  /\ waiting' = waiting \ {s}
  /\ fetched' = [fetched EXCEPT ![s] = tasks]
  /\ UNCHANGED <<rated, savedStats, phase, official, custom, configRead, rounds>>

FetchFails(s) == Ended(s, {}) /\ UNCHANGED stats

(* Ranges: the sample is cut once more, as every port counts. *)
FetchOfficial ==
  \E n \in {Asked(c) : c \in Counts}, ports \in PortLists :
  \E quota \in IF rated THEN Quotas(stats, n) ELSE Uniform(n) :
  \E pick \in [Ranges -> UNION {Sample(r, quota[r]) : r \in Ranges}] :
    /\ \A r \in Ranges : pick[r] \in Sample(r, quota[r])
    /\ \E tasks \in Cut(TasksOf("official", pick, ports), n, n, n) :
         /\ Ended("official", tasks)
         /\ stats' = IF rated
                     THEN Recorded(stats, "sampled", [r \in Ranges |-> CountOf(tasks, r)])
                     ELSE stats

(* A list of addresses, official or custom: only the official is sampled.  *)
(* Where this panics, in a goroutine of its own, the process ends.         *)
FetchList(s) ==
  \E ports \in PortLists, limit, bound, size \in Counts :
  \E tasks \in IF s = "official" THEN Cut(ParseIPList(s, ports), limit, bound, size)
                                 ELSE {ParseIPList(s, ports)} :
    Ended(s, tasks) /\ UNCHANGED stats

FetchCustom(s) ==
  \E pick \in [Listed[s] -> UNION {Sample(r, SamplesPerCIDR) : r \in Listed[s]}],
     ports \in PortLists :
    /\ \A r \in Listed[s] : pick[r] \in Sample(r, SamplesPerCIDR)
    /\ Ended(s, TasksOf(s, pick, ports))
    /\ UNCHANGED stats

Target(t) == <<t.ip, t.port>>

SplitMutant(tasks, c) ==
  [official |-> {t \in tasks : t.ip \notin {u.ip : u \in c}},
   custom   |-> {t \in tasks : t.ip \in {u.ip : u \in c}}]

(* splitByOrigin: by address and port, as the sample has forgotten where   *)
(* its members come from.                                                  *)
Split(tasks, c) ==
  [official |-> {t \in tasks : Target(t) \notin {Target(u) : u \in c}},
   custom   |-> {t \in tasks : Target(t) \in {Target(u) : u \in c}}]

(* All goroutines have ended: the ports are checked against those that     *)
(* are configured now, and the whole is cut down to MaxIPs.                *)
Merging(ports) ==
  LET known(tasks) == {t \in tasks : t.port \in ports}
  IN  [official |-> known(fetched["official"]),
       custom   |-> known(UNION {fetched[s] : s \in Custom})]

Merge ==
  /\ phase = "fetching" /\ waiting = {}
  /\ phase' = "fetched"
  /\ \E ports \in PortLists, limit, bound, size \in Caps :
       LET o == Merging(ports).official
           c == Merging(ports).custom
       IN  /\ configRead' = [ports |-> ports, caps |-> {limit, bound, size}]
           /\ IF TooMany(o \cup c, limit, bound)
              THEN \E kept \in kSubset(size, o \cup c) :
                     official' = Split(kept, c).official /\ custom' = Split(kept, c).custom
              ELSE official' = o /\ custom' = c
  /\ UNCHANGED <<stats, rated, savedStats, waiting, fetched, rounds>>

(* MaxIPs has been raised between two reads, beyond what there is: the     *)
(* panic ends the run, whose deferred call recovers from it.               *)
MergePanics ==
  /\ phase = "fetching" /\ waiting = {}
  /\ \E ports \in PortLists, limit, bound, size \in Caps :
       LET tasks == Merging(ports).official \cup Merging(ports).custom
       IN  TooMany(tasks, limit, bound) /\ size > Cardinality(tasks)
  /\ phase' = "idle" /\ Dropped
  /\ UNCHANGED <<stats, rated, savedStats, waiting, rounds>>

-----------------------------------------------------------------------------
(* The run: what passes the check of the countries is recorded. *)

Passed(count) ==
  LET tasks == official \cup custom
  IN  /\ \A r \in Ranges : count[r] <= CountOf(tasks, r)
      /\ \/ \E r \in Ranges : count[r] > 0
         \/ \E t \in tasks : t.range = 0

(* Save: os.WriteFile truncates the file, unless it cannot be opened. *)
RateRanges ==
  /\ phase = "fetched" /\ rated
  /\ \E count \in [Ranges -> 0 .. Cardinality(official \cup custom)] :
       Passed(count) /\ stats' = Recorded(stats, "passed", count)
  /\ \/ phase' = "saving" /\ savedStats' = {}
     \/ phase' = "idle" /\ UNCHANGED savedStats
  /\ Dropped
  /\ UNCHANGED <<rated, waiting, rounds>>

(* The write that follows, whole or torn *)
Saved ==
  /\ phase = "saving" /\ phase' = "idle"
  /\ savedStats' \in {{stats}, {}}
  /\ UNCHANGED <<stats, rated, waiting, fetched, official, custom, configRead, rounds>>

(* The run ends before: nothing passes, it is cancelled, or no check of    *)
(* the countries is asked for.                                             *)
EndEarly ==
  /\ phase = "fetched" /\ phase' = "idle"
  /\ Dropped
  /\ UNCHANGED <<stats, rated, savedStats, waiting, rounds>>

(* The process ends anywhere and starts again: NewCIDRStats reads what it  *)
(* can, and a torn file is no history.                                     *)
Restart ==
  /\ rated' \in BOOLEAN
  /\ stats' \in IF rated' /\ savedStats # {} THEN savedStats ELSE {NoHistory}
  /\ phase' = "idle" /\ waiting' = {}
  /\ Dropped
  /\ UNCHANGED <<savedStats, rounds>>

-----------------------------------------------------------------------------
CollectionNext ==
  \/ StartRound \/ FetchOfficial \/ Merge \/ MergePanics \/ RateRanges
  \/ Saved \/ EndEarly \/ Restart
  \/ \E s \in Custom : FetchCustom(s)
  \/ \E s \in Source : FetchFails(s) \/ FetchList(s)

CollectionSpec == CollectionInit /\ [][CollectionNext]_collectionVars

-----------------------------------------------------------------------------
(* Properties *)

(***************************************************************************)
(* Whatever has been recorded, lost and loaded again, the shares fit: each *)
(* range has one (ipfetcher.go:437), they add up to the number asked for,  *)
(* short only of a rest that does not divide among the ranges, or to one   *)
(* each when that is more; and a higher weight never has the smaller share *)
(* but by one address that floating point has lost.                        *)
(***************************************************************************)
QuotasFit ==
  \A n \in {Asked(c) : c \in Counts} : \A q \in Quotas(stats, n) :
    LET w == Weights(stats)
    IN  /\ \A r \in Ranges : q[r] >= 1
        /\ IF n < NumRanges THEN SumFunction(q) = NumRanges
           ELSE SumFunction(q) \in n - NumRanges + 1 .. n
        /\ \A r, s \in Ranges : w[r] > w[s] => q[r] >= q[s] - 1

(***************************************************************************)
(* However the configuration has changed since the addresses were fetched, *)
(* every task left has a port that was configured at the merge, each is    *)
(* counted once, and on the side it came from, where an address of both    *)
(* sides counts as custom.  And cutting down to MaxIPs loses no more of    *)
(* them than it must, unless MaxIPs changes while it is being applied.     *)
(***************************************************************************)
SourcesKept ==
  phase = "fetched" =>
    LET right == {t \in UNION Range(fetched) : t.port \in configRead.ports}
        mine  == {Target(t) : t \in UNION {fetched[s] : s \in Custom}}
    IN  /\ official \cap custom = {} /\ official \cup custom \subseteq right
        /\ official \subseteq fetched["official"]
        /\ \A t \in custom : Target(t) \in mine
        /\ \A cap \in Caps : configRead.caps = {cap} =>
             Cardinality(official) + Cardinality(custom) =
               IF cap > 0 THEN Min({cap, Cardinality(right)}) ELSE Cardinality(right)

-----------------------------------------------------------------------------
(* What a comment says and the code does not do *)

(***************************************************************************)
(* Every range is sampled: a small one is expanded as a whole (ipfetcher   *)
(* .go:587), so that each range of the official list that has addresses    *)
(* has a task when the list was of ranges and nothing had to be cut off.   *)
(***************************************************************************)
EveryRangeSampled ==
  LET tasks == fetched["official"]
      uncut == \A c \in Counts : Cardinality(tasks) < Asked(c)
  IN  (\E t \in tasks : t.range # 0) /\ uncut
        => \A r \in Ranges : Size[r] > 0 => CountOf(tasks, r) > 0
=============================================================================
