------------------------------- MODULE NetStats -------------------------------
(***************************************************************************)
(* The traffic counters of a worker: the eBPF programs tc_ingress and      *)
(* tc_egress, which run on every CPU for every packet and count it in the  *)
(* hash map net_stats_map, and NetEbpfMonitor, which attaches them, visits *)
(* the map's keys once a round and reports differences.                    *)
(*                                                                         *)
(* A direction has a counter of bytes and one of packets, each with an     *)
(* atomic add of its own; they are treated alike and one stands for both.  *)
(* Counters of 64 bits do not wrap.  A CPU is a context that runs the      *)
(* program to its end: a soft interrupt on top of a sending process is two *)
(* of them.  The map is a preallocated hash map of the kernel (external):  *)
(* replacing an entry takes the spare element of the CPU and leaves it the *)
(* old one, to which another CPU may still hold a pointer.  Its keys are   *)
(* handed out bucket by bucket, each bucket from the head of its chain,    *)
(* where every update puts its element: a replaced entry changes places.   *)
(***************************************************************************)
EXTENDS Integers, FiniteSets, FiniteSetsExt

CONSTANTS
  CPUs,         \* the contexts that run the eBPF programs
  Interfaces,   \* the numbers of the interfaces the monitor enumerates, from 1 on
  Bucket,       \* the bucket of the map to which each interface's number hashes
  Directions,   \* receiving and sending
  MaxEntries,   \* max_entries of net_stats_map: 64 in the code
  MaxPackets,   \* bound on the packets of a behaviour
  None          \* no entry, no element, nothing to do

\* The elements of the map: the preallocated ones and one spare for each CPU.
Elements == 1..MaxEntries \cup CPUs

\* A packet on its way through update_stats, with the element found for its interface.
Packet == [ifindex : Interfaces, dir : Directions, stats : Elements \cup {None}]

ASSUME NetStatsAssumption ==
  /\ Interfaces \in SUBSET (Nat \ {0}) /\ IsFiniteSet(Interfaces)
  /\ Bucket \in [Interfaces -> Nat]
  /\ IsFiniteSet(CPUs) /\ CPUs \cap Nat = {}
  /\ MaxEntries \in Nat
  /\ None \notin Nat \cup CPUs \cup Packet

NoCount == [d \in Directions |-> 0]

VARIABLES
  map,          \* net_stats_map: the element of each interface, None without an entry
  value,        \* the counters in each element
  behind,       \* the interfaces that follow each interface in the chain of its bucket
  spare,        \* the element each CPU takes for its next replacement
  cpu,          \* what each CPU is about to do for a packet, None between packets
  loaded,       \* loaded_
  key,          \* UpdateOnce: the key it is at, None between rounds
  net_info,     \* the interfaces listed in this round, or in the last one
  again,        \* history: those that were listed in it twice
  relinked,     \* history: the buckets whose entries changed places in it
  cache,        \* cache_: the last sample of each interface
  arrived,      \* history: the packets of each interface and direction
  reported      \* history: the sum of all differences reported

kernel  == <<map, value, behind, spare, cpu, arrived>>
monitor == <<loaded, key, net_info, again, cache, reported>>
vars    == <<kernel, monitor, relinked>>

Entries == {i \in Interfaces : map[i] # None}

\* The packets of direction d that have come to any interface.
TotalArrived(d) == MapThenSumSet(LAMBDA i : arrived[i][d], Interfaces)

\* InitEbpf has hooked the interfaces that can be hooked, and has failed if none of them has
\* an ingress hook.  A direction without a hook is one without packets; packets that come
\* while InitEbpf is still hooking others are as good as packets that come after it.
Init ==
  /\ map = [i \in Interfaces |-> None]
  /\ value = [e \in Elements |-> NoCount]
  /\ behind = [i \in Interfaces |-> {}]
  /\ spare = [c \in CPUs |-> c]
  /\ cpu = [c \in CPUs |-> None]
  /\ loaded \in BOOLEAN
  /\ key = None
  /\ net_info = {} /\ again = {} /\ relinked = {}
  /\ cache = [i \in Interfaces |-> None]
  /\ arrived = [i \in Interfaces |-> NoCount]
  /\ reported = NoCount

-----------------------------------------------------------------------------
(* update_stats, on every CPU.                                             *)

\* A packet of length other than 0 passes a hook: its interface is looked up.
LookUp(c, i, d) ==
  /\ cpu[c] = None
  /\ MapThenSumSet(TotalArrived, Directions) < MaxPackets
  /\ cpu' = [cpu EXCEPT ![c] = [ifindex |-> i, dir |-> d, stats |-> map[i]]]
  /\ arrived' = [arrived EXCEPT ![i][d] = @ + 1]
  /\ UNCHANGED <<map, value, behind, spare, monitor, relinked>>

\* Defect: the counter is assigned, as for a first packet.
Add_Sets(c) ==
  /\ cpu[c] # None /\ cpu[c].stats # None
  /\ value' = [value EXCEPT ![cpu[c].stats][cpu[c].dir] = 1]
  /\ cpu' = [cpu EXCEPT ![c] = None]
  /\ UNCHANGED <<map, behind, spare, arrived, monitor, relinked>>

\* The interface had an entry: its counter is added to, in the element found then.
Add(c) ==
  /\ cpu[c] # None /\ cpu[c].stats # None
  /\ value' = [value EXCEPT ![cpu[c].stats][cpu[c].dir] = @ + 1]
  /\ cpu' = [cpu EXCEPT ![c] = None]
  /\ UNCHANGED <<map, behind, spare, arrived, monitor, relinked>>

\* Element e becomes the entry of the interface of CPU c's packet, which it counts alone, and
\* the head of the chain of its bucket.
Link(c, e) ==
  LET i == cpu[c].ifindex IN
  /\ map' = [map EXCEPT ![i] = e]
  /\ value' = [value EXCEPT ![e] = [NoCount EXCEPT ![cpu[c].dir] = 1]]
  /\ behind' = [j \in Interfaces |-> IF j = i THEN {k \in Entries \ {i} : Bucket[k] = Bucket[i]}
                                     ELSE behind[j] \ {i}]

\* The interface had no entry: bpf_map_update_elem with BPF_ANY, whose error is ignored.
Create(c) ==
  LET i == cpu[c].ifindex IN
  /\ cpu[c] # None /\ cpu[c].stats = None
  /\ \/ /\ map[i] # None
        /\ Link(c, spare[c])
        /\ spare' = [spare EXCEPT ![c] = map[i]]
        /\ relinked' = IF key = None \/ behind' = behind THEN relinked
                       ELSE relinked \cup {Bucket[i]}
     \/ /\ map[i] = None /\ Cardinality(Entries) < MaxEntries
        /\ Link(c, Cardinality(Entries) + 1)
        /\ UNCHANGED <<spare, relinked>>
     \/ /\ map[i] = None /\ Cardinality(Entries) >= MaxEntries
        /\ UNCHANGED <<map, value, behind, spare, relinked>>
  /\ cpu' = [cpu EXCEPT ![c] = None]
  /\ UNCHANGED <<arrived, monitor>>

-----------------------------------------------------------------------------
(* NetEbpfMonitor.                                                         *)

BeginRound ==
  /\ loaded
  /\ key = None
  /\ key' = 0
  /\ net_info' = {} /\ again' = {} /\ relinked' = {}
  /\ UNCHANGED <<kernel, loaded, cache, reported>>

\* The order of the keys.
Precedes(i, j) == Bucket[i] < Bucket[j] \/ j \in behind[i]

\* The interfaces that come after the key the round is at, which is 0 before the first.
Ahead == {i \in Entries : key = 0 \/ Precedes(key, i)}

\* bpf_map_get_next_key returns i.
NextKey(i) == i \in Ahead /\ \A j \in Ahead \ {i} : Precedes(i, j)

\* Defect: a counter that is smaller than in the last sample gives a negative difference.
Difference_Signed(old, new, d) == IF old = None THEN 0 ELSE new[d] - old[d]

\* What is reported of a counter: the difference to the last sample, the counter itself if
\* it is smaller than then, nothing if there is no sample.
Difference(old, new, d) ==
  IF old = None THEN 0
  ELSE IF new[d] - old[d] < 0 THEN new[d] ELSE new[d] - old[d]

\* Defect: the sample is kept from the first round.
Visit_KeepsFirst(i) ==
  /\ key # None /\ NextKey(i)
  /\ LET now == value[map[i]]
     IN /\ reported' = [d \in Directions |-> reported[d] + Difference(cache[i], now, d)]
        /\ cache' = IF cache[i] = None THEN [cache EXCEPT ![i] = now] ELSE cache
  /\ key' = i
  /\ net_info' = net_info \cup {i}
  /\ again' = again \cup (net_info \cap {i})
  /\ UNCHANGED <<kernel, loaded, relinked>>

\* Defect: a new interface ends the round, as break for continue would.
Visit_EndsAtNew(i) ==
  /\ key # None /\ NextKey(i)
  /\ LET now == value[map[i]]
     IN /\ reported' = [d \in Directions |-> reported[d] + Difference(cache[i], now, d)]
        /\ cache' = [cache EXCEPT ![i] = now]
  /\ key' = IF cache[i] = None THEN None ELSE i
  /\ net_info' = net_info \cup {i}
  /\ again' = again \cup (net_info \cap {i})
  /\ UNCHANGED <<kernel, loaded, relinked>>

\* The next key is looked up, listed, compared with its last sample and sampled.  Its two
\* directions may be copied at different moments; nothing compares them.
Visit(i) ==
  /\ key # None /\ NextKey(i)
  /\ LET now == value[map[i]]
     IN /\ reported' = [d \in Directions |-> reported[d] + Difference(cache[i], now, d)]
        /\ cache' = [cache EXCEPT ![i] = now]
  /\ key' = i
  /\ net_info' = net_info \cup {i}
  /\ again' = again \cup (net_info \cap {i})
  /\ UNCHANGED <<kernel, loaded, relinked>>

EndRound ==
  /\ key # None /\ Ahead = {}
  /\ key' = None
  /\ UNCHANGED <<kernel, loaded, net_info, again, cache, reported, relinked>>

\* CleanupEbpf closes the map; the programs, should they stay attached, count on.
Stop ==
  /\ loaded /\ key = None
  /\ loaded' = FALSE
  /\ UNCHANGED <<kernel, key, net_info, again, cache, reported, relinked>>

Next ==
  \/ \E c \in CPUs, i \in Interfaces, d \in Directions : LookUp(c, i, d)
  \/ \E c \in CPUs : Add(c)
  \/ \E c \in CPUs : Create(c)
  \/ BeginRound
  \/ \E i \in Interfaces : Visit(i)
  \/ EndRound
  \/ Stop

Spec == Init /\ [][Next]_vars

-----------------------------------------------------------------------------
(* Properties.                                                             *)

Counts == [Directions -> Nat]

\* The shape of the state; no sum of differences falls below zero when an entry is replaced
\* between two samples.
TypeOK ==
  /\ map \in [Interfaces -> Elements \cup {None}]
  /\ value \in [Elements -> Counts]
  /\ behind \in [Interfaces -> SUBSET Interfaces]
  /\ spare \in [CPUs -> Elements]
  /\ cpu \in [CPUs -> Packet \cup {None}]
  /\ loaded \in BOOLEAN
  /\ key \in Interfaces \cup {0, None}
  /\ net_info \subseteq Interfaces /\ again \subseteq Interfaces /\ relinked \subseteq Nat
  /\ cache \in [Interfaces -> Counts \cup {None}]
  /\ arrived \in [Interfaces -> Counts] /\ reported \in Counts

\* The entry of interface i has been found by every CPU that counts for i, and by no other.
Settled(i) ==
  /\ map[i] # None
  /\ \A c \in CPUs : cpu[c] # None => (cpu[c].ifindex = i <=> cpu[c].stats = map[i])

\* The CPUs with a packet of interface i and direction d that is not counted yet.
Pending(i, d) == {c \in CPUs : cpu[c] # None /\ cpu[c].ifindex = i /\ cpu[c].dir = d}

\* The packets of interface i that are neither counted nor about to be.
Missed(i, d) == arrived[i][d] - value[map[i]][d] - Cardinality(Pending(i, d))

\* The comments at net_stats.bpf.c:54 and 79, as far as they are right: packets can be lost,
\* or counted for another interface, while CPUs race to create an entry, but once every CPU
\* has found it, every further packet is counted once, whatever happens to other entries.
ExactOnceSettled ==
  [][\A i \in Interfaces : Settled(i) =>
       Settled(i)' /\ \A d \in Directions : Missed(i, d)' = Missed(i, d)]_vars

\* Whatever entries are replaced between the rounds, and whatever is read meanwhile, the
\* differences reported never add up to more packets than came.
NeverOverstates ==
  \A d \in Directions : reported[d] <= TotalArrived(d)

\* UpdateOnce divides all its differences by the time since its last round: a round visits
\* every interface with a last sample, and none of them twice, so that no difference spans
\* two rounds or a part of one.  Where an entry is replaced in the midst of a round, the
\* entries of its bucket change places and may be skipped or visited again; none else may.
SharesOneInterval ==
  key = None => \A i \in Interfaces : Bucket[i] \notin relinked =>
    i \notin again /\ (cache[i] # None => i \in net_info)
=============================================================================
