--------------------------- MODULE NetStats_proofs ---------------------------
(***************************************************************************)
(* The traffic counters for any number of CPUs, interfaces, map entries    *)
(* and packets: what an interface counts once its entry is settled, what a *)
(* round lists, and that what is reported never exceeds what came.  The    *)
(* last of these is about sums, defined by recursion over a set: what is   *)
(* needed of them is shown with a smallest subset for which it is false.   *)
(*                                                                         *)
(* The last section is about the other counters the worker reads while     *)
(* the kernel writes them, those of CpuSampling, for any number of CPUs    *)
(* and loads of the module and however often a page is rewritten.          *)
(***************************************************************************)
EXTENDS NetStats, CpuSampling, NaturalsInduction, WellFoundedInduction, FiniteSetTheorems,
        TLAPS

\* The part of TypeOK that belongs to the kernel.
KernelTypeOK ==
  /\ map \in [Interfaces -> Elements \cup {None}]
  /\ value \in [Elements -> Counts]
  /\ behind \in [Interfaces -> SUBSET Interfaces]
  /\ spare \in [CPUs -> Elements]
  /\ cpu \in [CPUs -> Packet \cup {None}]
  /\ arrived \in [Interfaces -> Counts]

\* No element is the entry of two interfaces, the spare of two CPUs, or both an entry and a
\* spare; the preallocated ones are taken in their order.
Distinct ==
  /\ \A i, j \in Interfaces : map[i] # None /\ map[i] = map[j] => i = j
  /\ \A c, g \in CPUs : spare[c] = spare[g] => c = g
  /\ \A i \in Interfaces, c \in CPUs : map[i] # spare[c]
  /\ \A i \in Interfaces : map[i] \in Nat => map[i] <= Cardinality(Entries)
  /\ \A c \in CPUs : spare[c] \in Nat => spare[c] <= Cardinality(Entries)

IInv == KernelTypeOK /\ Distinct

-----------------------------------------------------------------------------
\* The entries of the map are finite in number, and one more interface is one more entry.
LEMMA EntriesCount ==
  ASSUME KernelTypeOK, NEW i \in Interfaces, NEW e \in Elements,
         map' = [map EXCEPT ![i] = e]
  PROVE  /\ map[i] = None => Cardinality(Entries') = Cardinality(Entries) + 1
         /\ map[i] # None => Entries' = Entries
<1>1. IsFiniteSet(Entries)
  <2>1. Entries \in SUBSET Interfaces
    BY DEF Entries
  <2>. QED  BY <2>1, FS_Subset, NetStatsAssumption
<1>2. None \notin Elements
  BY NetStatsAssumption DEF Elements
<1>3. ASSUME map[i] = None
      PROVE  Cardinality(Entries') = Cardinality(Entries) + 1
  <2>1. Entries' = Entries \cup {i} /\ i \notin Entries
    BY <1>2, <1>3 DEF Entries, KernelTypeOK
  <2>. QED  BY <1>1, <2>1, FS_AddElement
<1>4. ASSUME map[i] # None
      PROVE  Entries' = Entries
  BY <1>2, <1>4 DEF Entries, KernelTypeOK
<1>. QED  BY <1>3, <1>4

LEMMA EntriesType == Cardinality(Entries) \in Nat
<1>1. Entries \in SUBSET Interfaces
  BY DEF Entries
<1>. QED  BY <1>1, FS_Subset, FS_CardinalityType, NetStatsAssumption

\* One CPU's packet adds it to the pending ones of its interface and direction, and removes
\* it when it is counted.
LEMMA PendingChange ==
  ASSUME KernelTypeOK, NEW c \in CPUs, NEW i \in Interfaces, NEW d \in Directions,
         NEW p \in Packet \cup {None}, cpu' = [cpu EXCEPT ![c] = p]
  PROVE  /\ Cardinality(Pending(i, d)) \in Nat /\ Cardinality(Pending(i, d)') \in Nat
         /\ cpu[c] = None /\ p # None /\ p.ifindex = i /\ p.dir = d =>
              Cardinality(Pending(i, d)') = Cardinality(Pending(i, d)) + 1
         /\ cpu[c] # None /\ cpu[c].ifindex = i /\ cpu[c].dir = d /\ p = None =>
              Cardinality(Pending(i, d)') = Cardinality(Pending(i, d)) - 1
         /\ /\ cpu[c] = None \/ cpu[c].ifindex # i \/ cpu[c].dir # d
            /\ p = None \/ p.ifindex # i \/ p.dir # d
            => Pending(i, d)' = Pending(i, d)
<1>1. IsFiniteSet(Pending(i, d)) /\ IsFiniteSet(Pending(i, d)')
  <2>1. Pending(i, d) \in SUBSET CPUs /\ Pending(i, d)' \in SUBSET CPUs
    BY DEF Pending
  <2>. QED  BY <2>1, FS_Subset, NetStatsAssumption
<1>2. Cardinality(Pending(i, d)) \in Nat /\ Cardinality(Pending(i, d)') \in Nat
  BY <1>1, FS_CardinalityType
<1>3. ASSUME cpu[c] = None, p # None, p.ifindex = i, p.dir = d
      PROVE  Cardinality(Pending(i, d)') = Cardinality(Pending(i, d)) + 1
  <2>1. Pending(i, d)' = Pending(i, d) \cup {c} /\ c \notin Pending(i, d)
    BY <1>3 DEF Pending, KernelTypeOK
  <2>. QED  BY <1>1, <2>1, FS_AddElement
<1>4. ASSUME cpu[c] # None, cpu[c].ifindex = i, cpu[c].dir = d, p = None
      PROVE  Cardinality(Pending(i, d)') = Cardinality(Pending(i, d)) - 1
  <2>1. Pending(i, d)' = Pending(i, d) \ {c} /\ c \in Pending(i, d)
    BY <1>4 DEF Pending, KernelTypeOK
  <2>. QED  BY <1>1, <2>1, FS_RemoveElement
<1>5. ASSUME cpu[c] = None \/ cpu[c].ifindex # i \/ cpu[c].dir # d,
             p = None \/ p.ifindex # i \/ p.dir # d
      PROVE  Pending(i, d)' = Pending(i, d)
  BY <1>5 DEF Pending, KernelTypeOK
<1>. QED  BY <1>2, <1>3, <1>4, <1>5

-----------------------------------------------------------------------------
LEMMA InitInv == Init => IInv
<1>. SUFFICES ASSUME Init PROVE IInv
  OBVIOUS
<1>. USE NetStatsAssumption
<1>1. None \notin Elements /\ \A c \in CPUs : c \in Elements /\ c \notin Nat
  BY DEF Elements
<1>2. KernelTypeOK
  BY <1>1 DEF Init, KernelTypeOK, NoCount, Counts
<1>3. Distinct
  BY <1>1 DEF Init, Distinct
<1>. QED  BY <1>2, <1>3 DEF IInv

LEMMA LookUpStep ==
  ASSUME IInv, NEW c \in CPUs, NEW i \in Interfaces, NEW d \in Directions, LookUp(c, i, d)
  PROVE  IInv'
<1>1. KernelTypeOK'
  <2>1. cpu' \in [CPUs -> Packet \cup {None}]
    BY DEF IInv, KernelTypeOK, LookUp, Packet
  <2>2. arrived' \in [Interfaces -> Counts]
    BY DEF IInv, KernelTypeOK, LookUp, Counts
  <2>. QED  BY <2>1, <2>2 DEF IInv, KernelTypeOK, LookUp
<1>2. Distinct'
  BY DEF IInv, Distinct, LookUp, Entries
<1>. QED  BY <1>1, <1>2 DEF IInv

LEMMA AddStep ==
  ASSUME IInv, NEW c \in CPUs, Add(c)
  PROVE  IInv'
<1>1. KernelTypeOK'
  <2>1. cpu[c].stats \in Elements /\ cpu[c].dir \in Directions
    BY DEF IInv, KernelTypeOK, Add, Packet
  <2>2. value' \in [Elements -> Counts]
    BY <2>1 DEF IInv, KernelTypeOK, Add, Counts
  <2>3. cpu' \in [CPUs -> Packet \cup {None}]
    BY DEF IInv, KernelTypeOK, Add
  <2>. QED  BY <2>2, <2>3 DEF IInv, KernelTypeOK, Add
<1>2. Distinct'
  BY DEF IInv, Distinct, Add, Entries
<1>. QED  BY <1>1, <1>2 DEF IInv

\* Linking element e leaves the kernel's state well typed.
LEMMA LinkType ==
  ASSUME KernelTypeOK, NEW c \in CPUs, NEW e \in Elements, cpu[c] # None, Link(c, e)
  PROVE  /\ cpu[c].ifindex \in Interfaces /\ cpu[c].dir \in Directions
         /\ map' = [map EXCEPT ![cpu[c].ifindex] = e]
         /\ map' \in [Interfaces -> Elements \cup {None}]
         /\ value' \in [Elements -> Counts]
         /\ behind' \in [Interfaces -> SUBSET Interfaces]
<1>1. cpu[c].ifindex \in Interfaces /\ cpu[c].dir \in Directions
  BY DEF KernelTypeOK, Packet
<1>2. [NoCount EXCEPT ![cpu[c].dir] = 1] \in Counts
  BY <1>1 DEF NoCount, Counts
<1>3. behind' \in [Interfaces -> SUBSET Interfaces]
  BY DEF KernelTypeOK, Link, Entries
<1>. QED  BY <1>1, <1>2, <1>3 DEF KernelTypeOK, Link

LEMMA CreateStep ==
  ASSUME IInv, NEW c \in CPUs, Create(c)
  PROVE  IInv'
<1>. DEFINE i == cpu[c].ifindex
<1>. USE NetStatsAssumption
<1>0. KernelTypeOK /\ Distinct /\ i \in Interfaces
      /\ cpu' \in [CPUs -> Packet \cup {None}] /\ UNCHANGED arrived
  BY DEF IInv, Create, KernelTypeOK, Packet
<1>1. CASE map[i] # None /\ Link(c, spare[c]) /\ spare' = [spare EXCEPT ![c] = map[i]]
  <2>0. spare[c] \in Elements /\ map[i] \in Elements /\ cpu[c] # None
    BY <1>0, <1>1 DEF KernelTypeOK, Create
  <2>1. KernelTypeOK'
    BY <1>0, <1>1, <2>0, LinkType DEF KernelTypeOK
  <2>2. map' = [map EXCEPT ![i] = spare[c]] /\ Entries' = Entries
    BY <1>0, <1>1, <2>0, LinkType, EntriesCount
  <2>3. Distinct'
    <3>. HIDE DEF i
    <3>. USE DEF KernelTypeOK
    <3>1. \A j \in Interfaces : map'[j] = IF j = i THEN spare[c] ELSE map[j]
      BY <1>0, <2>2
    <3>2. \A g \in CPUs : spare'[g] = IF g = c THEN map[i] ELSE spare[g]
      BY <1>0, <1>1
    <3>3. \A j, k \in Interfaces : map'[j] # None /\ map'[j] = map'[k] => j = k
      BY <1>0, <3>1 DEF Distinct
    <3>4. \A g, h \in CPUs : spare'[g] = spare'[h] => g = h
      BY <1>0, <3>2 DEF Distinct
    <3>5. \A j \in Interfaces, g \in CPUs : map'[j] # spare'[g]
      BY <1>0, <1>1, <3>1, <3>2 DEF Distinct
    <3>6. \A j \in Interfaces : map'[j] \in Nat => map'[j] <= Cardinality(Entries')
      BY <1>0, <2>2, <3>1 DEF Distinct
    <3>7. \A g \in CPUs : spare'[g] \in Nat => spare'[g] <= Cardinality(Entries')
      BY <1>0, <2>2, <3>2 DEF Distinct
    <3>. QED  BY <3>3, <3>4, <3>5, <3>6, <3>7 DEF Distinct
  <2>. QED  BY <2>1, <2>3 DEF IInv
<1>2. CASE /\ map[i] = None /\ Cardinality(Entries) < MaxEntries
           /\ Link(c, Cardinality(Entries) + 1) /\ UNCHANGED spare
  <2>. DEFINE e == Cardinality(Entries) + 1
  <2>0. e \in Elements /\ e \in Nat /\ e > Cardinality(Entries) /\ cpu[c] # None
        /\ Cardinality(Entries) \in Nat
    BY <1>0, <1>2, EntriesType DEF Elements, Create
  <2>1. KernelTypeOK'
    BY <1>0, <1>2, <2>0, LinkType DEF KernelTypeOK
  <2>2. map' = [map EXCEPT ![i] = e] /\ Cardinality(Entries') = e
    BY <1>0, <1>2, <2>0, LinkType, EntriesCount
  <2>3. Distinct'
    <3>. HIDE DEF i, e
    <3>. USE DEF KernelTypeOK
    <3>1. \A j \in Interfaces : map'[j] = IF j = i THEN e ELSE map[j]
      BY <1>0, <2>2
    <3>2. \A j \in Interfaces : map[j] # e
      BY <1>0, <2>0 DEF Distinct
    <3>3. \A g \in CPUs : spare'[g] = spare[g] /\ spare[g] # e
      BY <1>0, <1>2, <2>0 DEF Distinct
    <3>4. \A j, k \in Interfaces : map'[j] # None /\ map'[j] = map'[k] => j = k
      BY <1>0, <3>1, <3>2 DEF Distinct
    <3>5. \A g, h \in CPUs : spare'[g] = spare'[h] => g = h
      BY <1>0, <3>3 DEF Distinct
    <3>6. \A j \in Interfaces, g \in CPUs : map'[j] # spare'[g]
      BY <1>0, <3>1, <3>3 DEF Distinct
    <3>7. \A j \in Interfaces : map'[j] \in Nat => map'[j] <= Cardinality(Entries')
      BY <1>0, <2>0, <2>2, <3>1 DEF Distinct
    <3>8. \A g \in CPUs : spare'[g] \in Nat => spare'[g] <= Cardinality(Entries')
      BY <1>0, <2>0, <2>2, <3>3 DEF Distinct
    <3>. QED  BY <3>4, <3>5, <3>6, <3>7, <3>8 DEF Distinct
  <2>. QED  BY <2>1, <2>3 DEF IInv
<1>3. CASE UNCHANGED <<map, value, behind, spare>>
  BY <1>0, <1>3 DEF IInv, KernelTypeOK, Distinct, Entries
<1>. QED  BY <1>1, <1>2, <1>3 DEF Create

LEMMA MonitorStep ==
  ASSUME IInv, BeginRound \/ (\E i \in Interfaces : Visit(i)) \/ EndRound \/ Stop \/ UNCHANGED vars
  PROVE  IInv' /\ UNCHANGED kernel
<1>1. UNCHANGED kernel
  BY DEF BeginRound, Visit, EndRound, Stop, vars
<1>. QED  BY <1>1 DEF IInv, KernelTypeOK, Distinct, Entries, kernel

LEMMA Invariant == Spec => []IInv
<1>1. IInv /\ [Next]_vars => IInv'
  <2>. SUFFICES ASSUME IInv, [Next]_vars PROVE IInv'
    OBVIOUS
  <2>. QED  BY LookUpStep, AddStep, CreateStep, MonitorStep DEF Next
<1>. QED  BY InitInv, <1>1, PTL DEF Spec

-----------------------------------------------------------------------------
\* From here on the entry of interface i is settled.
LEMMA SettledLookUp ==
  ASSUME IInv, NEW i \in Interfaces, Settled(i),
         NEW c \in CPUs, NEW k \in Interfaces, NEW r \in Directions, LookUp(c, k, r)
  PROVE  Settled(i)' /\ \A d \in Directions : Missed(i, d)' = Missed(i, d)
<1>. DEFINE p == [ifindex |-> k, dir |-> r, stats |-> map[k]]
<1>1. KernelTypeOK /\ Distinct /\ p \in Packet /\ p # None
      /\ cpu[c] = None /\ cpu' = [cpu EXCEPT ![c] = p] /\ UNCHANGED <<map, value>>
  BY NetStatsAssumption DEF IInv, KernelTypeOK, LookUp, Packet
<1>2. p.ifindex = i <=> p.stats = map[i]
  BY <1>1 DEF Settled, Distinct
<1>3. Settled(i)'
  BY <1>1, <1>2 DEF Settled, KernelTypeOK
<1>4. ASSUME NEW d \in Directions PROVE Missed(i, d)' = Missed(i, d)
  <2>. HIDE DEF p
  <2>0. map[i] \in Elements /\ arrived[i][d] \in Nat /\ value[map[i]][d] \in Nat
    BY <1>1 DEF Settled, KernelTypeOK, Counts
  <2>1. CASE k = i /\ r = d
    <3>1. arrived'[i][d] = arrived[i][d] + 1
      BY <1>1, <2>1 DEF LookUp, KernelTypeOK, Counts
    <3>2. p.ifindex = i /\ p.dir = d
      BY <2>1 DEF p
    <3>3. /\ Cardinality(Pending(i, d)) \in Nat
          /\ Cardinality(Pending(i, d)') = Cardinality(Pending(i, d)) + 1
      BY <1>1, <3>2, PendingChange
    <3>. QED  BY <1>1, <2>0, <3>1, <3>3 DEF Missed
  <2>2. CASE ~(k = i /\ r = d)
    <3>1. arrived'[i][d] = arrived[i][d]
      BY <1>1, <2>2 DEF LookUp, KernelTypeOK, Counts
    <3>2. p.ifindex # i \/ p.dir # d
      BY <2>2 DEF p
    <3>3. Pending(i, d)' = Pending(i, d)
      BY <1>1, <3>2, PendingChange
    <3>. QED  BY <1>1, <3>1, <3>3 DEF Missed
  <2>. QED  BY <2>1, <2>2
<1>. QED  BY <1>3, <1>4

\* A CPU that adds to the entry counts a packet of interface i; any other adds elsewhere.
LEMMA SettledAdd ==
  ASSUME IInv, NEW i \in Interfaces, Settled(i), NEW c \in CPUs, Add(c)
  PROVE  Settled(i)' /\ \A d \in Directions : Missed(i, d)' = Missed(i, d)
<1>1. KernelTypeOK /\ cpu[c] \in Packet /\ cpu[c] # None
      /\ cpu' = [cpu EXCEPT ![c] = None] /\ UNCHANGED <<map, arrived>>
      /\ (cpu[c].ifindex = i <=> cpu[c].stats = map[i])
  BY DEF IInv, KernelTypeOK, Add, Settled
<1>2. cpu[c].stats \in Elements /\ cpu[c].dir \in Directions /\ map[i] \in Elements
  BY <1>1 DEF Add, Packet, Settled, KernelTypeOK
<1>3. Settled(i)'
  BY <1>1 DEF Settled, KernelTypeOK
<1>4. ASSUME NEW d \in Directions PROVE Missed(i, d)' = Missed(i, d)
  <2>0. arrived[i][d] \in Nat /\ value[map[i]][d] \in Nat
    BY <1>1, <1>2 DEF KernelTypeOK, Counts
  <2>1. CASE cpu[c].ifindex = i /\ cpu[c].dir = d
    <3>1. value'[map[i]][d] = value[map[i]][d] + 1
      BY <1>1, <1>2, <2>1 DEF Add, KernelTypeOK, Counts
    <3>2. /\ Cardinality(Pending(i, d)) \in Nat
          /\ Cardinality(Pending(i, d)') = Cardinality(Pending(i, d)) - 1
      BY <1>1, <2>1, PendingChange
    <3>. QED  BY <1>1, <2>0, <3>1, <3>2 DEF Missed
  <2>2. CASE ~(cpu[c].ifindex = i /\ cpu[c].dir = d)
    <3>1. value'[map[i]][d] = value[map[i]][d]
      BY <1>1, <1>2, <2>2 DEF Add, KernelTypeOK, Counts
    <3>2. Pending(i, d)' = Pending(i, d)
      BY <1>1, <2>2, PendingChange
    <3>. QED  BY <1>1, <3>1, <3>2 DEF Missed
  <2>. QED  BY <2>1, <2>2
<1>. QED  BY <1>3, <1>4

\* Whoever still creates an entry creates another interface's, in another element.
LEMMA SettledCreate ==
  ASSUME IInv, NEW i \in Interfaces, Settled(i), NEW c \in CPUs, Create(c)
  PROVE  Settled(i)' /\ \A d \in Directions : Missed(i, d)' = Missed(i, d)
<1>. DEFINE k == cpu[c].ifindex
<1>1. KernelTypeOK /\ Distinct /\ cpu[c] \in Packet /\ cpu[c] # None
      /\ cpu' = [cpu EXCEPT ![c] = None] /\ UNCHANGED arrived
      /\ map[i] \in Elements /\ k \in Interfaces /\ k # i
  BY DEF IInv, KernelTypeOK, Create, Settled, Packet
<1>2. map'[i] = map[i] /\ value'[map[i]] = value[map[i]]
  <2>1. ASSUME NEW e \in Elements, Link(c, e), e # map[i]
        PROVE  map'[i] = map[i] /\ value'[map[i]] = value[map[i]]
    BY <1>1, <2>1 DEF Link, KernelTypeOK
  <2>2. CASE Link(c, spare[c])
    <3>1. spare[c] \in Elements /\ spare[c] # map[i]
      BY <1>1 DEF KernelTypeOK, Distinct
    <3>. QED  BY <2>1, <2>2, <3>1
  <2>3. CASE Link(c, Cardinality(Entries) + 1) /\ Cardinality(Entries) < MaxEntries
    <3>1. Cardinality(Entries) + 1 \in Elements /\ Cardinality(Entries) + 1 # map[i]
      BY <1>1, <2>3, EntriesType, NetStatsAssumption DEF Distinct, Elements
    <3>. QED  BY <2>1, <2>3, <3>1
  <2>4. CASE UNCHANGED <<map, value>>
    BY <2>4
  <2>. QED  BY <2>2, <2>3, <2>4 DEF Create
<1>3. Settled(i)'
  BY <1>1, <1>2 DEF Settled, KernelTypeOK
<1>4. ASSUME NEW d \in Directions PROVE Missed(i, d)' = Missed(i, d)
  <2>1. Pending(i, d)' = Pending(i, d)
    BY <1>1, PendingChange
  <2>. QED  BY <1>1, <1>2, <2>1 DEF Missed
<1>. QED  BY <1>3, <1>4

\* update_stats counts every packet once, as soon as every CPU has found the entry: no race
\* about another interface reaches it.
THEOREM CountsExactly == Spec => ExactOnceSettled
<1>1. ASSUME IInv, [Next]_vars, NEW i \in Interfaces, Settled(i)
      PROVE  Settled(i)' /\ \A d \in Directions : Missed(i, d)' = Missed(i, d)
  <2>1. CASE UNCHANGED kernel
    BY <1>1, <2>1 DEF Settled, Missed, Pending, kernel
  <2>. QED  BY <1>1, <2>1, MonitorStep, SettledLookUp, SettledAdd, SettledCreate DEF Next
<1>2. IInv /\ [Next]_vars =>
        [\A i \in Interfaces : Settled(i) =>
           Settled(i)' /\ \A d \in Directions : Missed(i, d)' = Missed(i, d)]_vars
  BY <1>1
<1>. QED  BY <1>2, Invariant, PTL DEF Spec, ExactOnceSettled

-----------------------------------------------------------------------------
\* The state keeps its types; what is reported never falls, though counters may.
THEOREM TypeCorrect == Spec => []TypeOK
<1>1. Init => TypeOK
  <2>. SUFFICES ASSUME Init PROVE TypeOK
    OBVIOUS
  <2>1. KernelTypeOK
    BY InitInv DEF IInv
  <2>. QED  BY <2>1 DEF Init, TypeOK, KernelTypeOK, NoCount, Counts
<1>2. IInv' /\ TypeOK /\ [Next]_vars => TypeOK'
  <2>. SUFFICES ASSUME KernelTypeOK', TypeOK, [Next]_vars PROVE TypeOK'
    BY DEF IInv
  <2>0. relinked' \subseteq Nat
    <3>1. ASSUME NEW c \in CPUs, Create(c) PROVE relinked' \subseteq Nat
      <4>1. cpu[c].ifindex \in Interfaces
        BY <3>1 DEF Create, TypeOK, Packet
      <4>2. Bucket[cpu[c].ifindex] \in Nat
        BY <4>1, NetStatsAssumption
      <4>. QED  BY <3>1, <4>2 DEF Create, TypeOK
    <3>2. relinked' \in {relinked, {}} => relinked' \subseteq Nat
      BY DEF TypeOK
    <3>. QED
      BY <3>1, <3>2 DEF Next, LookUp, Add, BeginRound, Visit, EndRound, Stop, vars
  <2>1. CASE UNCHANGED monitor
    BY <2>0, <2>1 DEF TypeOK, KernelTypeOK, monitor
  <2>2. CASE BeginRound \/ EndRound \/ Stop
    BY <2>0, <2>2 DEF TypeOK, KernelTypeOK, BeginRound, EndRound, Stop
  <2>3. ASSUME NEW i \in Interfaces, Visit(i) PROVE TypeOK'
    <3>. DEFINE now == value[map[i]]
    <3>2. i \in Interfaces /\ map[i] \in Elements
      BY <2>3 DEF Visit, NextKey, Ahead, Entries, TypeOK
    <3>3. now \in Counts
      BY <3>2 DEF TypeOK
    <3>4. /\ key' = i /\ net_info' = net_info \cup {i} /\ cache' = [cache EXCEPT ![i] = now]
          /\ again' \subseteq again \cup {i}
          /\ reported' = [d \in Directions |-> reported[d] + Difference(cache[i], now, d)]
          /\ UNCHANGED loaded
      BY <2>3 DEF Visit
    <3>. HIDE DEF now
    <3>5. ASSUME NEW d \in Directions PROVE Difference(cache[i], now, d) \in Nat
      BY <3>2, <3>3 DEF Difference, TypeOK, Counts
    <3>6. reported' \in Counts
      BY <3>4, <3>5 DEF TypeOK, Counts
    <3>. QED  BY <2>0, <3>2, <3>3, <3>4, <3>6 DEF TypeOK, KernelTypeOK
  <2>. QED  BY <2>1, <2>2, <2>3 DEF Next, LookUp, Add, Create, vars
<1>. QED  BY <1>1, <1>2, Invariant, PTL DEF Spec

-----------------------------------------------------------------------------
(* The rounds.                                                             *)

\* The chains: each bucket's entries are in one order.
ChainInv ==
  /\ \A i, j \in Interfaces : j \in behind[i] => /\ i \in Entries /\ j \in Entries
                                                /\ Bucket[i] = Bucket[j]
  /\ \A i, j \in Interfaces : j \in behind[i] => i \notin behind[j]
  /\ \A i, j \in Entries : i # j /\ Bucket[i] = Bucket[j] => j \in behind[i] \/ i \in behind[j]
  /\ \A i, j, k \in Interfaces : j \in behind[i] /\ k \in behind[j] => k \in behind[i]

\* The round has listed interface i once if its key has passed it, and not yet otherwise.
Passed(i) ==
  /\ i \notin again
  /\ i \in Ahead => i \notin net_info
  /\ cache[i] # None /\ i \notin Ahead => i \in net_info

\* What was sampled has an entry, and a round has listed all it has passed of that, but for
\* the buckets whose entries changed places.
RoundInv ==
  /\ \A i \in Interfaces : cache[i] # None => i \in Entries
  /\ net_info \subseteq Entries
  /\ key \in Interfaces => key \in Entries
  /\ key # None => \A i \in Interfaces : Bucket[i] \notin relinked => Passed(i)
  /\ SharesOneInterval

\* Entries are replaced, never removed.
LEMMA EntriesStay ==
  ASSUME KernelTypeOK, [Next]_vars, NEW i \in Interfaces, map[i] # None
  PROVE  map'[i] # None
<1>1. ASSUME NEW c \in CPUs, Create(c) PROVE map'[i] # None
  <2>1. None \notin Elements /\ spare[c] \in Elements
    BY NetStatsAssumption DEF Elements, KernelTypeOK
  <2>2. Cardinality(Entries) < MaxEntries => Cardinality(Entries) + 1 # None
    BY EntriesType, NetStatsAssumption
  <2>. QED  BY <1>1, <2>1, <2>2 DEF Create, Link, KernelTypeOK
<1>2. UNCHANGED map => map'[i] # None
  OBVIOUS
<1>. QED
  BY <1>1, <1>2 DEF Next, LookUp, Add, BeginRound, Visit, EndRound, Stop, kernel, vars

\* What linking an element does to the chains.
LEMMA LinkChain ==
  ASSUME KernelTypeOK, NEW c \in CPUs, NEW e \in Elements, cpu[c] # None, Link(c, e),
         NEW i \in Interfaces, i = cpu[c].ifindex
  PROVE  /\ Entries' = Entries \cup {i}
         /\ \A j, k \in Interfaces :
              k \in behind'[j] <=> IF j = i THEN k \in Entries /\ k # i /\ Bucket[k] = Bucket[i]
                                 ELSE k \in behind[j] /\ k # i
<1>1. None \notin Elements
  BY NetStatsAssumption DEF Elements
<1>2. map' = [map EXCEPT ![i] = e]
  BY DEF Link
<1>3. \A j \in Interfaces : map'[j] = IF j = i THEN e ELSE map[j]
  BY <1>2 DEF KernelTypeOK
<1>4. Entries' = Entries \cup {i}
  BY <1>1, <1>3 DEF Entries
<1>5. behind' = [j \in Interfaces |-> IF j = i THEN {k \in Entries \ {i} : Bucket[k] = Bucket[i]}
                                      ELSE behind[j] \ {i}]
  BY DEF Link
<1>. QED  BY <1>4, <1>5

\* A chain with a new head is a chain.
LEMMA ChainLink ==
  ASSUME KernelTypeOK, ChainInv, NEW c \in CPUs, NEW e \in Elements, cpu[c] # None, Link(c, e)
  PROVE  ChainInv'
<1>1. PICK i \in Interfaces : i = cpu[c].ifindex
  BY DEF KernelTypeOK, Packet
<1>. DEFINE Follows(j, k) == IF j = i THEN k \in Entries /\ k # i /\ Bucket[k] = Bucket[i]
                             ELSE k \in behind[j] /\ k # i
<1>2. /\ Entries' = Entries \cup {i} /\ Entries \subseteq Interfaces
      /\ \A j, k \in Interfaces : k \in behind'[j] <=> Follows(j, k)
  BY <1>1, LinkChain DEF Entries
<1>3. \A j, k \in Interfaces : Follows(j, k) =>
        j \in Entries \cup {i} /\ k \in Entries \cup {i} /\ Bucket[j] = Bucket[k]
  BY DEF ChainInv
<1>4. \A j, k \in Interfaces : Follows(j, k) => ~Follows(k, j)
  BY DEF ChainInv
<1>5. \A j, k \in Entries \cup {i} : j # k /\ Bucket[j] = Bucket[k] => Follows(j, k) \/ Follows(k, j)
  BY <1>2 DEF ChainInv
<1>6. \A j, k, l \in Interfaces : Follows(j, k) /\ Follows(k, l) => Follows(j, l)
  BY DEF ChainInv
<1>. HIDE DEF Follows
<1>. QED  BY <1>2, <1>3, <1>4, <1>5, <1>6 DEF ChainInv

\* Every step of the kernel that touches the map links an element.
LEMMA CreateCases ==
  ASSUME IInv, NEW c \in CPUs, Create(c)
  PROVE  /\ cpu[c] # None /\ cpu[c].ifindex \in Interfaces /\ UNCHANGED monitor
         /\ \/ \E e \in Elements :
                 /\ Link(c, e)
                 /\ \/ UNCHANGED relinked /\ map[cpu[c].ifindex] = None
                    \/ /\ UNCHANGED relinked /\ (key = None \/ behind' = behind)
                       /\ map[cpu[c].ifindex] # None
                    \/ relinked' = relinked \cup {Bucket[cpu[c].ifindex]} /\ key # None
            \/ UNCHANGED <<map, behind, relinked>>
<1>1. /\ spare[c] \in Elements
      /\ Cardinality(Entries) < MaxEntries => Cardinality(Entries) + 1 \in Elements
  BY EntriesType, NetStatsAssumption DEF Elements, IInv, KernelTypeOK
<1>2. cpu[c] # None /\ cpu[c].ifindex \in Interfaces /\ UNCHANGED monitor
  BY DEF Create, IInv, KernelTypeOK, Packet
<1>3. CASE /\ map[cpu[c].ifindex] # None /\ Link(c, spare[c])
           /\ relinked' = IF key = None \/ behind' = behind THEN relinked
                          ELSE relinked \cup {Bucket[cpu[c].ifindex]}
  BY <1>1, <1>2, <1>3
<1>4. CASE /\ map[cpu[c].ifindex] = None /\ Cardinality(Entries) < MaxEntries
           /\ Link(c, Cardinality(Entries) + 1) /\ UNCHANGED relinked
  BY <1>1, <1>2, <1>4
<1>5. CASE UNCHANGED <<map, behind, relinked>>
  BY <1>2, <1>5
<1>. QED  BY <1>3, <1>4, <1>5 DEF Create

LEMMA ChainStep ==
  ASSUME IInv, ChainInv, [Next]_vars
  PROVE  ChainInv'
<1>1. ASSUME NEW c \in CPUs, Create(c) PROVE ChainInv'
  <2>1. CASE \E e \in Elements : Link(c, e)
    BY <1>1, <2>1, CreateCases, ChainLink DEF IInv
  <2>2. CASE UNCHANGED <<map, behind>>
    BY <2>2 DEF ChainInv, Entries
  <2>. QED  BY <1>1, <2>1, <2>2, CreateCases
<1>2. CASE UNCHANGED <<map, behind>>
  BY <1>2 DEF ChainInv, Entries
<1>. QED
  BY <1>1, <1>2 DEF Next, LookUp, Add, BeginRound, Visit, EndRound, Stop, kernel, vars

LEMMA Chains == Spec => []ChainInv
<1>1. Init => ChainInv
  <2>. SUFFICES ASSUME Init PROVE ChainInv
    OBVIOUS
  <2>1. Entries = {} /\ \A i \in Interfaces : behind[i] = {}
    BY DEF Init, Entries
  <2>. QED  BY <2>1 DEF ChainInv
<1>2. IInv /\ ChainInv /\ [Next]_vars => ChainInv'
  BY ChainStep
<1>. QED  BY <1>1, <1>2, Invariant, PTL DEF Spec

\* The order of the keys is one.
LEMMA KeysOrdered ==
  ASSUME ChainInv, NEW i \in Interfaces, NEW j \in Interfaces, NEW k \in Interfaces
  PROVE  /\ ~Precedes(i, i)
         /\ Precedes(i, j) /\ Precedes(j, k) => Precedes(i, k)
<1>1. Bucket[i] \in Nat /\ Bucket[j] \in Nat /\ Bucket[k] \in Nat
  BY NetStatsAssumption
<1>2. /\ j \in behind[i] => Bucket[i] = Bucket[j]
      /\ k \in behind[j] => Bucket[j] = Bucket[k]
      /\ i \notin behind[i]
      /\ j \in behind[i] /\ k \in behind[j] => k \in behind[i]
  BY DEF ChainInv
<1>. QED  BY <1>1, <1>2 DEF Precedes

\* An update moves the interface of its own packet, and otherwise only moves what lies ahead
\* of the round's key within the bucket it has recorded.
LEMMA CreateRound ==
  ASSUME IInv, TypeOK, ChainInv, RoundInv, NEW c \in CPUs, Create(c)
  PROVE  RoundInv'
<1>. USE NetStatsAssumption
<1>1. /\ UNCHANGED <<key, net_info, again, cache>> /\ cpu[c] # None
      /\ KernelTypeOK /\ ChainInv
  BY CreateCases DEF monitor, IInv
<1>2. PICK i \in Interfaces : i = cpu[c].ifindex
  BY CreateCases
<1>3. CASE UNCHANGED <<map, behind, relinked>>
  BY <1>1, <1>3 DEF RoundInv, SharesOneInterval, Passed, Ahead, Precedes, Entries
<1>4. ASSUME NEW e \in Elements, Link(c, e),
             \/ relinked' = relinked /\ i \notin Entries
             \/ relinked' = relinked /\ (key = None \/ behind' = behind) /\ i \in Entries
             \/ relinked' = relinked \cup {Bucket[i]} /\ key # None
      PROVE  RoundInv'
  <2>1. /\ Entries' = Entries \cup {i} /\ Entries \subseteq Interfaces
        /\ \A j, k \in Interfaces :
             k \in behind'[j] <=> IF j = i THEN k \in Entries /\ k # i /\ Bucket[k] = Bucket[i]
                                ELSE k \in behind[j] /\ k # i
    <3>1. Entries \subseteq Interfaces
      BY DEF Entries
    <3>. QED  BY <1>1, <1>2, <1>4, <3>1, LinkChain
  <2>2. CASE key = None
    BY <1>1, <1>4, <2>1, <2>2 DEF RoundInv, SharesOneInterval
  <2>3. CASE key # None
    <3>1. key \in Entries \cup {0}
      BY <2>3 DEF TypeOK, RoundInv
    <3>2. ASSUME NEW j \in Interfaces, Bucket[j] \notin relinked' PROVE Passed(j)'
      <4>1. Passed(j)
        BY <1>4, <2>3, <3>2 DEF RoundInv
      <4>2. CASE j = i /\ i \notin Entries
        <5>1. j \notin net_info /\ cache[j] = None
          BY <4>2 DEF RoundInv
        <5>. QED  BY <1>1, <4>1, <5>1 DEF Passed
      <4>3. CASE ~(j = i /\ i \notin Entries)
        <5>1. j \in Entries' <=> j \in Entries
          BY <2>1, <4>3
        <5>2. ASSUME key # 0 PROVE j \in behind'[key] <=> j \in behind[key]
          <6>1. key \in Entries /\ key \in Interfaces
            BY <2>1, <3>1, <5>2
          <6>2. CASE i \notin Entries
            BY <2>1, <4>3, <6>1, <6>2 DEF ChainInv
          <6>3. CASE behind' = behind
            BY <6>3
          <6>4. CASE i \in Entries /\ Bucket[j] # Bucket[i]
            BY <2>1, <6>1, <6>4 DEF ChainInv
          <6>5. i \in Entries /\ behind' # behind => Bucket[j] # Bucket[i]
            BY <1>4, <2>3, <3>2
          <6>. QED  BY <6>2, <6>3, <6>4, <6>5
        <5>3. j \in Ahead' <=> j \in Ahead
          BY <1>1, <5>1, <5>2 DEF Ahead, Precedes
        <5>. QED  BY <1>1, <4>1, <5>3 DEF Passed
      <4>. QED  BY <4>2, <4>3
    <3>. QED  BY <1>1, <2>1, <2>3, <3>2 DEF RoundInv, SharesOneInterval
  <2>. QED  BY <2>2, <2>3
<1>5. \/ \E e \in Elements :
           /\ Link(c, e)
           /\ \/ UNCHANGED relinked /\ map[i] = None
              \/ UNCHANGED relinked /\ (key = None \/ behind' = behind) /\ map[i] # None
              \/ relinked' = relinked \cup {Bucket[i]} /\ key # None
      \/ UNCHANGED <<map, behind, relinked>>
  BY <1>2, CreateCases
<1>6. i \in Entries <=> map[i] # None
  BY DEF Entries
<1>. QED  BY <1>3, <1>4, <1>5, <1>6

\* The next key leaves the others ahead of it, and comes before none that was passed.
LEMMA VisitRound ==
  ASSUME TypeOK, ChainInv, RoundInv, NEW i \in Interfaces, Visit(i)
  PROVE  RoundInv'
<1>. USE NetStatsAssumption
<1>1. /\ key # None /\ NextKey(i) /\ key' = i /\ net_info' = net_info \cup {i}
      /\ again' = again \cup (net_info \cap {i})
      /\ UNCHANGED <<map, behind, relinked>> /\ Entries' = Entries
      /\ \A j \in Interfaces \ {i} : cache'[j] = cache[j]
  BY DEF Visit, TypeOK, kernel, Entries
<1>2. i \in Ahead /\ i \in Entries /\ \A j \in Ahead \ {i} : Precedes(i, j)
  BY <1>1 DEF NextKey, Ahead
<1>3. ASSUME NEW j \in Interfaces PROVE j \in Ahead' <=> j \in Ahead /\ j # i
  <2>1. j \in Ahead' <=> j \in Entries /\ Precedes(i, j)
    BY <1>1 DEF Ahead, Precedes
  <2>2. key = 0 \/ (key \in Interfaces /\ Precedes(key, i))
    BY <1>1, <1>2 DEF Ahead, TypeOK
  <2>3. Precedes(i, j) => j # i /\ (key \in Interfaces /\ Precedes(key, i) => Precedes(key, j))
    BY KeysOrdered
  <2>4. j \in Ahead <=> j \in Entries /\ (key = 0 \/ Precedes(key, j))
    BY DEF Ahead
  <2>. QED  BY <1>2, <2>1, <2>2, <2>3, <2>4
<1>4. ASSUME NEW j \in Interfaces, Bucket[j] \notin relinked PROVE Passed(j)'
  <2>1. Passed(j)
    BY <1>1, <1>4 DEF RoundInv
  <2>. QED  BY <1>1, <1>2, <1>3, <2>1 DEF Passed
<1>5. \A j \in Interfaces : cache'[j] # None => j \in Entries
  BY <1>1, <1>2 DEF RoundInv
<1>6. key' # None
  BY <1>1
<1>. QED  BY <1>1, <1>2, <1>4, <1>5, <1>6 DEF RoundInv, SharesOneInterval

LEMMA RoundStep ==
  ASSUME IInv, TypeOK, ChainInv, RoundInv, [Next]_vars
  PROVE  RoundInv'
<1>. USE NetStatsAssumption
<1>1. CASE UNCHANGED <<map, behind, key, net_info, again, cache, relinked>>
  BY <1>1 DEF RoundInv, SharesOneInterval, Passed, Ahead, Precedes, Entries
<1>2. CASE BeginRound
  <2>1. /\ key' = 0 /\ net_info' = {} /\ again' = {} /\ UNCHANGED <<cache, map>>
        /\ 0 \notin Interfaces /\ Entries' = Entries /\ Ahead' = Entries
    BY <1>2 DEF BeginRound, kernel, Entries, Ahead
  <2>. QED  BY <2>1 DEF RoundInv, SharesOneInterval, Passed
<1>3. CASE EndRound
  <2>1. /\ key # None /\ Ahead = {} /\ key' = None
        /\ UNCHANGED <<map, net_info, again, cache, relinked>> /\ Entries' = Entries
    BY <1>3 DEF EndRound, kernel, Entries
  <2>2. \A i \in Interfaces : Bucket[i] \notin relinked => Passed(i)
    BY <2>1 DEF RoundInv
  <2>3. SharesOneInterval'
    BY <2>1, <2>2 DEF SharesOneInterval, Passed
  <2>4. None \notin Interfaces
    OBVIOUS
  <2>. QED  BY <2>1, <2>3, <2>4 DEF RoundInv
<1>. QED
  BY <1>1, <1>2, <1>3, CreateRound, VisitRound
  DEF Next, LookUp, Add, Stop, kernel, monitor, vars

\* Every round keeps its list.
LEMMA RoundsListed == Spec => []RoundInv
<1>1. Init => RoundInv
  BY NetStatsAssumption DEF Init, RoundInv, SharesOneInterval, Entries
<1>2. IInv /\ TypeOK /\ ChainInv /\ RoundInv /\ [Next]_vars => RoundInv'
  BY RoundStep
<1>. QED  BY <1>1, <1>2, Invariant, TypeCorrect, Chains, PTL DEF Spec

\* Every difference UpdateOnce reports is one of two neighbouring rounds, however many
\* interfaces get their entries while a round is under way and however the kernel orders its
\* buckets, as long as no entry of the interface's own bucket is replaced in that round.
THEOREM OneIntervalForAll == Spec => []SharesOneInterval
<1>1. RoundInv => SharesOneInterval
  BY DEF RoundInv
<1>. QED  BY <1>1, RoundsListed, PTL

-----------------------------------------------------------------------------
(* Sums over the interfaces.                                               *)

\* A set of naturals that is not empty has a least element.
LEMMA LeastNat ==
  ASSUME NEW S \in SUBSET Nat, S # {}
  PROVE  \E k \in S : \A j \in S : k <= j
<1>. DEFINE Less == OpToRel(<, Nat)
<1>1. IsWellFoundedOn(Less, Nat)
  BY NatLessThanWellFounded
<1>2. \A j, k \in Nat : j < k => <<j, k>> \in Less
  BY DEF OpToRel
<1>. HIDE DEF Less
<1>3. PICK k \in S : \A j \in S : <<j, k>> \notin Less
  BY <1>1, WFMin
<1>4. k \in Nat /\ \A j \in S : j \in Nat /\ ~(j < k)
  BY <1>2, <1>3
<1>5. \A j \in S : k <= j
  BY <1>4
<1>. QED  BY <1>5

\* F is the sum of f over each subset of S, element by element.
IsSum(F, f, S) ==
  F = [s \in SUBSET S |->
         IF s = {} THEN 0 ELSE f[CHOOSE x \in s : TRUE] + F[s \ {CHOOSE x \in s : TRUE}]]

\* The same for the subsets of at most n elements.
IsSumTo(F, f, S, n) ==
  F = [s \in {t \in SUBSET S : Cardinality(t) <= n} |->
         IF s = {} THEN 0 ELSE f[CHOOSE x \in s : TRUE] + F[s \ {CHOOSE x \in s : TRUE}]]

\* The sum of a set that is not empty goes back to that of a smaller one.
LEMMA OneLess ==
  ASSUME NEW s, IsFiniteSet(s), s # {}
  PROVE  LET x == CHOOSE x \in s : TRUE
         IN  x \in s /\ IsFiniteSet(s \ {x}) /\ Cardinality(s) \in Nat
             /\ Cardinality(s \ {x}) = Cardinality(s) - 1
             /\ Cardinality(s \ {x}) \in Nat
<1>1. PICK x : x = CHOOSE y \in s : TRUE
  OBVIOUS
<1>2. x \in s
  BY <1>1
<1>3. IsFiniteSet(s \ {x}) /\ Cardinality(s) \in Nat /\ Cardinality(s \ {x}) = Cardinality(s) - 1
      /\ Cardinality(s \ {x}) \in Nat
  BY <1>2, FS_RemoveElement, FS_CardinalityType
<1>. QED  BY <1>1, <1>2, <1>3

\* There is such a function: one for the subsets of at most n elements for every n.
LEMMA SumExists ==
  ASSUME NEW S, IsFiniteSet(S), NEW f
  PROVE  \E F : IsSum(F, f, S)
<1>. DEFINE Bad == {n \in Nat : ~ \E F : IsSumTo(F, f, S, n)}
<1>0. \A s \in SUBSET S : IsFiniteSet(s) /\ Cardinality(s) \in Nat
  BY FS_Subset, FS_CardinalityType
<1>1. Bad = {}
  <2>1. SUFFICES ASSUME Bad # {} PROVE FALSE
    OBVIOUS
  <2>2. PICK n \in Bad : \A m \in Bad : n <= m
    BY <2>1, LeastNat
  <2>3. n \in Nat /\ ~ \E F : IsSumTo(F, f, S, n)
    OBVIOUS
  <2>4. CASE n = 0
    <3>. DEFINE F == [s \in {t \in SUBSET S : Cardinality(t) <= 0} |-> 0]
    <3>1. \A s \in SUBSET S : Cardinality(s) <= 0 => s = {}
      BY <1>0, FS_EmptySet
    <3>2. F = [s \in {t \in SUBSET S : Cardinality(t) <= 0} |->
                 IF s = {} THEN 0 ELSE f[CHOOSE x \in s : TRUE] + F[s \ {CHOOSE x \in s : TRUE}]]
      BY <3>1
    <3>. QED  BY <2>3, <2>4, <3>2 DEF IsSumTo
  <2>5. CASE n # 0
    <3>1. n - 1 \in Nat /\ n - 1 \notin Bad
      BY <2>2, <2>3, <2>5
    <3>2. PICK F : IsSumTo(F, f, S, n - 1)
      BY <3>1
    <3>. DEFINE T(s) == s \ {CHOOSE x \in s : TRUE}
                Step(s) == IF s = {} THEN 0 ELSE f[CHOOSE x \in s : TRUE] + F[T(s)]
                G == [s \in {t \in SUBSET S : Cardinality(t) <= n} |-> Step(s)]
    <3>3. \A s \in SUBSET S : s # {} /\ Cardinality(s) <= n =>
                T(s) \in SUBSET S /\ Cardinality(T(s)) <= n - 1 /\ Cardinality(T(s)) <= n
      BY <1>0, <2>3, OneLess
    <3>4. \A s \in SUBSET S : Cardinality(s) <= n - 1 => F[s] = Step(s)
      BY <3>2 DEF IsSumTo
    <3>. HIDE DEF T
    <3>5. \A s \in SUBSET S : Cardinality(s) <= n => G[s] = Step(s)
      OBVIOUS
    <3>6. \A s \in SUBSET S : s # {} /\ Cardinality(s) <= n => F[T(s)] = G[T(s)]
      <4>. HIDE DEF G, Step
      <4>. QED  BY <3>3, <3>4, <3>5
    <3>7. \A s \in {t \in SUBSET S : Cardinality(t) <= n} :
            Step(s) = IF s = {} THEN 0 ELSE f[CHOOSE x \in s : TRUE] + G[T(s)]
      <4>. HIDE DEF G
      <4>. SUFFICES ASSUME NEW s \in {t \in SUBSET S : Cardinality(t) <= n}
                    PROVE  Step(s) = IF s = {} THEN 0
                                     ELSE f[CHOOSE x \in s : TRUE] + G[T(s)]
        OBVIOUS
      <4>1. s # {} => F[T(s)] = G[T(s)]
        BY <3>6
      <4>. QED  BY <4>1
    <3>8. G = [s \in {t \in SUBSET S : Cardinality(t) <= n} |->
                IF s = {} THEN 0 ELSE f[CHOOSE x \in s : TRUE] + G[T(s)]]
      <4>1. PICK H : H = G
        OBVIOUS
      <4>2. H = [s \in {t \in SUBSET S : Cardinality(t) <= n} |-> Step(s)]
        BY <4>1
      <4>3. \A s \in {t \in SUBSET S : Cardinality(t) <= n} :
            Step(s) = IF s = {} THEN 0 ELSE f[CHOOSE x \in s : TRUE] + H[T(s)]
        BY <3>7, <4>1
      <4>. HIDE DEF G, Step
      <4>4. H = [s \in {t \in SUBSET S : Cardinality(t) <= n} |->
                IF s = {} THEN 0 ELSE f[CHOOSE x \in s : TRUE] + H[T(s)]]
        BY <4>2, <4>3
      <4>. QED  BY <4>1, <4>4
    <3>9. IsSumTo(G, f, S, n)
      <4>1. PICK H : H = G
        OBVIOUS
      <4>2. IsSumTo(H, f, S, n)
        BY <3>8, <4>1 DEF IsSumTo, T
      <4>. QED  BY <4>1, <4>2, Zenon
    <3>. QED  BY <2>3, <3>9, Zenon
  <2>. QED  BY <2>4, <2>5
<1>2. Cardinality(S) \in Nat
  BY FS_CardinalityType
<1>3. PICK F : IsSumTo(F, f, S, Cardinality(S))
  BY <1>1, <1>2
<1>4. {t \in SUBSET S : Cardinality(t) <= Cardinality(S)} = SUBSET S
  BY FS_Subset
<1>. QED  BY <1>3, <1>4, Zenon DEF IsSum, IsSumTo

\* A sum of integers is one, and one of naturals a natural; with one term it changes by as
\* much as that term.
LEMMA SumChange ==
  ASSUME NEW S, IsFiniteSet(S), NEW f \in [S -> Int], NEW g \in [S -> Int],
         NEW i, \A j \in S \ {i} : g[j] = f[j],
         NEW F, IsSum(F, f, S), NEW G, IsSum(G, g, S)
  PROVE  /\ F[S] \in Int
         /\ f \in [S -> Nat] => F[S] \in Nat
         /\ G[S] = F[S] + IF i \in S THEN g[i] - f[i] ELSE 0
<1>. DEFINE Rest(s) == s \ {CHOOSE x \in s : TRUE}
            Good(s) == /\ F[s] \in Int
                       /\ f \in [S -> Nat] => F[s] \in Nat
                       /\ G[s] = F[s] + IF i \in s THEN g[i] - f[i] ELSE 0
            Bad == {n \in Nat : \E s \in SUBSET S : Cardinality(s) = n /\ ~Good(s)}
<1>0. \A s \in SUBSET S : IsFiniteSet(s) /\ Cardinality(s) \in Nat
  BY FS_Subset, FS_CardinalityType
<1>1. \A s \in SUBSET S : s # {} => F[s] = f[CHOOSE x \in s : TRUE] + F[Rest(s)]
  BY DEF IsSum
<1>2. \A s \in SUBSET S : s # {} => G[s] = g[CHOOSE x \in s : TRUE] + G[Rest(s)]
  BY DEF IsSum
<1>3. Bad = {}
  <2>1. SUFFICES ASSUME Bad # {} PROVE FALSE
    OBVIOUS
  <2>2. PICK n \in Bad : \A m \in Bad : n <= m
    BY <2>1, LeastNat
  <2>3. PICK s \in SUBSET S : Cardinality(s) = n /\ ~Good(s)
    OBVIOUS
  <2>4. CASE s = {}
    <3>1. F[s] = 0 /\ G[s] = 0
      BY <2>4 DEF IsSum
    <3>. QED  BY <2>3, <2>4, <3>1
  <2>5. CASE s # {}
    <3>1. PICK x : x = CHOOSE y \in s : TRUE
      OBVIOUS
    <3>2. x \in s /\ Cardinality(s \ {x}) = n - 1 /\ n - 1 \in Nat
      BY <1>0, <2>3, <2>5, <3>1, OneLess
    <3>3. F[s] = f[x] + F[s \ {x}] /\ G[s] = g[x] + G[s \ {x}]
      BY <2>5, <3>1, <1>1, <1>2, Zenon
    <3>4. n - 1 \notin Bad
      BY <2>2, <3>2
    <3>5. Good(s \ {x})
      BY <3>2, <3>4
    <3>6. F[s \ {x}] \in Int /\ f[x] \in Int /\ g[x] \in Int
          /\ (f \in [S -> Nat] => F[s \ {x}] \in Nat /\ f[x] \in Nat)
          /\ (i \in S => f[i] \in Int /\ g[i] \in Int)
      BY <3>2, <3>5
    <3>7. CASE x = i
      BY <2>3, <3>2, <3>3, <3>5, <3>6, <3>7
    <3>8. CASE x # i
      <4>1. g[x] = f[x] /\ (i \in s <=> i \in s \ {x})
        BY <3>2, <3>8
      <4>. QED  BY <2>3, <3>3, <3>5, <3>6, <4>1
    <3>. QED  BY <3>7, <3>8
  <2>. QED  BY <2>4, <2>5
<1>4. Good(S)
  BY <1>0, <1>3
<1>. QED  BY <1>4

\* The sum over all interfaces.
SumOver(f) == (CHOOSE F : IsSum(F, f, Interfaces))[Interfaces]

LEMMA SumOverChange ==
  ASSUME NEW f \in [Interfaces -> Int], NEW g \in [Interfaces -> Int],
         NEW i, \A j \in Interfaces \ {i} : g[j] = f[j]
  PROVE  /\ SumOver(f) \in Int
         /\ f \in [Interfaces -> Nat] => SumOver(f) \in Nat
         /\ SumOver(g) = SumOver(f) + IF i \in Interfaces THEN g[i] - f[i] ELSE 0
<1>1. PICK F : F = CHOOSE H : IsSum(H, f, Interfaces)
  OBVIOUS
<1>2. PICK G : G = CHOOSE H : IsSum(H, g, Interfaces)
  OBVIOUS
<1>3. IsSum(F, f, Interfaces) /\ IsSum(G, g, Interfaces)
  BY <1>1, <1>2, SumExists, NetStatsAssumption, Zenon
<1>4. SumOver(f) = F[Interfaces] /\ SumOver(g) = G[Interfaces]
  BY <1>1, <1>2 DEF SumOver
<1>5. IsFiniteSet(Interfaces)
  BY NetStatsAssumption
<1>6. /\ F[Interfaces] \in Int
      /\ f \in [Interfaces -> Nat] => F[Interfaces] \in Nat
      /\ G[Interfaces] = F[Interfaces] + IF i \in Interfaces THEN g[i] - f[i] ELSE 0
  BY <1>3, <1>5, SumChange
<1>. QED  BY <1>4, <1>6

\* The packets of direction d that came to each interface, and their sum.
Came(d) == [i \in Interfaces |-> arrived[i][d]]

\* MapThenSumSet is such a sum, of the operator it is given.
LEMMA TotalIsSum ==
  ASSUME NEW d \in Directions, arrived \in [Interfaces -> Counts]
  PROVE  TotalArrived(d) = SumOver(Came(d))
<1>. DEFINE Sums(F) ==
       F = [s \in SUBSET Interfaces |->
              IF s = {} THEN 0
              ELSE arrived[CHOOSE x \in s : TRUE][d] + F[s \ {CHOOSE x \in s : TRUE}]]
<1>1. TotalArrived(d) = (CHOOSE F : Sums(F))[Interfaces]
  BY DEF TotalArrived, MapThenSumSet, MapThenFoldSet
<1>2. \A s \in SUBSET Interfaces : s # {} =>
        Came(d)[CHOOSE x \in s : TRUE] = arrived[CHOOSE x \in s : TRUE][d]
  BY DEF Came
<1>3. ASSUME NEW F PROVE Sums(F) <=> IsSum(F, Came(d), Interfaces)
  <2>1. PICK f : f = Came(d)
    OBVIOUS
  <2>2. \A s \in SUBSET Interfaces : s # {} =>
          f[CHOOSE x \in s : TRUE] = arrived[CHOOSE x \in s : TRUE][d]
    BY <1>2, <2>1
  <2>3. Sums(F) <=> IsSum(F, f, Interfaces)
    BY <2>2 DEF IsSum
  <2>. QED  BY <2>1, <2>3, Zenon
<1>4. Came(d) \in [Interfaces -> Int]
  BY DEF Came, Counts
<1>5. PICK F : F = CHOOSE H : Sums(H)
  OBVIOUS
<1>6. PICK G : G = CHOOSE H : IsSum(H, Came(d), Interfaces)
  OBVIOUS
<1>. HIDE DEF Sums
<1>7. \E H : IsSum(H, Came(d), Interfaces)
  BY SumExists, NetStatsAssumption
<1>8. IsSum(F, Came(d), Interfaces)
  BY <1>3, <1>5, <1>7, Zenon
<1>9. IsSum(G, Came(d), Interfaces)
  BY <1>6, <1>7, Zenon
<1>10. F[Interfaces] = G[Interfaces]
  <2>1. PICK f \in [Interfaces -> Int] : f = Came(d)
    BY <1>4
  <2>2. IsSum(F, f, Interfaces) /\ IsSum(G, f, Interfaces)
    BY <1>8, <1>9, <2>1
  <2>3. /\ IsFiniteSet(Interfaces) /\ 0 \notin Interfaces
        /\ \A j \in Interfaces \ {0} : f[j] = f[j]
    BY NetStatsAssumption
  <2>4. /\ F[Interfaces] \in Int
        /\ G[Interfaces] = F[Interfaces] + IF 0 \in Interfaces THEN f[0] - f[0] ELSE 0
    BY ONLY <2>2, <2>3, f \in [Interfaces -> Int], SumChange
  <2>. QED  BY <2>3, <2>4
<1>11. TotalArrived(d) = F[Interfaces]
  BY <1>1, <1>5
<1>12. SumOver(Came(d)) = G[Interfaces]
  BY <1>6 DEF SumOver
<1>. QED  BY <1>10, <1>11, <1>12

-----------------------------------------------------------------------------
(* What has been reported and what is still to be.                         *)

\* What the next visit of each interface would report of direction d.
Due(d) == [i \in Interfaces |-> Difference(cache[i], value[map[i]], d)]

\* The CPUs with a packet of direction d that is not counted yet.
Uncounted(d) == {c \in CPUs : cpu[c] # None /\ cpu[c].dir = d}

\* What is reported, what the next visits would report and the packets on their way to be
\* counted are together no more than the packets that came.
Account(d) ==
  reported[d] + SumOver(Due(d)) + Cardinality(Uncounted(d)) <= SumOver(Came(d))

DueInv == \A d \in Directions : Account(d)

\* One CPU's packet adds it to the uncounted ones, and removes it when it is counted.
LEMMA UncountedChange ==
  ASSUME KernelTypeOK, NEW c \in CPUs, NEW d \in Directions,
         NEW p \in Packet \cup {None}, cpu' = [cpu EXCEPT ![c] = p]
  PROVE  /\ Cardinality(Uncounted(d)) \in Nat /\ Cardinality(Uncounted(d)') \in Nat
         /\ cpu[c] = None /\ p # None /\ p.dir = d =>
              Cardinality(Uncounted(d)') = Cardinality(Uncounted(d)) + 1
         /\ cpu[c] # None /\ cpu[c].dir = d /\ p = None =>
              Cardinality(Uncounted(d)') = Cardinality(Uncounted(d)) - 1
         /\ (cpu[c] = None \/ cpu[c].dir # d) /\ (p = None \/ p.dir # d) =>
              Uncounted(d)' = Uncounted(d)
<1>1. IsFiniteSet(Uncounted(d)) /\ IsFiniteSet(Uncounted(d)')
  <2>1. Uncounted(d) \in SUBSET CPUs /\ Uncounted(d)' \in SUBSET CPUs
    BY DEF Uncounted
  <2>. QED  BY <2>1, FS_Subset, NetStatsAssumption
<1>2. Cardinality(Uncounted(d)) \in Nat /\ Cardinality(Uncounted(d)') \in Nat
  BY <1>1, FS_CardinalityType
<1>3. ASSUME cpu[c] = None, p # None, p.dir = d
      PROVE  Cardinality(Uncounted(d)') = Cardinality(Uncounted(d)) + 1
  <2>1. Uncounted(d)' = Uncounted(d) \cup {c} /\ c \notin Uncounted(d)
    BY <1>3 DEF Uncounted, KernelTypeOK
  <2>. QED  BY <1>1, <2>1, FS_AddElement
<1>4. ASSUME cpu[c] # None, cpu[c].dir = d, p = None
      PROVE  Cardinality(Uncounted(d)') = Cardinality(Uncounted(d)) - 1
  <2>1. Uncounted(d)' = Uncounted(d) \ {c} /\ c \in Uncounted(d)
    BY <1>4 DEF Uncounted, KernelTypeOK
  <2>. QED  BY <1>1, <2>1, FS_RemoveElement
<1>5. ASSUME cpu[c] = None \/ cpu[c].dir # d, p = None \/ p.dir # d
      PROVE  Uncounted(d)' = Uncounted(d)
  BY <1>5 DEF Uncounted, KernelTypeOK
<1>. QED  BY <1>2, <1>3, <1>4, <1>5

\* A difference is no more than the counter; one packet more adds one at most, also where
\* the counter comes up to the last sample again.
LEMMA DifferenceType ==
  ASSUME NEW d \in Directions, NEW old \in Counts \cup {None}, NEW new,
         old # None => new \in Counts
  PROVE  /\ Difference(old, new, d) \in Nat
         /\ old # None => Difference(old, new, d) <= new[d]
         /\ \A later \in Counts : old # None /\ later[d] = new[d] + 1 =>
              Difference(old, later, d) <= Difference(old, new, d) + 1
         /\ new \in Counts => Difference(new, new, d) = 0
<1>1. old # None => old[d] \in Nat /\ new[d] \in Nat
  BY DEF Counts
<1>2. new \in Counts => new[d] \in Nat
  BY DEF Counts
<1>3. ASSUME NEW later \in Counts, old # None, later[d] = new[d] + 1
      PROVE  Difference(old, later, d) <= Difference(old, new, d) + 1
  <2>1. later[d] \in Nat
    BY DEF Counts
  <2>. QED  BY <1>1, <1>3, <2>1 DEF Difference
<1>4. Difference(old, new, d) \in Nat /\ (old # None => Difference(old, new, d) <= new[d])
  BY <1>1 DEF Difference
<1>5. new \in Counts => Difference(new, new, d) = 0
  BY <1>2 DEF Difference
<1>. QED  BY <1>3, <1>4, <1>5

\* What is due is a natural, for an interface with a sample has an entry.
LEMMA DueOf ==
  ASSUME NEW d \in Directions, NEW old \in [Interfaces -> Counts \cup {None}],
         NEW m, NEW v \in [Elements -> Counts],
         \A i \in Interfaces : old[i] # None => m[i] \in Elements
  PROVE  [i \in Interfaces |-> Difference(old[i], v[m[i]], d)] \in [Interfaces -> Nat]
<1>1. ASSUME NEW i \in Interfaces PROVE Difference(old[i], v[m[i]], d) \in Nat
  <2>1. old[i] \in Counts \cup {None} /\ (old[i] # None => v[m[i]] \in Counts)
    OBVIOUS
  <2>. QED  BY <2>1, DifferenceType
<1>. QED  BY <1>1

LEMMA DueType ==
  ASSUME NEW d \in Directions
  PROVE  /\ TypeOK /\ RoundInv => Due(d) \in [Interfaces -> Nat]
         /\ TypeOK' /\ RoundInv' => Due(d)' \in [Interfaces -> Nat]
<1>1. TypeOK /\ RoundInv => Due(d) \in [Interfaces -> Nat]
  <2>. SUFFICES ASSUME TypeOK, RoundInv PROVE Due(d) \in [Interfaces -> Nat]
    OBVIOUS
  <2>1. \A i \in Interfaces : cache[i] # None => map[i] \in Elements
    BY DEF TypeOK, RoundInv, Entries
  <2>2. cache \in [Interfaces -> Counts \cup {None}] /\ value \in [Elements -> Counts]
    BY DEF TypeOK
  <2>. QED  BY <2>1, <2>2, DueOf DEF Due
<1>2. TypeOK' /\ RoundInv' => Due(d)' \in [Interfaces -> Nat]
  <2>. SUFFICES ASSUME TypeOK', RoundInv' PROVE Due(d)' \in [Interfaces -> Nat]
    OBVIOUS
  <2>1. \A i \in Interfaces : cache'[i] # None => map'[i] \in Elements
    BY DEF TypeOK, RoundInv, Entries
  <2>2. cache' \in [Interfaces -> Counts \cup {None}] /\ value' \in [Elements -> Counts]
    BY DEF TypeOK
  <2>. QED  BY <2>1, <2>2, DueOf DEF Due
<1>. QED  BY <1>1, <1>2

LEMMA CameOf ==
  ASSUME NEW d \in Directions, NEW a \in [Interfaces -> Counts]
  PROVE  [i \in Interfaces |-> a[i][d]] \in [Interfaces -> Int]
<1>1. \A i \in Interfaces : a[i] \in [Directions -> Nat]
  BY DEF Counts
<1>. QED  BY <1>1

\* If what is due changes for one interface at most, it rises by what that one's does.
LEMMA DueRises ==
  ASSUME NEW f \in [Interfaces -> Nat], NEW g \in [Interfaces -> Nat], NEW i \in Interfaces,
         NEW n \in Int, \A j \in Interfaces \ {i} : g[j] = f[j], g[i] <= f[i] + n
  PROVE  SumOver(f) \in Nat /\ SumOver(g) \in Nat /\ SumOver(g) <= SumOver(f) + n
<1>1. f \in [Interfaces -> Int] /\ g \in [Interfaces -> Int]
  OBVIOUS
<1>2. SumOver(f) \in Nat /\ SumOver(g) = SumOver(f) + g[i] - f[i]
  BY <1>1, SumOverChange
<1>3. SumOver(g) \in Nat
  BY <1>1, SumOverChange
<1>4. f[i] \in Nat /\ g[i] \in Nat
  OBVIOUS
<1>. QED  BY <1>2, <1>3, <1>4

\* A step that leaves the samples and what is reported alone, and raises what is due for one
\* interface at most.
LEMMA KernelAccount ==
  ASSUME TypeOK, TypeOK', RoundInv, RoundInv', NEW d \in Directions, Account(d),
         NEW i \in Interfaces, NEW n \in Int,
         \A j \in Interfaces \ {i} : Due(d)'[j] = Due(d)[j], Due(d)'[i] <= Due(d)[i] + n,
         UNCHANGED <<arrived, reported>>,
         Cardinality(Uncounted(d)) \in Nat, Cardinality(Uncounted(d)') \in Nat,
         Cardinality(Uncounted(d)') + n <= Cardinality(Uncounted(d))
  PROVE  Account(d)'
<1>1. PICK f \in [Interfaces -> Nat] : f = Due(d)
  BY DueType, Zenon
<1>2. PICK g \in [Interfaces -> Nat] : g = Due(d)'
  BY DueType
<1>3. SumOver(f) \in Nat /\ SumOver(g) \in Nat /\ SumOver(g) <= SumOver(f) + n
  BY <1>1, <1>2, DueRises
<1>4. SumOver(Due(d)) = SumOver(f) /\ SumOver(Due(d))' = SumOver(g)
  BY <1>1, <1>2
<1>5. SumOver(Came(d)) \in Int /\ SumOver(Came(d))' = SumOver(Came(d)) /\ reported[d] \in Nat
      /\ reported'[d] = reported[d]
  <2>1. Came(d)' = Came(d)
    BY DEF Came
  <2>2. PICK h \in [Interfaces -> Int] : h = Came(d)
    BY CameOf DEF Came, TypeOK
  <2>3. SumOver(h) \in Int
    BY SumOverChange
  <2>. QED  BY <2>1, <2>2, <2>3 DEF TypeOK, Counts
<1>. HIDE DEF Due, Came
<1>. QED  BY <1>3, <1>4, <1>5 DEF Account

\* A packet comes, and is uncounted.
LEMMA LookUpAccount ==
  ASSUME TypeOK, TypeOK', RoundInv, NEW d \in Directions, Account(d),
         NEW c \in CPUs, NEW i \in Interfaces, NEW b \in Directions, LookUp(c, i, b)
  PROVE  Account(d)'
<1>. DEFINE p == [ifindex |-> i, dir |-> b, stats |-> map[i]]
<1>1. p \in Packet /\ p # None /\ cpu[c] = None /\ cpu' = [cpu EXCEPT ![c] = p]
      /\ arrived' = [arrived EXCEPT ![i][b] = @ + 1] /\ UNCHANGED <<map, value, cache, reported>>
  BY NetStatsAssumption DEF LookUp, TypeOK, Packet, monitor
<1>2. KernelTypeOK
  BY DEF TypeOK, KernelTypeOK
<1>3. /\ Cardinality(Uncounted(d)) \in Nat /\ Cardinality(Uncounted(d)') \in Nat
      /\ d = b => Cardinality(Uncounted(d)') = Cardinality(Uncounted(d)) + 1
      /\ d # b => Cardinality(Uncounted(d)') = Cardinality(Uncounted(d))
  <2>1. p.dir = b /\ p \in Packet \cup {None}
    BY <1>1
  <2>. HIDE DEF p
  <2>. QED  BY <1>1, <1>2, <2>1, UncountedChange
<1>4. PICK f \in [Interfaces -> Int] : f = Came(d)
  BY CameOf DEF Came, TypeOK
<1>5. PICK g \in [Interfaces -> Int] : g = Came(d)'
  BY <1>1, CameOf DEF Came, TypeOK
<1>6. /\ \A j \in Interfaces \ {i} : g[j] = f[j]
      /\ g[i] = f[i] + IF d = b THEN 1 ELSE 0
  BY <1>1, <1>4, <1>5 DEF Came, TypeOK, Counts
<1>7. SumOver(f) \in Int /\ SumOver(g) = SumOver(f) + IF d = b THEN 1 ELSE 0
  <2>1. f[i] \in Int /\ g[i] \in Int
    OBVIOUS
  <2>2. SumOver(f) \in Int /\ SumOver(g) = SumOver(f) + g[i] - f[i]
    BY <1>6, SumOverChange
  <2>. QED  BY <1>6, <2>1, <2>2
<1>8. SumOver(Due(d))' = SumOver(Due(d)) /\ SumOver(Due(d)) \in Nat
  <2>1. Due(d)' = Due(d)
    BY <1>1 DEF Due
  <2>2. PICK h \in [Interfaces -> Nat] : h = Due(d)
    BY DueType
  <2>3. SumOver(h) \in Nat
    <3>1. h \in [Interfaces -> Int]
      OBVIOUS
    <3>. QED  BY <3>1, SumOverChange
  <2>. QED  BY <2>1, <2>2, <2>3
<1>9. SumOver(Came(d)) = SumOver(f) /\ SumOver(Came(d))' = SumOver(g)
  BY <1>4, <1>5
<1>10. reported'[d] = reported[d] /\ reported[d] \in Nat
  BY <1>1 DEF TypeOK, Counts
<1>. HIDE DEF Due, Came, p
<1>. QED  BY <1>3, <1>7, <1>8, <1>9, <1>10 DEF Account

\* It is counted, and due for one interface at most: the one whose entry the element is now,
\* if any.
LEMMA AddAccount ==
  ASSUME IInv, TypeOK, TypeOK', RoundInv, RoundInv', NEW d \in Directions, Account(d),
         NEW c \in CPUs, Add(c)
  PROVE  Account(d)'
<1>. DEFINE e == cpu[c].stats
            b == cpu[c].dir
<1>1. /\ cpu[c] # None /\ e # None /\ e \in Elements /\ b \in Directions
      /\ value' = [value EXCEPT ![e][b] = @ + 1] /\ cpu' = [cpu EXCEPT ![c] = None]
      /\ UNCHANGED <<map, cache, arrived, reported>>
  BY DEF Add, TypeOK, Packet, monitor
<1>2. KernelTypeOK /\ Distinct
  BY DEF IInv
<1>3. /\ Cardinality(Uncounted(d)) \in Nat /\ Cardinality(Uncounted(d)') \in Nat
      /\ d = b => Cardinality(Uncounted(d)') = Cardinality(Uncounted(d)) - 1
      /\ d # b => Cardinality(Uncounted(d)') = Cardinality(Uncounted(d))
  BY <1>1, <1>2, UncountedChange
<1>. HIDE DEF e, b
<1>4. /\ \A x \in Elements : x # e => value'[x] = value[x]
      /\ d # b => \A x \in Elements : value'[x][d] = value[x][d]
      /\ d = b => value'[e][d] = value[e][d] + 1
  BY <1>1 DEF TypeOK, Counts
<1>5. ASSUME NEW j \in Interfaces, map[j] # e \/ d # b \/ cache[j] = None
      PROVE  Due(d)'[j] = Due(d)[j]
  <2>1. cache[j] # None => map[j] \in Elements
    BY DEF RoundInv, TypeOK, Entries
  <2>2. cache'[j] = cache[j] /\ map'[j] = map[j]
    BY <1>1
  <2>3. cache[j] # None => value'[map[j]][d] = value[map[j]][d]
    BY <1>4, <1>5, <2>1
  <2>4. Difference(cache[j], value'[map[j]], d) = Difference(cache[j], value[map[j]], d)
    BY <2>3 DEF Difference
  <2>. QED  BY <2>2, <2>4 DEF Due
<1>6. PICK i \in Interfaces : \A j \in Interfaces \ {i} : map[j] # e \/ cache[j] = None
  <2>1. CASE \E i \in Interfaces : map[i] = e
    BY <1>1, <1>2, <2>1 DEF Distinct
  <2>2. CASE \A i \in Interfaces : map[i] # e
    <3>1. cpu[c].ifindex \in Interfaces
      BY <1>1, <1>2 DEF KernelTypeOK, Packet
    <3>. QED  BY <2>2, <3>1
  <2>. QED  BY <2>1, <2>2
<1>7. \A j \in Interfaces \ {i} : Due(d)'[j] = Due(d)[j]
  BY <1>5, <1>6
<1>8. Due(d)'[i] <= Due(d)[i] + IF d = b THEN 1 ELSE 0
  <2>1. PICK f \in [Interfaces -> Nat] : f = Due(d)
    BY DueType, Zenon
  <2>2. CASE map[i] # e \/ d # b \/ cache[i] = None
    <3>1. Due(d)'[i] = Due(d)[i] /\ Due(d)[i] \in Nat
      BY <1>5, <2>1, <2>2
    <3>. QED  BY <3>1
  <2>3. CASE map[i] = e /\ d = b /\ cache[i] # None
    <3>1. cache[i] \in Counts /\ value[e] \in Counts /\ value'[e] \in Counts
      BY <1>1, <2>3 DEF TypeOK
    <3>2. Difference(cache[i], value'[e], d) <= Difference(cache[i], value[e], d) + 1
      BY <1>4, <2>3, <3>1, DifferenceType
    <3>. QED  BY <1>1, <2>3, <3>2 DEF Due
  <2>. QED  BY <2>2, <2>3
<1>9. PICK n \in Int : n = IF d = b THEN 1 ELSE 0
  OBVIOUS
<1>10. Cardinality(Uncounted(d)') + n <= Cardinality(Uncounted(d))
  BY <1>3, <1>9
<1>11. Due(d)'[i] <= Due(d)[i] + n
  BY <1>8, <1>9
<1>. QED  BY <1>1, <1>3, <1>7, <1>10, <1>11, KernelAccount

\* A new entry counts one packet, and the interface's last sample is at least nothing.
LEMMA LinkAccount ==
  ASSUME IInv, TypeOK, TypeOK', RoundInv, RoundInv', NEW d \in Directions, Account(d),
         NEW c \in CPUs, cpu[c] # None, NEW e \in Elements, Link(c, e),
         \A j \in Interfaces : map[j] # e,
         cpu' = [cpu EXCEPT ![c] = None], UNCHANGED <<cache, arrived, reported>>
  PROVE  Account(d)'
<1>. DEFINE i == cpu[c].ifindex
            b == cpu[c].dir
<1>0. KernelTypeOK
  BY DEF IInv
<1>1. /\ i \in Interfaces /\ b \in Directions
      /\ map' = [map EXCEPT ![i] = e]
      /\ value' = [value EXCEPT ![e] = [NoCount EXCEPT ![b] = 1]]
  BY <1>0 DEF Link, KernelTypeOK, Packet
<1>3. /\ Cardinality(Uncounted(d)) \in Nat /\ Cardinality(Uncounted(d)') \in Nat
      /\ d = b => Cardinality(Uncounted(d)') = Cardinality(Uncounted(d)) - 1
      /\ d # b => Cardinality(Uncounted(d)') = Cardinality(Uncounted(d))
  BY <1>0, UncountedChange
<1>. HIDE DEF i, b
<1>4. ASSUME NEW j \in Interfaces \ {i} PROVE Due(d)'[j] = Due(d)[j]
  <2>1. map'[j] = map[j] /\ map[j] # e
    BY <1>1, <1>0 DEF KernelTypeOK
  <2>2. cache[j] # None => map[j] \in Elements
    BY DEF RoundInv, TypeOK, Entries
  <2>3. cache[j] # None => value'[map[j]] = value[map[j]]
    BY <1>1, <2>1, <2>2 DEF TypeOK
  <2>4. Difference(cache[j], value'[map[j]], d) = Difference(cache[j], value[map[j]], d)
    BY <2>3 DEF Difference
  <2>. QED  BY <2>1, <2>4 DEF Due
<1>5. Due(d)'[i] <= IF d = b THEN 1 ELSE 0
  <2>1. map'[i] = e /\ value'[e][d] = IF d = b THEN 1 ELSE 0
    BY <1>1, <1>0 DEF KernelTypeOK, NoCount
  <2>2. cache[i] \in Counts \cup {None} /\ value'[e] \in Counts
    BY <1>1 DEF TypeOK
  <2>3. /\ cache[i] = None => Difference(cache[i], value'[e], d) = 0
        /\ cache[i] # None => Difference(cache[i], value'[e], d) <= value'[e][d]
    BY <2>2, DifferenceType DEF Difference
  <2>4. Difference(cache[i], value'[e], d) <= IF d = b THEN 1 ELSE 0
    BY <2>1, <2>3
  <2>. QED  BY <1>1, <2>1, <2>4 DEF Due
<1>6. PICK f \in [Interfaces -> Nat] : f = Due(d)
  BY DueType, Zenon
<1>7. PICK g \in [Interfaces -> Nat] : g = Due(d)'
  BY DueType, Zenon
<1>8. PICK n \in Int : n = IF d = b THEN 1 ELSE 0
  OBVIOUS
<1>9. Cardinality(Uncounted(d)') + n <= Cardinality(Uncounted(d))
  BY <1>3, <1>8
<1>10. Due(d)'[i] <= Due(d)[i] + n
  <2>1. g[i] <= n /\ f[i] \in Nat /\ g[i] \in Nat
    BY <1>1, <1>5, <1>7, <1>8
  <2>2. g[i] <= f[i] + n
    BY <2>1
  <2>. QED  BY <1>6, <1>7, <2>2
<1>. QED  BY <1>1, <1>3, <1>4, <1>9, <1>10, KernelAccount

\* A packet without an entry is counted in a new one, or by none.
LEMMA CreateAccount ==
  ASSUME IInv, TypeOK, TypeOK', RoundInv, RoundInv', NEW d \in Directions, Account(d),
         NEW c \in CPUs, Create(c)
  PROVE  Account(d)'
<1>1. /\ cpu[c] # None /\ cpu' = [cpu EXCEPT ![c] = None]
      /\ UNCHANGED <<cache, arrived, reported>> /\ KernelTypeOK /\ Distinct
  BY DEF Create, monitor, IInv
<1>2. CASE Link(c, spare[c])
  <2>1. spare[c] \in Elements /\ \A j \in Interfaces : map[j] # spare[c]
    BY <1>1 DEF KernelTypeOK, Distinct
  <2>. QED  BY <1>1, <1>2, <2>1, LinkAccount
<1>3. CASE Cardinality(Entries) < MaxEntries /\ Link(c, Cardinality(Entries) + 1)
  <2>. DEFINE e == Cardinality(Entries) + 1
  <2>1. e \in Nat /\ e > Cardinality(Entries) /\ e \in Elements /\ Cardinality(Entries) \in Nat
    BY <1>3, EntriesType, NetStatsAssumption DEF Elements
  <2>. HIDE DEF e
  <2>2. \A j \in Interfaces : map[j] # e
    BY <1>1, <2>1 DEF Distinct
  <2>3. Link(c, e)
    BY <1>3 DEF e
  <2>. QED  BY <1>1, <2>1, <2>2, <2>3, LinkAccount
<1>4. CASE UNCHANGED <<map, value, spare>>
  <2>1. Due(d)' = Due(d)
    BY <1>1, <1>4 DEF Due
  <2>2. PICK f \in [Interfaces -> Nat] : f = Due(d)
    BY DueType, Zenon
  <2>3. cpu[c].ifindex \in Interfaces
    BY <1>1 DEF KernelTypeOK, Packet
  <2>4. Due(d)'[cpu[c].ifindex] <= Due(d)[cpu[c].ifindex] + 0
    <3>1. f[cpu[c].ifindex] \in Nat
      BY <2>3
    <3>2. f[cpu[c].ifindex] <= f[cpu[c].ifindex] + 0
      BY <3>1
    <3>. QED  BY <2>1, <2>2, <3>2
  <2>5. /\ Cardinality(Uncounted(d)) \in Nat /\ Cardinality(Uncounted(d)') \in Nat
        /\ cpu[c].dir = d => Cardinality(Uncounted(d)') = Cardinality(Uncounted(d)) - 1
        /\ cpu[c].dir # d => Cardinality(Uncounted(d)') = Cardinality(Uncounted(d))
    BY <1>1, UncountedChange
  <2>6. Cardinality(Uncounted(d)') + 0 <= Cardinality(Uncounted(d))
    BY <2>5
  <2>. QED  BY <1>1, <2>1, <2>3, <2>4, <2>5, <2>6, KernelAccount
<1>. QED  BY <1>2, <1>3, <1>4 DEF Create

\* What a visit reports was due, and is not due again.
LEMMA VisitAccount ==
  ASSUME TypeOK, TypeOK', RoundInv, RoundInv', NEW d \in Directions, Account(d),
         NEW i \in Interfaces, Visit(i)
  PROVE  Account(d)'
<1>. DEFINE now == value[map[i]]
<1>1. /\ reported' = [b \in Directions |-> reported[b] + Difference(cache[i], now, b)]
      /\ cache' = [cache EXCEPT ![i] = now]
      /\ UNCHANGED <<map, value, cpu, arrived>>
  BY DEF Visit, kernel
<1>2. i \in Interfaces /\ map[i] \in Elements
  BY DEF Visit, NextKey, Ahead, Entries, TypeOK
<1>3. now \in Counts
  BY <1>2 DEF TypeOK
<1>4. reported'[d] = reported[d] + Due(d)[i] /\ reported[d] \in Nat
  BY <1>1, <1>2 DEF Due, TypeOK, Counts
<1>5. Due(d)'[i] = 0
  <2>1. Difference(now, now, d) = 0
    BY <1>3, DifferenceType
  <2>2. cache'[i] = now /\ value'[map'[i]] = now
    BY <1>1, <1>2 DEF TypeOK
  <2>. QED  BY <1>2, <2>1, <2>2 DEF Due
<1>6. \A j \in Interfaces \ {i} : Due(d)'[j] = Due(d)[j]
  BY <1>1 DEF Due, TypeOK
<1>. HIDE DEF now
<1>7. PICK f \in [Interfaces -> Nat] : f = Due(d)
  BY DueType, Zenon
<1>8. PICK g \in [Interfaces -> Nat] : g = Due(d)'
  BY DueType, Zenon
<1>9. SumOver(f) \in Nat /\ SumOver(g) \in Nat /\ SumOver(g) <= SumOver(f) + (0 - f[i])
  <2>1. f[i] \in Nat /\ g[i] = 0
    BY <1>2, <1>5, <1>8
  <2>2. (0 - f[i]) \in Int /\ g[i] <= f[i] + (0 - f[i])
    BY <2>1
  <2>. QED  BY <1>2, <1>6, <1>7, <1>8, <2>2, DueRises
<1>10. Uncounted(d)' = Uncounted(d) /\ Came(d)' = Came(d)
  BY <1>1 DEF Uncounted, Came
<1>11. PICK h \in [Interfaces -> Int] : h = Came(d)
  BY CameOf DEF Came, TypeOK
<1>12. SumOver(h) \in Int
  BY SumOverChange
<1>13. SumOver(Due(d)) = SumOver(f) /\ SumOver(Due(d))' = SumOver(g) /\ f[i] \in Nat
       /\ SumOver(Came(d)) = SumOver(h) /\ SumOver(Came(d))' = SumOver(h)
       /\ reported'[d] = reported[d] + f[i]
  BY <1>2, <1>4, <1>7, <1>8, <1>10, <1>11
<1>14. Cardinality(Uncounted(d)) \in Nat
  <2>1. Uncounted(d) \in SUBSET CPUs
    BY DEF Uncounted
  <2>. QED  BY <2>1, FS_Subset, FS_CardinalityType, NetStatsAssumption
<1>. HIDE DEF Due, Came, Uncounted
<1>15. Cardinality(Uncounted(d))' = Cardinality(Uncounted(d))
  BY <1>10
<1>. QED  BY <1>4, <1>9, <1>12, <1>13, <1>14, <1>15 DEF Account

LEMMA AccountStep ==
  ASSUME IInv, TypeOK, TypeOK', RoundInv, RoundInv', [Next]_vars, DueInv
  PROVE  DueInv'
<1>. SUFFICES ASSUME NEW d \in Directions PROVE Account(d)'
  BY DEF DueInv
<1>1. Account(d)
  BY DEF DueInv
<1>2. CASE UNCHANGED <<map, value, cpu, arrived, cache, reported>>
  <2>1. Due(d)' = Due(d) /\ Came(d)' = Came(d) /\ Uncounted(d)' = Uncounted(d)
    BY <1>2 DEF Due, Came, Uncounted
  <2>. QED  BY <1>1, <1>2, <2>1 DEF Account
<1>3. ASSUME NEW c \in CPUs, NEW i \in Interfaces, NEW b \in Directions, LookUp(c, i, b)
      PROVE  Account(d)'
  BY <1>1, <1>3, LookUpAccount
<1>4. ASSUME NEW c \in CPUs, Add(c) PROVE Account(d)'
  BY <1>1, <1>4, AddAccount
<1>5. ASSUME NEW c \in CPUs, Create(c) PROVE Account(d)'
  BY <1>1, <1>5, CreateAccount
<1>6. ASSUME NEW i \in Interfaces, Visit(i) PROVE Account(d)'
  BY <1>1, <1>6, VisitAccount
<1>. QED
  BY <1>2, <1>3, <1>4, <1>5, <1>6 DEF Next, BeginRound, EndRound, Stop, kernel, monitor, vars

\* Whatever entries are replaced between rounds, and however many CPUs race to create one,
\* the differences reported never add up to more packets than came.
THEOREM NeverMoreThanCame == Spec => []NeverOverstates
<1>1. Init => DueInv
  <2>. SUFFICES ASSUME Init, NEW d \in Directions PROVE Account(d)
    BY DEF DueInv
  <2>1. Due(d) = Came(d) /\ reported[d] = 0
    BY DEF Init, Due, Came, Difference, NoCount
  <2>2. Uncounted(d) = {}
    BY DEF Init, Uncounted
  <2>3. Cardinality(Uncounted(d)) = 0
    BY <2>2, FS_EmptySet
  <2>4. SumOver(Came(d)) \in Int
    <3>1. PICK h \in [Interfaces -> Int] : h = Came(d)
      <4>1. arrived \in [Interfaces -> Counts]
        BY DEF Init, NoCount, Counts
      <4>. QED  BY <4>1, CameOf DEF Came
    <3>2. SumOver(h) \in Int
      BY SumOverChange
    <3>. QED  BY <3>1, <3>2
  <2>. HIDE DEF Due, Came, Uncounted
  <2>. QED  BY <2>1, <2>3, <2>4 DEF Account
<1>2. IInv /\ TypeOK /\ TypeOK' /\ RoundInv /\ RoundInv' /\ DueInv /\ [Next]_vars => DueInv'
  BY AccountStep
<1>3. TypeOK /\ RoundInv /\ DueInv => NeverOverstates
  <2>. SUFFICES ASSUME TypeOK, RoundInv, DueInv, NEW d \in Directions
                PROVE  reported[d] <= TotalArrived(d)
    BY DEF NeverOverstates
  <2>1. PICK f \in [Interfaces -> Nat] : f = Due(d)
    BY DueType, Zenon
  <2>2. SumOver(f) \in Nat
    <3>1. f \in [Interfaces -> Int]
      OBVIOUS
    <3>. QED  BY <3>1, SumOverChange
  <2>3. PICK h \in [Interfaces -> Int] : h = Came(d)
    BY CameOf DEF Came, TypeOK
  <2>4. SumOver(h) \in Int /\ TotalArrived(d) = SumOver(h) /\ SumOver(Due(d)) = SumOver(f)
        /\ SumOver(Came(d)) = SumOver(h)
    BY <2>1, <2>3, SumOverChange, TotalIsSum DEF TypeOK
  <2>5. Cardinality(Uncounted(d)) \in Nat
    <3>1. Uncounted(d) \in SUBSET CPUs
      BY DEF Uncounted
    <3>. QED  BY <3>1, FS_Subset, FS_CardinalityType, NetStatsAssumption
  <2>6. reported[d] \in Nat
    BY DEF TypeOK, Counts
  <2>. QED  BY <2>2, <2>4, <2>5, <2>6 DEF DueInv, Account
<1>. QED  BY <1>1, <1>2, <1>3, Invariant, TypeCorrect, RoundsListed, PTL DEF Spec

-----------------------------------------------------------------------------
(* The samples of the CPUs.                                                *)

\* The page never runs ahead of the counters.
PageInv ==
  /\ loads \in Nat /\ dirty \in BOOLEAN
  /\ counter \in [Cpus -> [Fields -> Nat]]
  /\ page \in [Cpus -> [named : BOOLEAN, busy : Nat, idle : Nat]]
  /\ \A c \in Cpus : \A f \in Fields : page[c][f] <= counter[c][f]
  /\ \A c \in Cpus : counter[c]["busy"] + counter[c]["idle"] <= MaxTime
  /\ writer # Nothing => /\ writer.cpu \in Cpus /\ writer.field \in {"named", "busy", "idle"}
                       /\ module # "absent"
  /\ module # "absent" => loads # 0

\* The sample of a CPU does not run ahead of its source, as long as that is there.
SampleInv ==
  /\ cpu_stats \in [Cpus -> [busy : Nat, idle : Nat, source : [load : Nat, ready : BOOLEAN]]
                              \cup {Nothing}]
  /\ \A c \in Cpus : cpu_stats[c] # Nothing =>
       /\ cpu_stats[c].source.load <= loads
       /\ cpu_stats[c]["busy"] + cpu_stats[c]["idle"] <= MaxTime
       /\ \A f \in Fields :
            /\ cpu_stats[c].source.load = 0 => cpu_stats[c][f] <= counter[c][f] \div Ratio
            /\ cpu_stats[c].source.load = loads /\ loads # 0 => cpu_stats[c][f] <= page[c][f]

\* What is read of an entry is between the last sample of its source and the page, and is
\* what the page says unless the entry was rewritten meanwhile.
Readable(f, v) ==
  LET c == sampler.cpu
  IN /\ v \in Nat /\ v <= page[c][f]
     /\ cpu_stats[c] # Nothing /\ cpu_stats[c].source.load = loads => cpu_stats[c][f] <= v
     /\ ~dirty => v = page[c][f]

HasRead(f) == Readable(f, sampler.values[f])

\* What it read for the shares is no more than what it will read for the copy.
ReadingInv ==
  LET c == sampler.cpu
  IN /\ \A f \in Fields : sampler.values[f] = Nothing \/ HasRead(f)
     /\ sampler.field = "idle" => HasRead("busy")
     /\ sampler.at \in {"total", "parts"} => cpu_stats[c] # Nothing /\ report[c] = Nothing
     /\ sampler.at = "parts" =>
          /\ \A f \in Fields : HasRead(f)
          /\ sampler.total \in 0..MaxTime
          /\ sampler.total <= sampler.values["busy"] + (sampler.values["idle"] % Wrap)
          /\ ~dirty => sampler.total = sampler.values["busy"] + (sampler.values["idle"] % Wrap)
          /\ TimePassed(c, sampler.total)
     /\ sampler.at = "copy" /\ report[c] # Nothing =>
          /\ cpu_stats[c] # Nothing
          /\ \A f \in Fields :
               /\ HasRead(f)
               /\ Sound(report[c]) => report[c].parts[f] <= sampler.values[f] - cpu_stats[c][f]

AtName  == [at : {"name"}, cpu : Cpus, load : Nat, ready : BOOLEAN]
AtField == [at : {"total", "parts", "copy"}, cpu : Cpus, load : Nat, ready : BOOLEAN,
            field : Fields, values : [Fields -> Nat \cup {Nothing}], total : Nat]

\* A round reads the page of one load of the module, which cannot be unloaded meanwhile.
SamplerInv ==
  sampler # Idle =>
    /\ sampler \in AtName \cup AtField
    /\ sampler.load = loads /\ loads # 0 /\ module # "absent"
    /\ \A c \in Cpus : c > sampler.cpu => report[c] = Nothing
    /\ sampler \in AtName => report[sampler.cpu] = Nothing
    /\ sampler \in AtField => ReadingInv

Report == [total : Int, parts : [Fields -> Int], like : BOOLEAN, wrapped : BOOLEAN,
           elapsed : Int, lost : Int, dirty : BOOLEAN]

\* What NoneNegative and PartsAddUp say of a report.
Right(r) ==
  Sound(r) =>
    /\ r.parts["busy"] >= 0 /\ r.parts["idle"] >= 0
    /\ r.parts["busy"] + r.parts["idle"] + r.lost >= r.total
    /\ ~r.dirty => r.parts["busy"] + r.parts["idle"] <= r.total + r.lost

ReportInv ==
  /\ report \in [Cpus -> Report \cup {Nothing}]
  /\ \A c \in Cpus : report[c] # Nothing => Right(report[c])

ShownInv ==
  /\ shown \in [Cpus -> [first : [Fields -> Nat] \cup {Nothing}, sum : [Fields -> Int]]]
  /\ \A c \in Cpus : cpu_stats[c] # Nothing =>
       /\ shown[c].first \in [Fields -> Nat]
       /\ \A f \in Fields : shown[c].sum[f] <= cpu_stats[c][f] - shown[c].first[f]

CpuInv == PageInv /\ SampleInv /\ SamplerInv /\ ReportInv /\ ShownInv

\* Division by a positive number keeps the order.
LEMMA Divided ==
  ASSUME NEW d \in Nat \ {0}, NEW a \in Nat, NEW b \in Nat, a <= b
  PROVE  /\ a \div d \in Nat /\ b \div d \in Nat
         /\ a \div d <= b \div d /\ a \div d <= a
<1>. DEFINE p == a \div d  q == b \div d
<1>1. p \in Nat /\ q \in Nat
  OBVIOUS
<1>2. a = d * p + (a % d) /\ a % d \in 0..(d - 1)
  OBVIOUS
<1>3. b = d * q + (b % d) /\ b % d \in 0..(d - 1)
  OBVIOUS
<1>4. ASSUME p > q PROVE FALSE
  <2>1. d * p >= d * (q + 1)
    BY <1>1, <1>4
  <2>. QED  BY <1>1, <1>2, <1>3, <2>1
<1>5. d * p >= p
  BY <1>1
<1>. QED  BY <1>1, <1>2, <1>4, <1>5

\* A clock tick is a number of jiffies.
LEMMA Ticks ==
  ASSUME NEW a \in Nat, NEW b \in Nat, a <= b
  PROVE  /\ a \div Ratio \in Nat /\ b \div Ratio \in Nat
         /\ a \div Ratio <= b \div Ratio /\ a \div Ratio <= a
BY CpuSamplingAssumption, Divided

\* The idle time of the page: what is left of a time that grows, if it has not started
\* again, or started again once.
LEMMA Wrapping ==
  ASSUME NEW a \in Nat, NEW b \in Nat, a <= b
  PROVE  /\ a % Wrap \in Nat /\ b % Wrap \in Nat /\ a % Wrap <= a
         /\ a \div Wrap = b \div Wrap => (b % Wrap) - (a % Wrap) = b - a
         /\ a \div Wrap # b \div Wrap => (b % Wrap) - (a % Wrap) <= (b - a) - Wrap
<1>. PICK d \in Nat \ {0} : d = Wrap
  BY CpuSamplingAssumption
<1>. DEFINE p == a \div d  q == b \div d
<1>1. p \in Nat /\ q \in Nat /\ p <= q
  BY Divided
<1>2. a = d * p + (a % d) /\ a % d \in 0..(d - 1)
  OBVIOUS
<1>3. b = d * q + (b % d) /\ b % d \in 0..(d - 1)
  OBVIOUS
<1>4. d * p \in Nat /\ d * q \in Nat
  BY <1>1
<1>5. p # q => d * q >= d * p + d
  <2>1. p # q => d * q >= d * (p + 1)
    BY <1>1
  <2>. QED  BY <1>1, <2>1
<1>6. p = q => d * p = d * q
  OBVIOUS
<1>. HIDE DEF p, q
<1>7. /\ a % d \in Nat /\ b % d \in Nat /\ a % d <= a
      /\ p = q => (b % d) - (a % d) = b - a
      /\ p # q => (b % d) - (a % d) <= (b - a) - d
  BY <1>2, <1>3, <1>4, <1>5, <1>6
<1>. QED  BY <1>7 DEF p, q

\* What the program has of the values it read is no more than was there.
LEMMA Storing ==
  ASSUME NEW src, NEW w, w["busy"] \in Nat, w["idle"] \in Nat,
         w["busy"] + w["idle"] <= MaxTime
  PROVE  /\ Stored(src, w) \in [Fields -> Nat]
         /\ Stored(src, w)["busy"] = w["busy"]
         /\ Stored(src, w)["idle"] = (IF src = Proc THEN w["idle"] ELSE w["idle"] % Wrap)
         /\ Total(Stored(src, w)) = Stored(src, w)["busy"] + Stored(src, w)["idle"]
         /\ Total(Stored(src, w)) \in 0..MaxTime
<1>1. w["idle"] % Wrap \in Nat /\ w["idle"] % Wrap <= w["idle"]
  BY Wrapping
<1>2. PICK k : k = IF src = Proc THEN w["idle"] ELSE w["idle"] % Wrap
  OBVIOUS
<1>3. k \in Nat /\ k <= w["idle"]
  BY <1>1, <1>2
<1>4. PICK s : s = Stored(src, w)
  OBVIOUS
<1>5. s = [f \in Fields |-> IF f = "idle" THEN k ELSE w["busy"]]
  <2>1. \A f \in Fields :
          (IF f = "idle" /\ src # Proc THEN w[f] % Wrap ELSE w[f])
            = (IF f = "idle" THEN k ELSE w["busy"])
    BY <1>2 DEF Fields
  <2>. QED  BY <1>4, <2>1 DEF Stored
<1>6. s["busy"] = w["busy"] /\ s["idle"] = k /\ s \in [Fields -> Nat]
  BY <1>3, <1>5 DEF Fields
<1>7. MaxTime \in Nat
  BY CpuSamplingAssumption
<1>8. Total(s) = s["busy"] + s["idle"] /\ Total(s) \in 0..MaxTime
  BY <1>3, <1>6, <1>7 DEF Total
<1>. QED  BY <1>2, <1>4, <1>6, <1>8

\* A float is near the integer it holds.
LEMMA Floats ==
  ASSUME NEW m \in 0..MaxTime, NEW n \in 0..MaxTime
  PROVE  /\ Float[m] \in Nat /\ m \div Precision \in Nat
         /\ m <= n => Float[m] <= Float[n]
         /\ m <= Float[m] + m \div Precision
         /\ Float[m] <= m + m \div Precision
<1>1. MaxTime \in Nat /\ Precision \in Nat \ {0}
  BY CpuSamplingAssumption
<1>2. m \div Precision \in Nat
  BY <1>1, Divided
<1>. QED  BY <1>1, <1>2, FloatAssumption

\* What a report says, if what was read for it does not run behind the last sample: the
\* total when the time was found to have passed, the rest afterwards.
LEMMA Reporting ==
  ASSUME NEW c, NEW src, NEW total \in 0..MaxTime, NEW w, NEW torn \in BOOLEAN,
         w["busy"] \in Nat, w["idle"] \in Nat,
         cpu_stats[c]["busy"] \in Nat, cpu_stats[c]["idle"] \in Nat,
         w["busy"] + w["idle"] <= MaxTime,
         cpu_stats[c]["busy"] + cpu_stats[c]["idle"] <= MaxTime,
         TimePassed(c, total),
         cpu_stats[c].source = src =>
           /\ cpu_stats[c]["busy"] <= w["busy"] /\ cpu_stats[c]["idle"] <= w["idle"]
           /\ src = Proc \/ w["idle"] \div Wrap = cpu_stats[c]["idle"] \div Wrap =>
                total <= Total(Stored(src, w)),
         ~torn => total = Total(Stored(src, w))
  PROVE  /\ Reported(c, src, total, w, torn) \in Report
         /\ Right(Reported(c, src, total, w, torn))
         /\ Sound(Reported(c, src, total, w, torn)) =>
              /\ cpu_stats[c].source = src
              /\ \A f \in Fields :
                   Reported(c, src, total, w, torn).parts[f] = w[f] - cpu_stats[c][f]
<1>. DEFINE old == cpu_stats[c]
<1>1. PICK st : st = Stored(src, w)
  OBVIOUS
<1>2. PICK last : last = LastStored(c)
  OBVIOUS
<1>3. /\ st \in [Fields -> Nat] /\ st["busy"] = w["busy"]
      /\ st["idle"] = (IF src = Proc THEN w["idle"] ELSE w["idle"] % Wrap)
      /\ Total(st) = st["busy"] + st["idle"] /\ Total(st) \in 0..MaxTime
  BY <1>1, Storing
<1>4. /\ last \in [Fields -> Nat] /\ last["busy"] = old["busy"]
      /\ last["idle"] = (IF old.source = Proc THEN old["idle"] ELSE old["idle"] % Wrap)
      /\ Total(last) = last["busy"] + last["idle"] /\ Total(last) \in 0..MaxTime
  <2>1. last = Stored(old.source, old)
    BY <1>2 DEF LastStored
  <2>. QED  BY <2>1, Storing
<1>5. PICK before \in 0..MaxTime : before = Total(last)
  BY <1>4
<1>6. PICK p \in [Fields -> Int] :
        /\ p = Parts(st, last)
        /\ p["busy"] = st["busy"] - last["busy"] /\ p["idle"] = st["idle"] - last["idle"]
  <2>1. PICK p : p = Parts(st, last)
    OBVIOUS
  <2>2. \A f \in Fields : st[f] - last[f] \in Int
    BY <1>3, <1>4
  <2>. QED  BY <2>1, <2>2 DEF Parts, Fields
<1>7. PICK l \in BOOLEAN : l = (src.ready /\ old.source = src)
  OBVIOUS
<1>8. l => old.source = src
  BY <1>7, Zenon
<1>9. PICK wr \in BOOLEAN : wr = (src # Proc /\ w.idle \div Wrap # old.idle \div Wrap)
  OBVIOUS
<1>10. ~wr => src = Proc \/ w["idle"] \div Wrap = old["idle"] \div Wrap
  BY <1>9, Zenon
<1>11. wr => src # Proc /\ w["idle"] \div Wrap # old["idle"] \div Wrap
  BY <1>9, Zenon
<1>12. PICK e \in Int : /\ e = Total(w) - Total(old)
                       /\ e = (w["busy"] + w["idle"]) - (old["busy"] + old["idle"])
  <2>1. Total(w) = w["busy"] + w["idle"] /\ Total(old) = old["busy"] + old["idle"]
    BY DEF Total
  <2>. QED  BY <2>1
<1>13. PICK lost \in Int : lost = total \div Precision + before \div Precision
  BY Floats
<1>14. PICK t \in Int : t = Float[total] - Float[before]
  BY Floats
<1>15. PICK r : r = Reported(c, src, total, w, torn)
  OBVIOUS
<1>16. r = [total |-> t, parts |-> p, like |-> l, wrapped |-> wr, elapsed |-> e,
            lost |-> lost, dirty |-> torn]
  BY <1>1, <1>2, <1>5, <1>6, <1>7, <1>9, <1>12, <1>13, <1>14, <1>15 DEF Reported
<1>17. /\ r \in Report
       /\ r.total = t /\ r.parts = p /\ r.like = l /\ r.wrapped = wr /\ r.elapsed = e
       /\ r.lost = lost /\ r.dirty = torn
  BY <1>16 DEF Report
<1>18. t > 0
  BY <1>2, <1>5, <1>14, Floats DEF TimePassed
<1>19. ~torn => total = Total(st)
  BY <1>1
\* A sound report is of two samples between which the idle time did not start again: it
\* would have found no time passed.
<1>20. ASSUME Sound(r) PROVE old.source = src /\ ~wr
  <2>1. l /\ (wr => ~torn /\ e < Wrap)
    BY <1>17, <1>20 DEF Sound
  <2>2. old.source = src /\ old["busy"] <= w["busy"] /\ old["idle"] <= w["idle"]
    BY <1>8, <2>1
  <2>3. ASSUME wr PROVE FALSE
    <3>1. src # Proc /\ w["idle"] \div Wrap # old["idle"] \div Wrap
      BY <1>11, <2>3
    <3>2. (w["idle"] % Wrap) - (old["idle"] % Wrap) <= (w["idle"] - old["idle"]) - Wrap
      BY <2>2, <3>1, Wrapping
    <3>3. w["idle"] % Wrap \in Nat /\ old["idle"] % Wrap \in Nat /\ Wrap \in Nat
      BY <2>2, Wrapping, CpuSamplingAssumption
    <3>4. total = w["busy"] + (w["idle"] % Wrap)
      BY <1>3, <1>19, <2>1, <2>3, <3>1
    <3>5. before = old["busy"] + (old["idle"] % Wrap)
      BY <1>4, <1>5, <2>2, <3>1
    <3>6. (w["busy"] + w["idle"]) - (old["busy"] + old["idle"]) < Wrap
      BY <1>12, <2>1, <2>3
    <3>7. total <= before
      BY <3>2, <3>3, <3>4, <3>5, <3>6
    <3>8. Float[total] <= Float[before]
      BY <3>7, Floats
    <3>. QED  BY <1>14, <1>18, <3>8, Floats
  <2>. QED  BY <2>2, <2>3
<1>21. ASSUME Sound(r)
       PROVE  /\ old.source = src
              /\ p["busy"] = w["busy"] - old["busy"] /\ p["idle"] = w["idle"] - old["idle"]
              /\ p["busy"] >= 0 /\ p["idle"] >= 0
              /\ p["busy"] + p["idle"] + lost >= t
              /\ ~torn => p["busy"] + p["idle"] <= t + lost
  <2>1. /\ old.source = src
        /\ src = Proc \/ w["idle"] \div Wrap = old["idle"] \div Wrap
        /\ old["busy"] <= w["busy"] /\ old["idle"] <= w["idle"]
        /\ total <= Total(st)
    BY <1>1, <1>10, <1>20, <1>21
  <2>2. st["idle"] - last["idle"] = w["idle"] - old["idle"]
    <3>1. CASE src = Proc
      <4>1. st["idle"] = w["idle"]
        BY <1>3, <3>1
      <4>2. last["idle"] = old["idle"]
        BY <1>4, <2>1, <3>1
      <4>. QED  BY <4>1, <4>2
    <3>2. CASE src # Proc
      <4>1. (w["idle"] % Wrap) - (old["idle"] % Wrap) = w["idle"] - old["idle"]
        BY <2>1, <3>2, Wrapping
      <4>2. st["idle"] = w["idle"] % Wrap
        BY <1>3, <3>2
      <4>3. last["idle"] = old["idle"] % Wrap
        BY <1>4, <2>1, <3>2
      <4>. QED  BY <4>1, <4>2, <4>3
    <3>. QED  BY <3>1, <3>2
  <2>3. p["busy"] = w["busy"] - old["busy"] /\ p["idle"] = w["idle"] - old["idle"]
    BY <1>3, <1>4, <1>6, <2>2
  <2>4. /\ Total(st) = p["busy"] + p["idle"] + before
        /\ Total(st) \in Nat /\ p["busy"] \in Int /\ p["idle"] \in Int
    <3>1. /\ st["busy"] \in Nat /\ st["idle"] \in Nat
          /\ last["busy"] \in Nat /\ last["idle"] \in Nat
      BY <1>3, <1>4 DEF Fields
    <3>. QED  BY <1>3, <1>4, <1>5, <1>6, <3>1
  <2>5. /\ Float[total] <= total + total \div Precision
        /\ total <= Float[total] + total \div Precision
        /\ Float[before] <= before + before \div Precision
        /\ before <= Float[before] + before \div Precision
        /\ Float[total] \in Nat /\ Float[before] \in Nat
        /\ total \div Precision \in Nat /\ before \div Precision \in Nat
        /\ total \in Nat /\ before \in Nat
    BY Floats
  <2>6. p["busy"] + p["idle"] + lost >= t
    BY <1>13, <1>14, <2>1, <2>4, <2>5
  <2>7. ~torn => p["busy"] + p["idle"] <= t + lost
    BY <1>13, <1>14, <1>19, <2>4, <2>5
  <2>8. p["busy"] >= 0 /\ p["idle"] >= 0
    BY <2>1, <2>3
  <2>. QED  BY <2>1, <2>3, <2>6, <2>7, <2>8
<1>22. Right(r)
  BY <1>17, <1>21 DEF Right
<1>23. Sound(r) => /\ old.source = src
                   /\ \A f \in Fields : r.parts[f] = w[f] - old[f]
  BY <1>17, <1>21 DEF Fields
<1>. QED  BY <1>15, <1>17, <1>22, <1>23

LEMMA CpuInvInit ==
  ASSUME CpuInit
  PROVE  CpuInv
<1>. USE DEF CpuInit, Fields, Zero, NotNamed
<1>1. PageInv
  <2>1. /\ counter \in [Cpus -> [Fields -> Nat]]
        /\ \A c \in Cpus : \A f \in Fields : counter[c][f] = 0
    OBVIOUS
  <2>2. /\ page \in [Cpus -> [named : BOOLEAN, busy : Nat, idle : Nat]]
        /\ \A c \in Cpus : \A f \in Fields : page[c][f] = 0
    OBVIOUS
  <2>3. loads = 0 /\ dirty = FALSE /\ writer = Nothing /\ module = "absent"
    OBVIOUS
  <2>5. MaxTime \in Nat
    BY CpuSamplingAssumption
  <2>. HIDE DEF CpuInit
  <2>6. \A c \in Cpus : counter[c]["busy"] + counter[c]["idle"] <= MaxTime
    BY <2>1, <2>5
  <2>4. \A c \in Cpus : \A f \in Fields : page[c][f] <= counter[c][f]
    BY <2>1, <2>2
  <2>. QED  BY <2>1, <2>2, <2>3, <2>4, <2>6 DEF PageInv
<1>2. SampleInv /\ SamplerInv
  BY DEF SampleInv, SamplerInv
<1>3. ReportInv /\ ShownInv
  BY DEF ReportInv, ShownInv
<1>. QED  BY <1>1, <1>2, <1>3 DEF CpuInv

\* What a step of the kernel, other than loading the module, leaves the monitor with.
Forward ==
  /\ loads' = loads
  /\ \A c \in Cpus : \A f \in Fields : page[c][f] <= page'[c][f] /\ counter[c][f] <= counter'[c][f]
  /\ dirty => dirty'
  /\ sampler # Idle =>
       /\ module # "absent" => module' # "absent"
       /\ ~dirty' => \A f \in Fields : page'[sampler.cpu][f] = page[sampler.cpu][f]
  /\ UNCHANGED <<sampler, cpu_stats, report, shown>>

LEMMA TickForward ==
  ASSUME PageInv, Tick
  PROVE  PageInv' /\ Forward
<1>. USE DEF Tick, history, Fields, PageInv
<1>1. /\ counter' \in [Cpus -> [Fields -> Nat]]
      /\ \A c \in Cpus : \A f \in Fields : counter[c][f] <= counter'[c][f]
      /\ \A c \in Cpus : counter'[c]["busy"] + counter'[c]["idle"] <= MaxTime
  <2>1. PICK working : counter' = [c \in Cpus |->
          IF c \in working THEN [counter[c] EXCEPT !.busy = @ + 1]
                           ELSE [counter[c] EXCEPT !.idle = @ + 1]]
    OBVIOUS
  <2>2. ASSUME NEW c \in Cpus
        PROVE  /\ counter'[c] \in [Fields -> Nat]
               /\ \A f \in Fields : counter[c][f] <= counter'[c][f]
               /\ counter'[c]["busy"] + counter'[c]["idle"] <= MaxTime
    <3>1. PICK k \in [Fields -> Nat] : k = counter[c]
      OBVIOUS
    <3>0. k["busy"] + k["idle"] < MaxTime /\ MaxTime \in Nat
      BY <3>1, CpuSamplingAssumption
    <3>2. PICK n : n = counter'[c]
      OBVIOUS
    <3>3. n = IF c \in working THEN [k EXCEPT !.busy = @ + 1] ELSE [k EXCEPT !.idle = @ + 1]
      BY <2>1, <3>1, <3>2
    <3>. HIDE DEF Tick, PageInv
    <3>4. /\ n \in [Fields -> Nat]
          /\ \/ n["busy"] = k["busy"] + 1 /\ n["idle"] = k["idle"]
             \/ n["busy"] = k["busy"] /\ n["idle"] = k["idle"] + 1
      BY <3>3
    <3>. QED  BY <3>0, <3>1, <3>2, <3>4
  <2>. QED  BY <2>1, <2>2
<1>2. \A c \in Cpus : \A f \in Fields : page[c][f] \in Nat
  OBVIOUS
<1>3. \A c \in Cpus : \A f \in Fields : page'[c][f] <= counter'[c][f]
  BY <1>1, <1>2
<1>. QED  BY <1>1, <1>2, <1>3 DEF Forward

LEMMA WriteForward ==
  ASSUME PageInv, WriteField
  PROVE  PageInv' /\ Forward
<1>. USE DEF history, Fields
<1>. DEFINE c == writer.cpu
<1>1. c \in Cpus /\ writer.field \in {"named", "busy", "idle"}
  BY DEF PageInv, WriteField
<1>0. /\ page \in [Cpus -> [named : BOOLEAN, busy : Nat, idle : Nat]]
      /\ counter[c] \in [Fields -> Nat]
      /\ \A f \in Fields : page[c][f] <= counter[c][f]
  BY <1>1 DEF PageInv
<1>2. PICK e \in [named : BOOLEAN, busy : Nat, idle : Nat] :
        /\ page' = [page EXCEPT ![c] = e]
        /\ \A f \in Fields : page[c][f] <= e[f] /\ e[f] <= counter[c][f]
        /\ ~dirty' => sampler = Idle \/ sampler.cpu # c \/ \A f \in Fields : e[f] = page[c][f]
  <2>1. CASE writer.field = "named"
    <3>. DEFINE e == [page[c] EXCEPT !.named = TRUE]
    <3>1. page' = [page EXCEPT ![c] = e]
      BY <2>1 DEF WriteField
    <3>2. e \in [named : BOOLEAN, busy : Nat, idle : Nat]
      BY <1>0, <1>1
    <3>3. \A f \in Fields : page[c][f] <= e[f] /\ e[f] <= counter[c][f]
      BY <1>0, <1>1
    <3>4. ~dirty' => sampler = Idle \/ sampler.cpu # c \/ \A f \in Fields : e[f] = page[c][f]
      BY <1>0, <1>1, <2>1 DEF WriteField
    <3>. HIDE DEF e
    <3>. QED  BY <3>1, <3>2, <3>3, <3>4
  <2>2. CASE writer.field = "busy"
    <3>. DEFINE e == [named |-> page[c].named, busy |-> counter[c].busy, idle |-> page[c].idle]
    <3>1. page' = [page EXCEPT ![c] = [page[c] EXCEPT !.busy = counter[c].busy]]
      BY <2>2 DEF WriteField
    <3>2. e = [page[c] EXCEPT !.busy = counter[c].busy] /\ e \in [named : BOOLEAN, busy : Nat, idle : Nat]
      BY <1>0, <1>1
    <3>3. \A f \in Fields : page[c][f] <= e[f] /\ e[f] <= counter[c][f]
      BY <1>0, <1>1
    <3>4. ~dirty' => sampler = Idle \/ sampler.cpu # c \/ \A f \in Fields : e[f] = page[c][f]
      BY <1>0, <1>1, <2>2 DEF WriteField
    <3>. HIDE DEF e
    <3>. QED  BY <3>1, <3>2, <3>3, <3>4
  <2>3. CASE writer.field = "idle"
    <3>. DEFINE e == [named |-> page[c].named, busy |-> page[c].busy, idle |-> counter[c].idle]
    <3>1. page' = [page EXCEPT ![c] = [page[c] EXCEPT !.idle = counter[c].idle]]
      BY <2>3 DEF WriteField
    <3>2. e = [page[c] EXCEPT !.idle = counter[c].idle] /\ e \in [named : BOOLEAN, busy : Nat, idle : Nat]
      BY <1>0, <1>1
    <3>3. \A f \in Fields : page[c][f] <= e[f] /\ e[f] <= counter[c][f]
      BY <1>0, <1>1
    <3>4. ~dirty' => sampler = Idle \/ sampler.cpu # c \/ \A f \in Fields : e[f] = page[c][f]
      BY <1>0, <1>1, <2>3 DEF WriteField
    <3>. HIDE DEF e
    <3>. QED  BY <3>1, <3>2, <3>3, <3>4
  <2>. QED  BY <1>1, <2>1, <2>2, <2>3
<1>3. module # "absent" /\ module' # "absent"
  BY DEF PageInv, WriteField
<1>4. writer' # Nothing => writer'.cpu \in Cpus /\ writer'.field \in {"named", "busy", "idle"}
  BY <1>1, CpuSamplingAssumption DEF WriteField, Cpus
<1>5. /\ UNCHANGED <<counter, loads, sampler, cpu_stats, report, shown>>
      /\ dirty \in BOOLEAN => dirty' \in BOOLEAN /\ (dirty => dirty')
      /\ module # "absent" => module' # "absent"
  BY DEF WriteField
<1>. HIDE DEF c
<1>. QED  BY <1>1, <1>2, <1>3, <1>5, <1>4 DEF PageInv, Forward

LEMMA ForwardKeeps ==
  ASSUME CpuInv, PageInv', Forward
  PROVE  CpuInv'
<1>. USE DEF Fields
<1>0. PageInv /\ SampleInv /\ SamplerInv /\ ReportInv /\ ShownInv
  BY DEF CpuInv
<1>1. /\ UNCHANGED <<loads, sampler, cpu_stats, report, shown>>
      /\ \A c \in Cpus : \A f \in Fields :
           /\ page[c][f] \in Nat /\ page'[c][f] \in Nat /\ page[c][f] <= page'[c][f]
           /\ counter[c][f] \in Nat /\ counter'[c][f] \in Nat /\ counter[c][f] <= counter'[c][f]
  BY <1>0 DEF PageInv, Forward
<1>2. SampleInv'
  <2>1. cpu_stats' \in [Cpus -> [busy : Nat, idle : Nat, source : [load : Nat, ready : BOOLEAN]]
                              \cup {Nothing}]
    BY <1>0, <1>1 DEF SampleInv
  <2>2. ASSUME NEW c \in Cpus, cpu_stats[c] # Nothing
        PROVE  /\ cpu_stats[c].source.load <= loads
               /\ cpu_stats[c]["busy"] + cpu_stats[c]["idle"] <= MaxTime
               /\ \A f \in Fields :
                    /\ cpu_stats[c].source.load = 0 => cpu_stats[c][f] <= counter'[c][f] \div Ratio
                    /\ cpu_stats[c].source.load = loads /\ loads # 0 => cpu_stats[c][f] <= page'[c][f]
    <3>. DEFINE l == cpu_stats[c].source.load
    <3>1. /\ l <= loads
          /\ cpu_stats[c]["busy"] + cpu_stats[c]["idle"] <= MaxTime
          /\ \A f \in Fields :
               /\ cpu_stats[c][f] \in Nat
               /\ l = 0 => cpu_stats[c][f] <= counter[c][f] \div Ratio
               /\ l = loads /\ loads # 0 => cpu_stats[c][f] <= page[c][f]
      BY <1>0, <2>2 DEF SampleInv
    <3>2. ASSUME NEW f \in Fields
          PROVE  counter[c][f] \div Ratio <= counter'[c][f] \div Ratio
                 /\ counter[c][f] \div Ratio \in Nat /\ counter'[c][f] \div Ratio \in Nat
      <4>1. counter[c][f] \in Nat /\ counter'[c][f] \in Nat /\ counter[c][f] <= counter'[c][f]
        BY <1>1
      <4>. QED  BY <4>1, Ticks
    <3>. HIDE DEF l
    <3>3. ASSUME NEW f \in Fields
          PROVE  /\ l = 0 => cpu_stats[c][f] <= counter'[c][f] \div Ratio
                 /\ l = loads /\ loads # 0 => cpu_stats[c][f] <= page'[c][f]
      BY <1>1, <3>1, <3>2
    <3>. QED  BY <3>1, <3>3 DEF l
  <2>. QED  BY <1>1, <2>1, <2>2 DEF SampleInv
<1>3. SamplerInv'
  <2>. SUFFICES ASSUME sampler # Idle
                PROVE  /\ sampler \in AtName \cup AtField
                       /\ sampler.load = loads /\ loads # 0 /\ module' # "absent"
                       /\ \A c \in Cpus : c > sampler.cpu => report[c] = Nothing
                       /\ sampler \in AtName => report[sampler.cpu] = Nothing
                       /\ sampler \in AtField => ReadingInv'
    BY <1>1 DEF SamplerInv
  <2>1. /\ sampler \in AtName \cup AtField
        /\ sampler.load = loads /\ loads # 0 /\ module' # "absent"
        /\ \A c \in Cpus : c > sampler.cpu => report[c] = Nothing
        /\ sampler \in AtName => report[sampler.cpu] = Nothing
        /\ sampler \in AtField => ReadingInv
    BY <1>0 DEF SamplerInv, Forward
  <2>2. ASSUME sampler \in AtField PROVE ReadingInv'
    <3>1. sampler.cpu \in Cpus
      BY <2>2 DEF AtField
    <3>2. ~dirty' => ~dirty /\ \A f \in Fields : page'[sampler.cpu][f] = page[sampler.cpu][f]
      BY DEF Forward
    <3>3. ASSUME NEW f \in Fields, HasRead(f) PROVE HasRead(f)'
      BY <1>1, <3>1, <3>2, <3>3 DEF HasRead, Readable
    <3>4. ReadingInv
      BY <2>1, <2>2
    <3>5. UNCHANGED <<TimePassed(sampler.cpu, sampler.total), Sound(report[sampler.cpu])>>
      BY <1>1 DEF TimePassed, LastStored, Sound
    <3>. HIDE DEF HasRead
    <3>. QED  BY <1>1, <3>2, <3>3, <3>4, <3>5 DEF ReadingInv
  <2>. QED  BY <2>1, <2>2
<1>4. ReportInv' /\ ShownInv'
  BY <1>0, <1>1 DEF ReportInv, ShownInv, Right, Sound
<1>. QED  BY <1>2, <1>3, <1>4 DEF CpuInv

LEMMA LoadKeeps ==
  ASSUME CpuInv, Load
  PROVE  CpuInv'
<1>. USE DEF Fields
<1>0. PageInv /\ SampleInv /\ SamplerInv /\ ReportInv /\ ShownInv
  BY DEF CpuInv
<1>1. /\ sampler = Idle /\ loads' = loads + 1 /\ loads \in Nat
      /\ UNCHANGED <<counter, sampler, cpu_stats, dirty, report, shown>>
  BY <1>0 DEF Load, history, SamplerInv, PageInv
<1>2. PageInv'
  <2>1. /\ page' \in [Cpus -> [named : BOOLEAN, busy : Nat, idle : Nat]]
        /\ \A c \in Cpus : \A f \in Fields : page'[c][f] = 0
    BY DEF Load, NotNamed
  <2>2. writer'.cpu \in Cpus /\ writer'.field = "named" /\ module' = "loading"
    BY CpuSamplingAssumption DEF Load, FirstField, Cpus
  <2>3. \A c \in Cpus : \A f \in Fields : counter[c][f] \in Nat
    BY <1>0 DEF PageInv
  <2>4. \A c \in Cpus : \A f \in Fields : page'[c][f] <= counter'[c][f]
    BY <1>1, <2>1, <2>3
  <2>. QED  BY <1>0, <1>1, <2>1, <2>2, <2>4 DEF PageInv
<1>3. SampleInv'
  <2>. SUFFICES ASSUME NEW c \in Cpus, cpu_stats[c] # Nothing
                PROVE  /\ cpu_stats[c].source.load <= loads'
                       /\ \A f \in Fields :
                            /\ cpu_stats[c].source.load = 0 =>
                                 cpu_stats[c][f] <= counter[c][f] \div Ratio
                            /\ cpu_stats[c].source.load # loads'
    BY <1>0, <1>1 DEF SampleInv
  <2>1. cpu_stats[c].source.load \in Nat /\ cpu_stats[c].source.load <= loads
    BY <1>0 DEF SampleInv
  <2>. QED  BY <1>0, <1>1, <2>1 DEF SampleInv
<1>4. SamplerInv' /\ ReportInv' /\ ShownInv'
  BY <1>0, <1>1 DEF SamplerInv, ReportInv, ShownInv, Right, Sound
<1>. QED  BY <1>2, <1>3, <1>4 DEF CpuInv

-----------------------------------------------------------------------------
\* What may be read of a field is readable, and no less than what was read before.
LEMMA MayReadReadable ==
  ASSUME PageInv, SampleInv, SamplerInv, sampler \in AtField, NEW f \in Fields,
         NEW v \in MayRead(f)
  PROVE  /\ Readable(f, v)
         /\ HasRead(f) => sampler.values[f] <= v
<1>. USE DEF Fields
<1>1. /\ sampler.cpu \in Cpus /\ ReadingInv /\ sampler.load = loads /\ loads # 0
  BY DEF SamplerInv, AtField, Idle
<1>2. sampler.values[f] = Nothing \/ HasRead(f)
  BY <1>1 DEF ReadingInv
<1>3. page[sampler.cpu][f] \in Nat
  BY <1>1 DEF PageInv
<1>4. Readable(f, page[sampler.cpu][f])
  BY <1>1, <1>3 DEF SampleInv, Readable
<1>5. v = page[sampler.cpu][f] \/ (v = sampler.values[f] /\ HasRead(f))
  BY <1>2 DEF MayRead
<1>6. HasRead(f) => sampler.values[f] \in Nat /\ sampler.values[f] <= page[sampler.cpu][f]
  BY DEF HasRead, Readable
<1>. QED  BY <1>2, <1>3, <1>4, <1>5, <1>6 DEF HasRead

LEMMA OpenKeeps ==
  ASSUME CpuInv, OpenDevice
  PROVE  CpuInv'
<1>0. PageInv /\ SampleInv /\ SamplerInv /\ ReportInv /\ ShownInv
  BY DEF CpuInv
<1>1. /\ UNCHANGED <<counter, module, loads, page, writer, cpu_stats, dirty, shown>>
      /\ module # "absent"
      /\ sampler' = [at |-> "name", cpu |-> 0, load |-> loads, ready |-> module = "loaded"]
      /\ report' = [c \in Cpus |-> Nothing]
  BY DEF OpenDevice, collector
<1>2. PageInv' /\ SampleInv'
  BY <1>0, <1>1 DEF PageInv, SampleInv
<1>3. ShownInv'
  BY <1>0, <1>1 DEF ShownInv
<1>4. ReportInv'
  BY <1>1 DEF ReportInv
<1>5. loads # 0 /\ loads \in Nat /\ 0 \in Cpus
  BY <1>0, <1>1, CpuSamplingAssumption DEF PageInv, Cpus
<1>6. SamplerInv'
  <2>1. sampler' \in AtName /\ sampler' \notin AtField
    <3>1. sampler' \in AtName
      BY <1>1, <1>5 DEF AtName
    <3>. QED  BY <1>1, <3>1 DEF AtField
  <2>. QED  BY <1>1, <1>5, <2>1 DEF SamplerInv
<1>. QED  BY <1>2, <1>3, <1>4, <1>6 DEF CpuInv

LEMMA NameKeeps ==
  ASSUME CpuInv, ReadName
  PROVE  CpuInv'
<1>0. PageInv /\ SampleInv /\ SamplerInv /\ ReportInv /\ ShownInv
  BY DEF CpuInv
<1>1. /\ UNCHANGED <<counter, module, loads, page, writer, cpu_stats, report, shown>>
      /\ dirty' = FALSE /\ sampler.at = "name"
  BY DEF ReadName, collector, history
<1>2. PageInv' /\ SampleInv'
  BY <1>0, <1>1 DEF PageInv, SampleInv
<1>3. ShownInv' /\ ReportInv'
  BY <1>0, <1>1 DEF ShownInv, ReportInv, Right, Sound
<1>4. /\ sampler \in AtName /\ sampler.load = loads /\ loads # 0 /\ module # "absent"
      /\ \A c \in Cpus : c > sampler.cpu => report[c] = Nothing
      /\ report[sampler.cpu] = Nothing
  BY <1>0, <1>1 DEF SamplerInv, Idle, AtField
<1>5. SamplerInv'
  <2>1. CASE sampler' = Idle
    BY <2>1 DEF SamplerInv
  <2>2. CASE sampler' # Idle
    <3>1. PICK a \in {"copy", "total"} :
            /\ a = "total" => cpu_stats[sampler.cpu] # Nothing
            /\ sampler' = [at |-> a, cpu |-> sampler.cpu, load |-> sampler.load,
                           ready |-> sampler.ready, field |-> "busy",
                           values |-> [f \in Fields |-> Nothing], total |-> 0]
      BY <2>2 DEF ReadName, Close
    <3>2. sampler' \in AtField
      BY <1>4, <3>1 DEF AtField, AtName, Fields
    <3>3. ReadingInv'
      BY <1>1, <1>4, <3>1 DEF ReadingInv, Fields
    <3>4. sampler' \notin AtName
      BY <3>1 DEF AtName
    <3>. QED  BY <1>1, <1>4, <3>1, <3>2, <3>3, <3>4 DEF SamplerInv
  <2>. QED  BY <2>1, <2>2
<1>. QED  BY <1>2, <1>3, <1>5 DEF CpuInv

LEMMA BusyKeeps ==
  ASSUME CpuInv, ReadBusy
  PROVE  CpuInv'
<1>. USE DEF Fields
<1>0. PageInv /\ SampleInv /\ SamplerInv /\ ReportInv /\ ShownInv
  BY DEF CpuInv
<1>1. /\ UNCHANGED <<counter, module, loads, page, writer, cpu_stats, dirty, report, shown>>
      /\ sampler.at \in {"total", "parts", "copy"}
  BY DEF ReadBusy, collector, history
<1>2. PageInv' /\ SampleInv' /\ ShownInv' /\ ReportInv'
  BY <1>0, <1>1 DEF PageInv, SampleInv, ShownInv, ReportInv, Right, Sound
<1>3. PICK v \in MayRead("busy") :
        sampler' = [sampler EXCEPT !.field = "idle", !.values.busy = v]
  BY DEF ReadBusy
<1>4. /\ sampler \in AtField /\ sampler \notin AtName /\ ReadingInv
      /\ sampler.load = loads /\ loads # 0 /\ module # "absent"
      /\ \A c \in Cpus : c > sampler.cpu => report[c] = Nothing
  BY <1>0, <1>1 DEF SamplerInv, Idle, AtName
<1>5. /\ Readable("busy", v)
      /\ HasRead("busy") => sampler.values["busy"] <= v
  BY <1>0, <1>4, MayReadReadable
<1>6. v \in Nat
  BY <1>5 DEF Readable
<1>7. /\ sampler' \in AtField /\ sampler' \notin AtName
      /\ sampler'.at = sampler.at /\ sampler'.cpu = sampler.cpu /\ sampler'.load = sampler.load
      /\ sampler'.field = "idle" /\ sampler'.total = sampler.total
      /\ sampler'.values["busy"] = v /\ sampler'.values["idle"] = sampler.values["idle"]
  BY <1>1, <1>3, <1>4, <1>6 DEF AtField, AtName
<1>8. \A w : \A f \in Fields : Readable(f, w) => Readable(f, w)'
  BY <1>1, <1>7 DEF Readable
<1>9. HasRead("busy")' /\ (HasRead("idle") => HasRead("idle")')
  BY <1>5, <1>7, <1>8 DEF HasRead
<1>10. ReadingInv'
  <2>1. \A f \in Fields : sampler'.values[f] = Nothing \/ HasRead(f)'
    BY <1>4, <1>7, <1>9 DEF ReadingInv
  <2>2. sampler'.at \in {"total", "parts"} => cpu_stats'[sampler'.cpu] # Nothing /\ report'[sampler'.cpu] = Nothing
    BY <1>1, <1>4, <1>7 DEF ReadingInv
  <2>3. ASSUME sampler.at = "parts"
        PROVE  /\ \A f \in Fields : HasRead(f)'
               /\ sampler'.total \in 0..MaxTime
               /\ sampler'.total <= sampler'.values["busy"] + (sampler'.values["idle"] % Wrap)
               /\ ~dirty' => sampler'.total = sampler'.values["busy"] + (sampler'.values["idle"] % Wrap)
               /\ TimePassed(sampler.cpu, sampler.total)'
    <3>1. \A f \in Fields : HasRead(f)
      BY <1>4, <2>3 DEF ReadingInv
    <3>4. TimePassed(sampler.cpu, sampler.total)'
      BY <1>1, <1>4, <1>7, <2>3 DEF ReadingInv, TimePassed, LastStored
    <3>2. /\ sampler.values["busy"] \in Nat /\ sampler.values["idle"] \in Nat
          /\ sampler.values["busy"] <= v
          /\ ~dirty => sampler.values["busy"] = v
      BY <1>5, <3>1 DEF HasRead, Readable
    <3>3. PICK i \in Nat : i = sampler.values["idle"] % Wrap
      BY <3>2, Wrapping
    <3>5. /\ sampler.total \in 0..MaxTime
          /\ sampler.total <= sampler.values["busy"] + i
          /\ ~dirty => sampler.total = sampler.values["busy"] + i
      BY <1>4, <2>3, <3>3 DEF ReadingInv
    <3>6. sampler'.total <= v + i /\ (~dirty => sampler'.total = v + i)
      BY <1>6, <1>7, <3>2, <3>3, <3>5, CpuSamplingAssumption
    <3>. QED  BY <1>1, <1>7, <1>9, <3>1, <3>3, <3>4, <3>5, <3>6
  <2>4. ASSUME sampler.at = "copy", report[sampler.cpu] # Nothing
        PROVE  /\ cpu_stats[sampler.cpu] # Nothing
               /\ \A f \in Fields :
                    /\ HasRead(f)'
                    /\ Sound(report[sampler.cpu]) =>
                         report[sampler.cpu].parts[f] <= sampler'.values[f] - cpu_stats[sampler.cpu][f]
    <3>1. /\ cpu_stats[sampler.cpu] # Nothing
          /\ \A f \in Fields :
               /\ HasRead(f)
               /\ Sound(report[sampler.cpu]) =>
                    report[sampler.cpu].parts[f] <= sampler.values[f] - cpu_stats[sampler.cpu][f]
      BY <1>4, <2>4 DEF ReadingInv
    <3>2. /\ sampler.values["busy"] \in Nat /\ sampler.values["idle"] \in Nat
          /\ sampler.values["busy"] <= v
      BY <1>5, <3>1 DEF HasRead, Readable
    <3>3. \A f \in Fields : /\ report[sampler.cpu].parts[f] \in Int
                            /\ cpu_stats[sampler.cpu][f] \in Nat
      <4>1. sampler.cpu \in Cpus
        BY <1>4 DEF AtField
      <4>. QED  BY <1>0, <2>4, <3>1, <4>1 DEF ReportInv, SampleInv, Report
    <3>4. Sound(report[sampler.cpu]) => \A f \in Fields :
            report[sampler.cpu].parts[f] <= sampler'.values[f] - cpu_stats[sampler.cpu][f]
      BY <1>6, <1>7, <3>1, <3>2, <3>3
    <3>. QED  BY <1>9, <3>1, <3>4
  <2>5. UNCHANGED Sound(report[sampler.cpu])
    BY <1>1, <1>7 DEF Sound
  <2>. QED  BY <1>1, <1>7, <1>9, <2>1, <2>2, <2>3, <2>4, <2>5 DEF ReadingInv
<1>11. SamplerInv'
  BY <1>1, <1>4, <1>7, <1>10 DEF SamplerInv
<1>. QED  BY <1>2, <1>11 DEF CpuInv

\* The reads of an entry's last field.
LEMMA LastField ==
  ASSUME PageInv, SampleInv, SamplerInv, sampler \in AtField, sampler.field = "idle",
         NEW v \in MayRead("idle")
  PROVE  /\ Readable("idle", v) /\ Readable("busy", sampler.values["busy"])
         /\ v \in Nat /\ sampler.values["busy"] \in Nat
         /\ sampler.values["busy"] + v <= MaxTime
         /\ HasRead("idle") => sampler.values["idle"] <= v
<1>1. ReadingInv /\ sampler.cpu \in Cpus
  BY DEF SamplerInv, AtField, Idle
<1>2. HasRead("busy")
  BY <1>1 DEF ReadingInv
<1>3. Readable("idle", v) /\ (HasRead("idle") => sampler.values["idle"] <= v)
  BY MayReadReadable DEF Fields
<1>4. PICK b \in Nat : b = sampler.values["busy"] /\ b <= page[sampler.cpu]["busy"]
  BY <1>2 DEF HasRead, Readable
<1>5. v \in Nat /\ v <= page[sampler.cpu]["idle"]
  BY <1>3 DEF Readable
<1>6. /\ page[sampler.cpu]["busy"] \in Nat /\ page[sampler.cpu]["idle"] \in Nat
      /\ counter[sampler.cpu]["busy"] \in Nat /\ counter[sampler.cpu]["idle"] \in Nat
      /\ page[sampler.cpu]["busy"] <= counter[sampler.cpu]["busy"]
      /\ page[sampler.cpu]["idle"] <= counter[sampler.cpu]["idle"]
      /\ counter[sampler.cpu]["busy"] + counter[sampler.cpu]["idle"] <= MaxTime
  BY <1>1 DEF PageInv, Fields
<1>7. b + v <= MaxTime
  BY <1>4, <1>5, <1>6, CpuSamplingAssumption
<1>. QED  BY <1>2, <1>3, <1>4, <1>5, <1>7 DEF HasRead

LEMMA TotalKeeps ==
  ASSUME CpuInv, ReadTotal
  PROVE  CpuInv'
<1>. USE DEF Fields
<1>0. PageInv /\ SampleInv /\ SamplerInv /\ ReportInv /\ ShownInv
  BY DEF CpuInv
<1>1. /\ UNCHANGED <<counter, module, loads, page, writer, cpu_stats, dirty, report, shown>>
      /\ sampler.at = "total" /\ sampler.field = "idle"
  BY DEF ReadTotal, collector, history
<1>2. PageInv' /\ SampleInv' /\ ShownInv' /\ ReportInv'
  BY <1>0, <1>1 DEF PageInv, SampleInv, ShownInv, ReportInv, Right, Sound
<1>3. /\ sampler \in AtField /\ sampler \notin AtName /\ ReadingInv
      /\ sampler.load = loads /\ loads # 0 /\ module # "absent"
      /\ \A c \in Cpus : c > sampler.cpu => report[c] = Nothing
  BY <1>0, <1>1 DEF SamplerInv, Idle, AtName
<1>4. PICK v \in MayRead("idle") :
        LET total == Total(Stored(Source, [sampler.values EXCEPT !.idle = v]))
        IN sampler' = [sampler EXCEPT !.field = "busy", !.values.idle = v, !.total = total,
                         !.at = IF TimePassed(sampler.cpu, total) THEN "parts" ELSE "copy"]
  BY DEF ReadTotal
<1>5. /\ Readable("idle", v) /\ Readable("busy", sampler.values["busy"])
      /\ v \in Nat /\ sampler.values["busy"] \in Nat
      /\ sampler.values["busy"] + v <= MaxTime
  BY <1>0, <1>1, <1>3, LastField
<1>6. PICK w \in [Fields -> Nat \cup {Nothing}] :
        /\ w = [sampler.values EXCEPT !.idle = v]
        /\ w["busy"] = sampler.values["busy"] /\ w["idle"] = v
  <2>1. PICK w : w = [sampler.values EXCEPT !.idle = v]
    OBVIOUS
  <2>. QED  BY <1>3, <1>5, <2>1 DEF AtField
<1>13. PICK t \in 0..MaxTime :
         /\ t = Total(Stored(Source, w))
         /\ t = sampler.values["busy"] + (v % Wrap)
  <2>1. Source # Proc
    BY <1>3 DEF Source, Proc
  <2>2. /\ Stored(Source, w)["busy"] = w["busy"]
        /\ Stored(Source, w)["idle"] = w["idle"] % Wrap
        /\ Total(Stored(Source, w)) = Stored(Source, w)["busy"] + Stored(Source, w)["idle"]
        /\ Total(Stored(Source, w)) \in 0..MaxTime
    BY <1>5, <1>6, <2>1, Storing
  <2>. QED  BY <1>6, <2>2
<1>14. PICK a \in {"copy", "parts"} :
         /\ a = IF TimePassed(sampler.cpu, t) THEN "parts" ELSE "copy"
         /\ a = "parts" => TimePassed(sampler.cpu, t)
  OBVIOUS
<1>7. /\ sampler' \in AtField /\ sampler' \notin AtName
      /\ sampler'.at = a /\ sampler'.cpu = sampler.cpu /\ sampler'.load = sampler.load
      /\ sampler'.field = "busy" /\ sampler'.total = t
      /\ sampler'.values["busy"] = sampler.values["busy"] /\ sampler'.values["idle"] = v
  <2>1. sampler' = [sampler EXCEPT !.field = "busy", !.values = w, !.total = t, !.at = a]
    BY <1>3, <1>4, <1>6, <1>13, <1>14 DEF AtField
  <2>2. sampler' = [at |-> a, cpu |-> sampler.cpu, load |-> sampler.load, ready |-> sampler.ready,
                    field |-> "busy", values |-> w, total |-> t]
    BY <1>3, <2>1 DEF AtField
  <2>3. t \in Nat
    BY CpuSamplingAssumption
  <2>4. sampler' \in AtField
    BY <1>3, <2>2, <2>3 DEF AtField
  <2>5. sampler' \notin AtName
    BY <2>2 DEF AtName
  <2>. QED  BY <1>6, <2>2, <2>4, <2>5
<1>8. \A n : \A f \in Fields : Readable(f, n) => Readable(f, n)'
  BY <1>1, <1>7 DEF Readable
<1>9. \A f \in Fields : HasRead(f)'
  BY <1>5, <1>7, <1>8 DEF HasRead
<1>10. report[sampler.cpu] = Nothing /\ cpu_stats[sampler.cpu] # Nothing
  BY <1>1, <1>3 DEF ReadingInv
<1>11. /\ sampler'.total \in 0..MaxTime
       /\ sampler'.total = sampler'.values["busy"] + (sampler'.values["idle"] % Wrap)
       /\ sampler'.at = "parts" => TimePassed(sampler.cpu, sampler.total)'
  <2>1. TimePassed(sampler.cpu, t)' <=> TimePassed(sampler.cpu, t)
    BY <1>1, <1>7 DEF TimePassed, LastStored
  <2>2. TimePassed(sampler.cpu, sampler.total)' <=> TimePassed(sampler.cpu, t)'
    BY <1>7 DEF TimePassed
  <2>. QED  BY <1>7, <1>13, <1>14, <2>1, <2>2
<1>16. sampler'.total <= sampler'.values["busy"] + (sampler'.values["idle"] % Wrap)
  BY <1>11, CpuSamplingAssumption
<1>12. ReadingInv'
  BY <1>1, <1>7, <1>9, <1>10, <1>11, <1>16 DEF ReadingInv
<1>15. SamplerInv'
  BY <1>1, <1>3, <1>7, <1>12 DEF SamplerInv
<1>. QED  BY <1>2, <1>15 DEF CpuInv

LEMMA PartsKeeps ==
  ASSUME CpuInv, ReadParts
  PROVE  CpuInv'
<1>. USE DEF Fields
<1>0. PageInv /\ SampleInv /\ SamplerInv /\ ReportInv /\ ShownInv
  BY DEF CpuInv
<1>. DEFINE c   == sampler.cpu
            old == cpu_stats[c]
<1>1. /\ UNCHANGED <<counter, module, loads, page, writer, cpu_stats, dirty, shown>>
      /\ sampler.at = "parts" /\ sampler.field = "idle"
  BY DEF ReadParts, collector
<1>2. PageInv' /\ SampleInv' /\ ShownInv'
  BY <1>0, <1>1 DEF PageInv, SampleInv, ShownInv
<1>3. /\ sampler \in AtField /\ sampler \notin AtName /\ ReadingInv
      /\ sampler.load = loads /\ loads # 0 /\ module # "absent"
      /\ \A d \in Cpus : d > c => report[d] = Nothing
      /\ c \in Cpus
  BY <1>0, <1>1 DEF SamplerInv, Idle, AtName, AtField
<1>4. PICK v \in MayRead("idle") :
        /\ sampler' = [sampler EXCEPT !.field = "busy", !.at = "copy",
                         !.values = [sampler.values EXCEPT !.idle = v]]
        /\ report' = [report EXCEPT ![c] = Reported(c, Source, sampler.total,
                                             [sampler.values EXCEPT !.idle = v], dirty)]
  BY DEF ReadParts
<1>5. /\ Readable("idle", v) /\ Readable("busy", sampler.values["busy"])
      /\ v \in Nat /\ sampler.values["busy"] \in Nat
      /\ sampler.values["busy"] + v <= MaxTime
      /\ HasRead("idle") => sampler.values["idle"] <= v
  BY <1>0, <1>1, <1>3, LastField
<1>7. /\ sampler' \in AtField /\ sampler' \notin AtName
      /\ sampler'.at = "copy" /\ sampler'.cpu = c /\ sampler'.load = sampler.load
      /\ sampler'.field = "busy" /\ sampler'.total = sampler.total
      /\ sampler'.values["busy"] = sampler.values["busy"] /\ sampler'.values["idle"] = v
  BY <1>1, <1>3, <1>4, <1>5 DEF AtField, AtName
<1>8. \A w : \A f \in Fields : Readable(f, w) => Readable(f, w)'
  BY <1>1, <1>7 DEF Readable
<1>9. \A f \in Fields : HasRead(f)'
  BY <1>5, <1>7, <1>8 DEF HasRead
<1>10. /\ old # Nothing /\ old["busy"] \in Nat /\ old["idle"] \in Nat
       /\ old["busy"] + old["idle"] <= MaxTime
       /\ sampler.total \in 0..MaxTime /\ TimePassed(c, sampler.total)
       /\ dirty \in BOOLEAN
  BY <1>0, <1>1, <1>3 DEF ReadingInv, SampleInv, AtField, PageInv
<1>6. PICK w : /\ w = [sampler.values EXCEPT !.idle = v]
               /\ w["busy"] = sampler.values["busy"] /\ w["idle"] = v
  <2>1. PICK w : w = [sampler.values EXCEPT !.idle = v]
    OBVIOUS
  <2>2. sampler.values \in [Fields -> Nat \cup {Nothing}]
    BY <1>3 DEF AtField
  <2>. QED  BY <2>1, <2>2
<1>19. /\ w["busy"] \in Nat /\ w["idle"] \in Nat
       /\ w["busy"] + w["idle"] <= MaxTime
  BY <1>5, <1>6
<1>11. PICK r : r = Reported(c, Source, sampler.total, w, dirty)
  OBVIOUS
<1>12. /\ r \in Report /\ Right(r)
       /\ Sound(r) => \A f \in Fields : r.parts[f] = w[f] - old[f]
  <2>1. Source # Proc /\ Source.load = loads
    BY <1>3 DEF Source, Proc
  <2>2. PICK i \in Nat : /\ i = sampler.values["idle"] /\ HasRead("idle")
                        /\ i <= v /\ (~dirty => i = v)
    BY <1>1, <1>3, <1>5 DEF ReadingInv, HasRead, Readable
  <2>3. /\ sampler.total <= w["busy"] + (i % Wrap)
        /\ ~dirty => sampler.total = w["busy"] + (i % Wrap)
    BY <1>1, <1>3, <1>6, <2>2 DEF ReadingInv
  <2>4. Total(Stored(Source, w)) = w["busy"] + (v % Wrap)
    <3>1. /\ Stored(Source, w)["busy"] = w["busy"]
          /\ Stored(Source, w)["idle"] = w["idle"] % Wrap
          /\ Total(Stored(Source, w)) = Stored(Source, w)["busy"] + Stored(Source, w)["idle"]
      BY <1>19, <2>1, Storing
    <3>. QED  BY <1>6, <3>1
  <2>5. ASSUME old.source = Source
        PROVE  /\ old["busy"] <= w["busy"] /\ old["idle"] <= w["idle"]
               /\ w["idle"] \div Wrap = old["idle"] \div Wrap =>
                    sampler.total <= Total(Stored(Source, w))
    <3>1. old["busy"] <= w["busy"] /\ old["idle"] <= v /\ old["idle"] <= i
      BY <1>5, <1>6, <1>10, <2>1, <2>2, <2>5 DEF Readable, HasRead
    <3>2. ASSUME w["idle"] \div Wrap = old["idle"] \div Wrap
          PROVE  i % Wrap <= v % Wrap
      <4>1. Wrap \in Nat \ {0}
        BY CpuSamplingAssumption
      <4>2. /\ old["idle"] \div Wrap <= i \div Wrap /\ i \div Wrap <= v \div Wrap
            /\ old["idle"] \div Wrap \in Nat /\ i \div Wrap \in Nat /\ v \div Wrap \in Nat
        BY <1>5, <1>10, <2>2, <3>1, <4>1, Divided
      <4>3. i \div Wrap = v \div Wrap
        BY <1>6, <3>2, <4>2
      <4>4. (v % Wrap) - (i % Wrap) = v - i /\ v % Wrap \in Nat /\ i % Wrap \in Nat
        BY <1>5, <2>2, <4>3, Wrapping
      <4>. QED  BY <1>5, <2>2, <4>4
    <3>3. sampler.total \in Nat /\ i % Wrap \in Nat /\ v % Wrap \in Nat
      <4>1. v \in Nat /\ i <= v
        BY <1>5, <2>2
      <4>2. i % Wrap \in Nat /\ v % Wrap \in Nat
        BY <4>1, Wrapping
      <4>. QED  BY <1>10, <4>2, CpuSamplingAssumption
    <3>. QED  BY <1>5, <1>6, <2>3, <2>4, <3>1, <3>2, <3>3
  <2>6. ~dirty => sampler.total = Total(Stored(Source, w))
    BY <2>2, <2>3, <2>4
  <2>7. PICK src : src = Source
    OBVIOUS
  <2>8. PICK t \in 0..MaxTime : t = sampler.total
    BY <1>10
  <2>9. PICK torn \in BOOLEAN : torn = dirty
    BY <1>10
  <2>10. r = Reported(c, src, t, w, torn)
    BY <1>11, <2>7, <2>8, <2>9
  <2>11. src # Proc /\ TimePassed(c, t)
    BY <1>10, <2>1, <2>7, <2>8
  <2>12. cpu_stats[c].source = src =>
           /\ cpu_stats[c]["busy"] <= w["busy"] /\ cpu_stats[c]["idle"] <= w["idle"]
           /\ src = Proc \/ w["idle"] \div Wrap = cpu_stats[c]["idle"] \div Wrap =>
                t <= Total(Stored(src, w))
    BY <2>5, <2>7, <2>8, <2>11
  <2>13. ~torn => t = Total(Stored(src, w))
    BY <2>6, <2>7, <2>8, <2>9
  <2>14. /\ cpu_stats[c]["busy"] \in Nat /\ cpu_stats[c]["idle"] \in Nat
         /\ cpu_stats[c]["busy"] + cpu_stats[c]["idle"] <= MaxTime
    BY <1>10
  <2>. HIDE DEF c
  <2>. QED  BY <1>19, <2>10, <2>11, <2>12, <2>13, <2>14, Reporting
<1>13. Sound(r) => \A f \in Fields : r.parts[f] <= w[f] - old[f]
  <2>1. \A f \in Fields : w[f] \in Nat /\ old[f] \in Nat
    BY <1>10, <1>19
  <2>. QED  BY <1>12, <2>1
<1>14. report' = [report EXCEPT ![c] = r] /\ report'[c] = r /\ \A d \in Cpus : d # c => report'[d] = report[d]
  BY <1>0, <1>3, <1>4, <1>6, <1>11 DEF ReportInv
<1>15. ReportInv'
  <2>1. report' \in [Cpus -> Report \cup {Nothing}]
    BY <1>0, <1>3, <1>12, <1>14 DEF ReportInv
  <2>2. \A d \in Cpus : report'[d] # Nothing => Right(report'[d])
    BY <1>0, <1>12, <1>14 DEF ReportInv
  <2>3. \A d \in Cpus : Right(report'[d]) <=> Right(report[d])'
    BY DEF Right, Sound
  <2>. QED  BY <2>1, <2>2, <2>3 DEF ReportInv
<1>16. ReadingInv'
  <2>1. Sound(report[c])' <=> Sound(r)
    BY <1>7, <1>14 DEF Sound
  <2>2. \A f \in Fields : Sound(report[c])' => r.parts[f] <= sampler'.values[f] - old[f]
    BY <1>6, <1>7, <1>13, <2>1
  <2>3. UNCHANGED cpu_stats
    BY <1>1
  <2>. HIDE DEF HasRead, Sound
  <2>. QED  BY <1>7, <1>9, <1>10, <1>14, <2>2, <2>3 DEF ReadingInv
<1>17. \A d \in Cpus : d > c => report'[d] = Nothing
  BY <1>3, <1>14 DEF Cpus
<1>18. SamplerInv'
  BY <1>1, <1>3, <1>7, <1>16, <1>17 DEF SamplerInv
<1>. QED  BY <1>2, <1>15, <1>18 DEF CpuInv

\* A sample of the same source adds what its report says, if that is sound.
Added(new, old, r) ==
  /\ new \in [first : [Fields -> Nat] \cup {Nothing}, sum : [Fields -> Int]]
  /\ new.first = old.first
  /\ \/ \A f \in Fields : new.sum[f] = old.sum[f]
     \/ /\ r # Nothing /\ Sound(r)
        /\ \A f \in Fields : new.sum[f] = old.sum[f] + r.parts[f]

LEMMA ShownAdds ==
  ASSUME NEW c, NEW src, NEW w, NEW r,
         cpu_stats[c] # Nothing, cpu_stats[c].source = src,
         shown[c] \in [first : [Fields -> Nat] \cup {Nothing}, sum : [Fields -> Int]],
         r # Nothing => r.parts \in [Fields -> Int]
  PROVE  Added(ShownNow(c, src, w, r), shown[c], r)
<1>. USE DEF Added
<1>. PICK new : new = ShownNow(c, src, w, r)
  OBVIOUS
<1>. PICK old \in [first : [Fields -> Nat] \cup {Nothing}, sum : [Fields -> Int]] : old = shown[c]
  OBVIOUS
<1>1. CASE r # Nothing /\ Sound(r)
  <2>1. new = [old EXCEPT !.sum = [f \in Fields |-> @[f] + r.parts[f]]]
    BY <1>1, Zenon DEF ShownNow
  <2>2. PICK sum : sum = [f \in Fields |-> old.sum[f] + r.parts[f]]
    OBVIOUS
  <2>3. sum \in [Fields -> Int] /\ \A f \in Fields : sum[f] = old.sum[f] + r.parts[f]
    BY <1>1, <2>2
  <2>4. new = [first |-> old.first, sum |-> sum]
    BY <2>1, <2>2
  <2>. QED  BY <1>1, <2>3, <2>4
<1>2. CASE ~(r # Nothing /\ Sound(r))
  <2>1. new = old
    BY <1>2, Zenon DEF ShownNow
  <2>. QED  BY <2>1
<1>. QED  BY <1>1, <1>2

LEMMA CopyKeeps ==
  ASSUME CpuInv, ReadCopy
  PROVE  CpuInv'
<1>. USE DEF Fields
<1>0. PageInv /\ SampleInv /\ SamplerInv /\ ReportInv /\ ShownInv
  BY DEF CpuInv
<1>. DEFINE c   == sampler.cpu
            old == cpu_stats[c]
<1>1. /\ UNCHANGED <<counter, module, loads, page, writer, dirty, report>>
      /\ sampler.at = "copy" /\ sampler.field = "idle"
  BY DEF ReadCopy, collector
<1>2. PageInv' /\ ReportInv'
  BY <1>0, <1>1 DEF PageInv, ReportInv, Right, Sound
<1>3. /\ sampler \in AtField /\ ReadingInv
      /\ sampler.load = loads /\ loads # 0 /\ module # "absent"
      /\ \A d \in Cpus : d > c => report[d] = Nothing
      /\ c \in Cpus /\ sampler.ready \in BOOLEAN /\ loads \in Nat
  <2>1. sampler \in AtField /\ sampler # Idle
    BY <1>0, <1>1 DEF SamplerInv, AtName, Idle
  <2>2. c \in Cpus /\ sampler.ready \in BOOLEAN
    BY <2>1 DEF AtField
  <2>. QED  BY <1>0, <2>1, <2>2 DEF SamplerInv, PageInv
<1>4. PICK v \in MayRead("idle") :
        /\ cpu_stats' = [cpu_stats EXCEPT ![c] =
             [busy |-> [sampler.values EXCEPT !.idle = v].busy,
              idle |-> [sampler.values EXCEPT !.idle = v].idle, source |-> Source]]
        /\ shown' = [shown EXCEPT ![c] =
             ShownNow(c, Source, [sampler.values EXCEPT !.idle = v], report[c])]
        /\ IF c = LastCpu THEN sampler' = Idle
           ELSE sampler' = [at |-> "name", cpu |-> c + 1, load |-> loads, ready |-> sampler.ready]
  BY <1>3 DEF ReadCopy, Close
<1>5. /\ Readable("idle", v) /\ Readable("busy", sampler.values["busy"])
      /\ v \in Nat /\ sampler.values["busy"] \in Nat
      /\ sampler.values["busy"] + v <= MaxTime
      /\ HasRead("idle") => sampler.values["idle"] <= v
  BY <1>0, <1>1, <1>3, LastField
<1>6. PICK w \in [Fields -> Nat] :
        /\ w = [sampler.values EXCEPT !.idle = v]
        /\ w["busy"] = sampler.values["busy"] /\ w["idle"] = v
  <2>1. sampler.values \in [Fields -> Nat \cup {Nothing}]
    BY <1>3 DEF AtField
  <2>2. PICK w : w = [sampler.values EXCEPT !.idle = v]
    OBVIOUS
  <2>3. w["busy"] = sampler.values["busy"] /\ w["idle"] = v /\ w = [f \in Fields |-> w[f]]
    BY <2>1, <2>2
  <2>4. w \in [Fields -> Nat]
    BY <1>5, <2>3
  <2>. QED  BY <2>2, <2>3, <2>4
<1>7. PICK new \in [busy : Nat, idle : Nat, source : [load : Nat, ready : BOOLEAN]] :
        /\ new = [busy |-> w.busy, idle |-> w.idle, source |-> Source]
        /\ new.source = Source /\ new.source.load = loads
        /\ new["busy"] = w["busy"] /\ new["idle"] = w["idle"]
  <2>1. Source \in [load : Nat, ready : BOOLEAN] /\ Source.load = loads
    BY <1>3 DEF Source
  <2>2. PICK src \in [load : Nat, ready : BOOLEAN] : src = Source /\ src.load = loads
    BY <2>1
  <2>3. PICK n : n = [busy |-> w.busy, idle |-> w.idle, source |-> src]
    OBVIOUS
  <2>4. /\ n \in [busy : Nat, idle : Nat, source : [load : Nat, ready : BOOLEAN]]
        /\ n.source = src /\ n["busy"] = w["busy"] /\ n["idle"] = w["idle"]
    BY <1>6, <2>2, <2>3
  <2>. QED  BY <2>2, <2>3, <2>4
<1>8. /\ cpu_stats' = [cpu_stats EXCEPT ![c] = new] /\ cpu_stats'[c] = new
      /\ \A d \in Cpus : d # c => cpu_stats'[d] = cpu_stats[d]
  BY <1>0, <1>3, <1>4, <1>6, <1>7 DEF SampleInv
<1>9. SampleInv'
  <2>1. \A f \in Fields : new[f] <= page[c][f]
    BY <1>5, <1>6, <1>7 DEF Readable
  <2>2. cpu_stats' \in [Cpus -> [busy : Nat, idle : Nat, source : [load : Nat, ready : BOOLEAN]]
                                \cup {Nothing}]
    BY <1>0, <1>8 DEF SampleInv
  <2>3. ASSUME NEW d \in Cpus, cpu_stats'[d] # Nothing
        PROVE  /\ cpu_stats'[d].source.load <= loads
               /\ cpu_stats'[d]["busy"] + cpu_stats'[d]["idle"] <= MaxTime
               /\ \A f \in Fields :
                    /\ cpu_stats'[d].source.load = 0 =>
                         cpu_stats'[d][f] <= counter[d][f] \div Ratio
                    /\ cpu_stats'[d].source.load = loads /\ loads # 0 =>
                         cpu_stats'[d][f] <= page[d][f]
    <3>1. CASE d = c
      BY <1>3, <1>5, <1>6, <1>7, <1>8, <2>1, <3>1
    <3>2. CASE d # c
      BY <1>0, <1>8, <2>3, <3>2 DEF SampleInv
    <3>. QED  BY <3>1, <3>2
  <2>. QED  BY <1>1, <2>2, <2>3 DEF SampleInv
<1>10. report[c] # Nothing => report[c].parts \in [Fields -> Int]
  BY <1>0, <1>3 DEF ReportInv, Report
<1>11. ASSUME old # Nothing, old.source = Source
       PROVE  \A f \in Fields :
                /\ old[f] \in Nat /\ old[f] <= w[f]
                /\ report[c] # Nothing /\ Sound(report[c]) => report[c].parts[f] <= w[f] - old[f]
  <2>1. old.source.load = loads /\ \A f \in Fields : old[f] \in Nat
    BY <1>0, <1>3, <1>11 DEF SampleInv, Source
  <2>2. old["busy"] <= w["busy"] /\ old["idle"] <= w["idle"]
    BY <1>5, <1>6, <1>11, <2>1 DEF Readable
  <2>3. ASSUME report[c] # Nothing, Sound(report[c])
        PROVE  \A f \in Fields : report[c].parts[f] <= w[f] - old[f]
    <3>1. \A f \in Fields : HasRead(f) /\ report[c].parts[f] <= sampler.values[f] - old[f]
      BY <1>1, <1>3, <2>3 DEF ReadingInv
    <3>2. sampler.values["idle"] \in Nat /\ sampler.values["idle"] <= v
      BY <1>5, <3>1 DEF HasRead, Readable
    <3>3. \A f \in Fields : report[c].parts[f] \in Int
      BY <1>10, <2>3
    <3>. QED  BY <1>5, <1>6, <2>1, <3>1, <3>2, <3>3
  <2>. QED  BY <2>1, <2>2, <2>3
<1>12. PICK s : s = ShownNow(c, Source, w, report[c])
  OBVIOUS
<1>13. /\ shown' = [shown EXCEPT ![c] = s] /\ shown'[c] = s
       /\ \A d \in Cpus : d # c => shown'[d] = shown[d]
  BY <1>0, <1>3, <1>4, <1>6, <1>12 DEF ShownInv
<1>14. /\ s \in [first : [Fields -> Nat] \cup {Nothing}, sum : [Fields -> Int]]
       /\ s.first \in [Fields -> Nat]
       /\ \A f \in Fields : s.sum[f] <= w[f] - s.first[f]
  <2>1. shown[c] \in [first : [Fields -> Nat] \cup {Nothing}, sum : [Fields -> Int]]
    BY <1>0, <1>3 DEF ShownInv
  <2>2. CASE old # Nothing /\ old.source = Source
    <3>1. /\ s \in [first : [Fields -> Nat] \cup {Nothing}, sum : [Fields -> Int]]
          /\ s.first = shown[c].first
          /\ \/ \A f \in Fields : s.sum[f] = shown[c].sum[f]
             \/ /\ report[c] # Nothing /\ Sound(report[c])
                /\ \A f \in Fields : s.sum[f] = shown[c].sum[f] + report[c].parts[f]
      <4>. HIDE DEF c, Fields
      <4>1. Added(s, shown[c], report[c])
        BY <1>10, <1>12, <2>1, <2>2, ShownAdds
      <4>. QED  BY <4>1, Zenon DEF Added
    <3>2. /\ shown[c].first \in [Fields -> Nat]
          /\ \A f \in Fields : shown[c].sum[f] <= old[f] - shown[c].first[f]
      BY <1>0, <1>3, <2>2 DEF ShownInv
    <3>3. \A f \in Fields :
            /\ old[f] \in Nat /\ old[f] <= w[f] /\ w[f] \in Nat
            /\ shown[c].first[f] \in Nat /\ shown[c].sum[f] \in Int
      BY <1>6, <1>11, <2>1, <2>2, <3>2
    <3>4. CASE \A f \in Fields : s.sum[f] = shown[c].sum[f]
      BY <3>1, <3>2, <3>3, <3>4
    <3>5. CASE /\ report[c] # Nothing /\ Sound(report[c])
               /\ \A f \in Fields : s.sum[f] = shown[c].sum[f] + report[c].parts[f]
      <4>1. \A f \in Fields : /\ report[c].parts[f] \in Int
                              /\ report[c].parts[f] <= w[f] - old[f]
        BY <1>10, <1>11, <2>2, <3>5
      <4>. QED  BY <3>1, <3>2, <3>3, <3>5, <4>1
    <3>. QED  BY <3>1, <3>4, <3>5
  <2>3. CASE ~(old # Nothing /\ old.source = Source)
    <3>1. s = [first |-> w, sum |-> Zero]
      BY <1>12, <2>3 DEF ShownNow
    <3>2. Zero \in [Fields -> Int] /\ \A f \in Fields : Zero[f] = 0
      BY DEF Zero
    <3>. QED  BY <1>6, <3>1, <3>2
  <2>. QED  BY <2>2, <2>3
<1>15. ShownInv'
  <2>1. ASSUME NEW d \in Cpus, cpu_stats'[d] # Nothing
        PROVE  /\ shown'[d].first \in [Fields -> Nat]
               /\ \A f \in Fields : shown'[d].sum[f] <= cpu_stats'[d][f] - shown'[d].first[f]
    <3>1. CASE d = c
      BY <1>7, <1>8, <1>13, <1>14, <3>1
    <3>2. CASE d # c
      BY <1>0, <1>8, <1>13, <2>1, <3>2 DEF ShownInv
    <3>. QED  BY <3>1, <3>2
  <2>2. shown' \in [Cpus -> [first : [Fields -> Nat] \cup {Nothing}, sum : [Fields -> Int]]]
    BY <1>0, <1>13, <1>14 DEF ShownInv
  <2>. QED  BY <2>1, <2>2 DEF ShownInv
<1>16. SamplerInv'
  <2>1. CASE c = LastCpu
    BY <1>4, <2>1 DEF SamplerInv
  <2>2. CASE c # LastCpu
    <3>1. sampler' = [at |-> "name", cpu |-> c + 1, load |-> loads, ready |-> sampler.ready]
      BY <1>4, <2>2
    <3>2. c + 1 \in Cpus /\ c + 1 > c /\ \A d \in Cpus : d > c + 1 => d > c
      BY <1>3, <2>2, CpuSamplingAssumption DEF Cpus
    <3>3. sampler' \in AtName /\ sampler' \notin AtField
      <4>1. sampler' \in AtName
        BY <1>3, <3>1, <3>2 DEF AtName
      <4>. QED  BY <3>1, <4>1 DEF AtField
    <3>. QED  BY <1>1, <1>3, <3>1, <3>2, <3>3 DEF SamplerInv
  <2>. QED  BY <2>1, <2>2
<1>. QED  BY <1>2, <1>9, <1>15, <1>16 DEF CpuInv

LEMMA ProcKeeps ==
  ASSUME CpuInv, ReadProc
  PROVE  CpuInv'
<1>. USE DEF Fields
<1>0. PageInv /\ SampleInv /\ SamplerInv /\ ReportInv /\ ShownInv
  BY DEF CpuInv
<1>1. /\ UNCHANGED <<counter, module, loads, page, writer, dirty, sampler>>
      /\ sampler = Idle
  BY DEF ReadProc, collector
<1>2. PageInv' /\ SamplerInv'
  BY <1>0, <1>1 DEF PageInv, SamplerInv
<1>3. PICK curr : curr = [c \in Cpus |-> [f \in Fields |-> counter[c][f] \div Ratio]]
  OBVIOUS
<1>4. /\ report' = [c \in Cpus |->
           IF cpu_stats[c] # Nothing /\ TimePassed(c, Total(curr[c]))
           THEN Reported(c, Proc, Total(curr[c]), curr[c], FALSE) ELSE Nothing]
      /\ shown' = [c \in Cpus |-> ShownNow(c, Proc, curr[c], report'[c])]
      /\ cpu_stats' = [c \in Cpus |->
           [busy |-> curr[c].busy, idle |-> curr[c].idle, source |-> Proc]]
  BY <1>3 DEF ReadProc
<1>5. \A c \in Cpus : /\ curr[c] \in [Fields -> Nat]
                      /\ \A f \in Fields : curr[c][f] = counter[c][f] \div Ratio
                      /\ curr[c]["busy"] + curr[c]["idle"] <= MaxTime
  <2>. SUFFICES ASSUME NEW c \in Cpus
                PROVE  /\ curr[c] \in [Fields -> Nat]
                       /\ \A f \in Fields : curr[c][f] = counter[c][f] \div Ratio
                       /\ curr[c]["busy"] + curr[c]["idle"] <= MaxTime
    OBVIOUS
  <2>1. \A f \in Fields : counter[c][f] \in Nat
    BY <1>0 DEF PageInv
  <2>2. \A f \in Fields : /\ counter[c][f] \div Ratio \in Nat
                          /\ counter[c][f] \div Ratio <= counter[c][f]
    BY <2>1, Ticks
  <2>3. PICK k : k = [f \in Fields |-> counter[c][f] \div Ratio]
    OBVIOUS
  <2>4. curr[c] = k
    BY <1>3, <2>3
  <2>5. counter[c]["busy"] + counter[c]["idle"] <= MaxTime
    BY <1>0 DEF PageInv
  <2>6. /\ \A f \in Fields : k[f] = counter[c][f] \div Ratio
        /\ k \in [Fields -> Nat]
    BY <2>2, <2>3
  <2>7. k["busy"] \in Nat /\ k["busy"] <= counter[c]["busy"] /\ counter[c]["busy"] \in Nat
    BY <2>1, <2>2, <2>6
  <2>8. k["idle"] \in Nat /\ k["idle"] <= counter[c]["idle"] /\ counter[c]["idle"] \in Nat
    BY <2>1, <2>2, <2>6
  <2>9. k["busy"] + k["idle"] <= MaxTime
    BY <2>5, <2>7, <2>8, CpuSamplingAssumption
  <2>. QED  BY <2>4, <2>6, <2>9
<1>6. /\ Proc.load = 0 /\ Proc \in [load : Nat, ready : BOOLEAN]
      /\ loads \in Nat
  BY <1>0 DEF Proc, PageInv
<1>7. ASSUME NEW c \in Cpus
      PROVE  /\ cpu_stats'[c] \in [busy : Nat, idle : Nat, source : [load : Nat, ready : BOOLEAN]]
             /\ cpu_stats'[c].source = Proc /\ cpu_stats'[c].source.load = 0
             /\ \A f \in Fields : cpu_stats'[c][f] = curr[c][f]
  <2>1. PICK src \in [load : Nat, ready : BOOLEAN] : src = Proc /\ src.load = 0
    BY <1>6
  <2>2. PICK w \in [Fields -> Nat] : w = curr[c]
    BY <1>5
  <2>3. PICK n : n = [busy |-> w.busy, idle |-> w.idle, source |-> src]
    OBVIOUS
  <2>4. /\ n \in [busy : Nat, idle : Nat, source : [load : Nat, ready : BOOLEAN]]
        /\ n.source = src /\ n["busy"] = w["busy"] /\ n["idle"] = w["idle"]
    BY <2>2, <2>3
  <2>5. cpu_stats'[c] = n
    BY <1>4, <2>1, <2>2, <2>3
  <2>. QED  BY <2>1, <2>2, <2>4, <2>5
<1>8. SampleInv'
  <2>1. cpu_stats' \in [Cpus -> [busy : Nat, idle : Nat, source : [load : Nat, ready : BOOLEAN]]
                                \cup {Nothing}]
    BY <1>4, <1>7
  <2>2. ASSUME NEW c \in Cpus
        PROVE  /\ cpu_stats'[c].source.load <= loads
               /\ cpu_stats'[c]["busy"] + cpu_stats'[c]["idle"] <= MaxTime
               /\ \A f \in Fields :
                    /\ cpu_stats'[c][f] <= counter[c][f] \div Ratio
                    /\ ~(cpu_stats'[c].source.load = loads /\ loads # 0)
    <3>1. \A f \in Fields : cpu_stats'[c][f] = counter[c][f] \div Ratio /\ cpu_stats'[c][f] \in Nat
      BY <1>5, <1>7
    <3>2. \A f \in Fields : cpu_stats'[c][f] <= counter[c][f] \div Ratio
      BY <3>1
    <3>3. cpu_stats'[c]["busy"] + cpu_stats'[c]["idle"] <= MaxTime
      BY <1>5, <1>7
    <3>. QED  BY <1>6, <1>7, <3>2, <3>3
  <2>. QED  BY <1>1, <2>1, <2>2 DEF SampleInv
\* A CPU of which there is a sample of this source has not gone back.
<1>9. ASSUME NEW c \in Cpus, cpu_stats[c] # Nothing
      PROVE  \A f \in Fields :
               /\ cpu_stats[c][f] \in Nat
               /\ cpu_stats[c].source = Proc => cpu_stats[c][f] <= curr[c][f]
  <2>1. \A f \in Fields :
          /\ cpu_stats[c][f] \in Nat
          /\ cpu_stats[c].source.load = 0 => cpu_stats[c][f] <= counter[c][f] \div Ratio
    BY <1>0, <1>9 DEF SampleInv
  <2>2. \A f \in Fields : curr[c][f] = counter[c][f] \div Ratio
    BY <1>5
  <2>. QED  BY <1>6, <2>1, <2>2
<1>10. ASSUME NEW c \in Cpus
       PROVE  \/ report'[c] = Nothing
              \/ /\ cpu_stats[c] # Nothing
                 /\ report'[c] \in Report /\ Right(report'[c])
                 /\ Sound(report'[c]) => \A f \in Fields :
                      report'[c].parts[f] = curr[c][f] - cpu_stats[c][f]
  <2>1. CASE cpu_stats[c] # Nothing /\ TimePassed(c, Total(curr[c]))
    <3>1. PICK src : src = Proc
      OBVIOUS
    <3>2. PICK w \in [Fields -> Nat] : /\ w = curr[c]
                                      /\ w["busy"] + w["idle"] <= MaxTime
      BY <1>5
    <3>3. w["busy"] \in Nat /\ w["idle"] \in Nat
      OBVIOUS
    <3>4. PICK t \in 0..MaxTime : t = Total(w) /\ t = Total(Stored(src, w))
      <4>1. /\ Stored(src, w)["busy"] = w["busy"] /\ Stored(src, w)["idle"] = w["idle"]
            /\ Total(Stored(src, w)) = Stored(src, w)["busy"] + Stored(src, w)["idle"]
            /\ Total(Stored(src, w)) \in 0..MaxTime
        BY <3>1, <3>2, <3>3, Storing
      <4>2. Total(w) = w["busy"] + w["idle"]
        BY DEF Total
      <4>. QED  BY <4>1, <4>2
    <3>5. /\ cpu_stats[c]["busy"] \in Nat /\ cpu_stats[c]["idle"] \in Nat
          /\ cpu_stats[c]["busy"] + cpu_stats[c]["idle"] <= MaxTime
          /\ cpu_stats[c].source = src =>
               cpu_stats[c]["busy"] <= w["busy"] /\ cpu_stats[c]["idle"] <= w["idle"]
      BY <1>0, <1>9, <2>1, <3>1, <3>2 DEF SampleInv
    <3>6. TimePassed(c, t)
      BY <2>1, <3>2, <3>4
    <3>7. PICK torn \in BOOLEAN : torn = FALSE
      OBVIOUS
    <3>8. report'[c] = Reported(c, src, t, w, torn)
      BY <1>4, <2>1, <3>1, <3>2, <3>4, <3>7
    <3>9. t <= Total(Stored(src, w))
      BY <3>4, CpuSamplingAssumption
    <3>10. /\ Reported(c, src, t, w, torn) \in Report
           /\ Right(Reported(c, src, t, w, torn))
           /\ Sound(Reported(c, src, t, w, torn)) => \A f \in Fields :
                Reported(c, src, t, w, torn).parts[f] = w[f] - cpu_stats[c][f]
      BY <3>2, <3>3, <3>4, <3>5, <3>6, <3>9, Reporting
    <3>. QED  BY <2>1, <3>2, <3>8, <3>10
  <2>2. CASE ~(cpu_stats[c] # Nothing /\ TimePassed(c, Total(curr[c])))
    BY <1>4, <2>2
  <2>. QED  BY <2>1, <2>2
<1>11. ReportInv'
  <2>1. report' \in [Cpus -> Report \cup {Nothing}]
    BY <1>4, <1>10
  <2>2. \A c \in Cpus : report'[c] # Nothing => Right(report'[c])
    BY <1>10
  <2>3. \A c \in Cpus : Right(report'[c]) <=> Right(report[c])'
    BY DEF Right, Sound
  <2>. QED  BY <2>1, <2>2, <2>3 DEF ReportInv
<1>12. ASSUME NEW c \in Cpus
       PROVE  /\ shown'[c] \in [first : [Fields -> Nat] \cup {Nothing}, sum : [Fields -> Int]]
              /\ shown'[c].first \in [Fields -> Nat]
              /\ \A f \in Fields : shown'[c].sum[f] <= cpu_stats'[c][f] - shown'[c].first[f]
  <2>7. PICK r : r = report'[c]
    OBVIOUS
  <2>2. r # Nothing => r.parts \in [Fields -> Int]
    BY <1>10, <2>7 DEF Report
  <2>3. shown'[c] = ShownNow(c, Proc, curr[c], r)
    BY <1>4, <2>7
  <2>4. \A f \in Fields : curr[c][f] \in Nat /\ cpu_stats'[c][f] = curr[c][f]
    BY <1>5, <1>7
  <2>5. CASE cpu_stats[c] # Nothing /\ cpu_stats[c].source = Proc
    <3>1. \A f \in Fields : cpu_stats[c][f] \in Nat /\ cpu_stats[c][f] <= curr[c][f]
      BY <1>9, <2>5
    <3>2. /\ shown[c] \in [first : [Fields -> Nat] \cup {Nothing}, sum : [Fields -> Int]]
          /\ shown[c].first \in [Fields -> Nat]
          /\ \A f \in Fields : shown[c].sum[f] <= cpu_stats[c][f] - shown[c].first[f]
      BY <1>0, <2>5 DEF ShownInv
    <3>3. PICK new : new = shown'[c]
      OBVIOUS
    <3>4. /\ new \in [first : [Fields -> Nat] \cup {Nothing}, sum : [Fields -> Int]]
          /\ new.first = shown[c].first
          /\ \/ \A f \in Fields : new.sum[f] = shown[c].sum[f]
             \/ /\ r # Nothing /\ Sound(r)
                /\ \A f \in Fields : new.sum[f] = shown[c].sum[f] + r.parts[f]
      <4>. HIDE DEF Fields
      <4>1. Added(new, shown[c], r)
        BY <2>2, <2>3, <2>5, <3>2, <3>3, ShownAdds
      <4>. QED  BY <4>1, Zenon DEF Added
    <3>5. \A f \in Fields : shown[c].first[f] \in Nat /\ shown[c].sum[f] \in Int
      BY <3>2
    <3>6. CASE \A f \in Fields : new.sum[f] = shown[c].sum[f]
      BY <2>4, <3>1, <3>2, <3>3, <3>4, <3>5, <3>6
    <3>7. CASE /\ r # Nothing /\ Sound(r)
               /\ \A f \in Fields : new.sum[f] = shown[c].sum[f] + r.parts[f]
      <4>1. \A f \in Fields : r.parts[f] = curr[c][f] - cpu_stats[c][f]
        BY <1>10, <2>7, <3>7
      <4>2. \A f \in Fields : new.sum[f] <= curr[c][f] - shown[c].first[f]
        BY <2>4, <3>1, <3>2, <3>5, <3>7, <4>1
      <4>. QED  BY <2>4, <3>2, <3>3, <3>4, <4>2
    <3>. QED  BY <3>4, <3>6, <3>7
  <2>6. CASE ~(cpu_stats[c] # Nothing /\ cpu_stats[c].source = Proc)
    <3>1. shown'[c] = [first |-> curr[c], sum |-> Zero]
      BY <2>3, <2>6 DEF ShownNow
    <3>2. Zero \in [Fields -> Int] /\ \A f \in Fields : Zero[f] = 0
      BY DEF Zero
    <3>. QED  BY <1>5, <2>4, <3>1, <3>2
  <2>. QED  BY <2>5, <2>6
<1>13. ShownInv'
  <2>1. shown' \in [Cpus -> [first : [Fields -> Nat] \cup {Nothing}, sum : [Fields -> Int]]]
    BY <1>4, <1>12
  <2>. QED  BY <1>12, <2>1 DEF ShownInv
<1>. QED  BY <1>2, <1>8, <1>11, <1>13 DEF CpuInv

LEMMA CpuInvariant == CpuSpec => []CpuInv
<1>1. CpuInit => CpuInv
  BY CpuInvInit
<1>2. CpuInv /\ [CpuNext]_cpuVars => CpuInv'
  <2>. SUFFICES ASSUME CpuInv, [CpuNext]_cpuVars PROVE CpuInv'
    OBVIOUS
  <2>0. PageInv /\ SampleInv /\ SamplerInv /\ ReportInv /\ ShownInv
    BY DEF CpuInv
  <2>1. CASE Tick
    BY <2>0, <2>1, TickForward, ForwardKeeps
  <2>2. CASE Load
    BY <2>2, LoadKeeps
  <2>3. CASE BeginUpdate
    <3>1. /\ UNCHANGED <<counter, module, loads, page, sampler, cpu_stats, dirty, report, shown>>
          /\ module = "loaded" /\ writer' = [cpu |-> 0, field |-> "named"]
      BY <2>3 DEF BeginUpdate, history, FirstField
    <3>2. writer'.cpu \in Cpus /\ writer'.field = "named"
      BY <3>1, CpuSamplingAssumption DEF Cpus
    <3>3. PageInv'
      BY <2>0, <3>1, <3>2 DEF PageInv
    <3>4. SampleInv' /\ SamplerInv' /\ ReportInv' /\ ShownInv'
      BY <2>0, <3>1 DEF SampleInv, SamplerInv, ReadingInv, HasRead, Readable, ReportInv,
         ShownInv, Right, Sound, TimePassed, LastStored
    <3>. QED  BY <3>3, <3>4 DEF CpuInv
  <2>4. CASE WriteField
    BY <2>0, <2>4, WriteForward, ForwardKeeps
  <2>5. CASE Unload
    <3>1. /\ UNCHANGED <<counter, loads, page, writer, sampler, cpu_stats, dirty, report, shown>>
          /\ sampler = Idle /\ writer = Nothing /\ module' = "absent"
      BY <2>5 DEF Unload, history
    <3>2. PageInv' /\ SampleInv' /\ SamplerInv'
      BY <2>0, <3>1 DEF PageInv, SampleInv, SamplerInv
    <3>3. ReportInv' /\ ShownInv'
      BY <2>0, <3>1 DEF ReportInv, ShownInv, Right, Sound
    <3>. QED  BY <3>2, <3>3 DEF CpuInv
  <2>6. CASE UpdateOnce
    BY <2>6, OpenKeeps, NameKeeps, BusyKeeps, TotalKeeps, PartsKeeps, CopyKeeps, ProcKeeps
       DEF UpdateOnce
  <2>7. CASE UNCHANGED cpuVars
    <3>1. UNCHANGED <<counter, module, loads, page, writer, sampler, cpu_stats, dirty, report, shown>>
      BY <2>7 DEF cpuVars, collector, history
    <3>. QED
      BY <3>1 DEF CpuInv, PageInv, SampleInv, SamplerInv, ReadingInv, HasRead, Readable, ReportInv,
         ShownInv, Right, Sound, TimePassed, LastStored
  <2>. QED  BY <2>1, <2>2, <2>3, <2>4, <2>5, <2>6, <2>7 DEF CpuNext
<1>. QED  BY <1>1, <1>2, PTL DEF CpuSpec

\* No share of a CPU's time is negative in a sound report, one of two samples of a source
\* that was ready at the first, however the page was rewritten while it was read; where the
\* page's idle time started again in between, no time is found to have passed.
THEOREM SharesNotNegative == CpuSpec => []NoneNegative
<1>1. CpuInv => NoneNegative
  BY DEF CpuInv, ReportInv, Right, NoneNegative, Fields
<1>. QED  BY <1>1, CpuInvariant, PTL

\* The shares of a sound report are the time it covers, and never less of it, but for what
\* floats of that precision lose.
THEOREM SharesAddUp == CpuSpec => []PartsAddUp
<1>1. CpuInv => PartsAddUp
  BY DEF CpuInv, ReportInv, Right, PartsAddUp, Total
<1>. QED  BY <1>1, CpuInvariant, PTL

\* The sound reports of a source cover no time twice: never more than really passed.
THEOREM NoTimeTwice == CpuSpec => []NothingTwice
<1>1. CpuInv => NothingTwice
  BY DEF CpuInv, ShownInv, NothingTwice
<1>. QED  BY <1>1, CpuInvariant, PTL
=============================================================================
