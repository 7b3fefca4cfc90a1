------------------------- MODULE GrpcServer_proofs -------------------------
(***************************************************************************)
(* What GrpcServer promises for any set of requests and hosts and any      *)
(* capacity of the cache: its type invariant, and the invariants of the    *)
(* cache and of the queue.                                                 *)
(***************************************************************************)
EXTENDS GrpcServer, SequenceTheorems, FunctionTheorems, FiniteSetTheorems, TLAPS

-----------------------------------------------------------------------------
(* Lemmas about the operators the cache is built from.                     *)

\* A nonempty set of naturals has a least element.
LEMMA LeastExists ==
  ASSUME NEW T \in SUBSET Nat, T # {}
  PROVE  \E k \in T : \A j \in T : k <= j
<1>. DEFINE Less == OpToRel(<, Nat)
<1>1. IsWellFoundedOn(Less, Nat)
  BY NatLessThanWellFounded
<1>2. \A j, k \in Nat : j < k => <<j, k>> \in Less
  BY DEF OpToRel
<1>. HIDE DEF Less
<1>3. PICK k \in T : \A j \in T : <<j, k>> \notin Less
  BY <1>1, WFMin
<1>4. k \in Nat /\ \A j \in T : j \in Nat /\ ~(j < k)
  BY <1>2, <1>3
<1>5. \A j \in T : k <= j
  BY <1>4
<1>. QED  BY <1>5

\* RemoveAt drops position n and moves what follows one place to the front.
LEMMA RemoveAtProperties ==
  ASSUME NEW S, NEW s \in Seq(S), NEW n \in 1..Len(s)
  PROVE  /\ RemoveAt(s, n) \in Seq(S)
         /\ Len(RemoveAt(s, n)) = Len(s) - 1
         /\ \A i \in 1..(Len(s) - 1) : RemoveAt(s, n)[i] = IF i < n THEN s[i] ELSE s[i + 1]
<1>. DEFINE left == SubSeq(s, 1, n - 1)
            right == SubSeq(s, n + 1, Len(s))
<1>0. Len(s) \in Nat /\ \A i \in 1..Len(s) : s[i] \in S
  BY LenProperties, ElementOfSeq
<1>1. left \in Seq(S) /\ Len(left) = n - 1 /\ \A i \in 1..(n - 1) : left[i] = s[i]
  BY <1>0, SubSeqProperties
<1>2. /\ right \in Seq(S)
      /\ Len(right) = IF n + 1 <= Len(s) THEN Len(s) - (n + 1) + 1 ELSE 0
      /\ \A i \in 1..(Len(s) - (n + 1) + 1) : right[i] = s[n + 1 + i - 1]
  <2>1. n + 1 \in Int /\ Len(s) \in Int /\ \A i \in (n + 1)..Len(s) : s[i] \in S
    BY <1>0
  <2>. QED  BY <2>1, SubSeqProperties
<1>. HIDE DEF left, right
<1>3. Len(right) = Len(s) - n
  BY <1>0, <1>2
<1>4. \A i \in n..(Len(s) - 1) : right[i - (n - 1)] = s[i + 1]
  <2>. SUFFICES ASSUME NEW i \in n..(Len(s) - 1) PROVE right[i - (n - 1)] = s[i + 1]
    OBVIOUS
  <2>1. i - (n - 1) \in 1..(Len(s) - (n + 1) + 1) /\ n + 1 + (i - (n - 1)) - 1 = i + 1
    BY <1>0
  <2>. QED  BY <1>2, <2>1
<1>5. /\ left \o right \in Seq(S) /\ Len(left \o right) = Len(s) - 1
      /\ \A i \in 1..(Len(s) - 1) :
           (left \o right)[i] = IF i <= n - 1 THEN left[i] ELSE right[i - (n - 1)]
  <2>1. /\ left \o right \in Seq(S)
        /\ Len(left \o right) = Len(left) + Len(right)
        /\ \A i \in 1..(Len(left) + Len(right)) :
             (left \o right)[i] = IF i <= Len(left) THEN left[i] ELSE right[i - Len(left)]
    BY <1>1, <1>2, ConcatProperties
  <2>2. Len(left) = n - 1 /\ Len(left) + Len(right) = Len(s) - 1
    BY <1>0, <1>1, <1>3
  <2>. QED  BY <2>1, <2>2
<1>6. \A i \in 1..(Len(s) - 1) : (left \o right)[i] = IF i < n THEN s[i] ELSE s[i + 1]
  BY <1>0, <1>1, <1>4, <1>5
<1>. QED  BY <1>5, <1>6 DEF RemoveAt, left, right

\* RemoveFirst yields a list of the same elements and no others.
LEMMA RemoveFirstType ==
  ASSUME NEW S, NEW s \in Seq(S), NEW e
  PROVE  \/ RemoveFirst(s, e) = s /\ e \notin Range(s)
         \/ \E n \in 1..Len(s) : s[n] = e /\ RemoveFirst(s, e) = RemoveAt(s, n)
<1>0. Len(s) \in Nat /\ DOMAIN s = 1..Len(s)
  BY LenProperties
<1>1. CASE ~ \E i \in 1..Len(s) : s[i] = e
  BY <1>0, <1>1 DEF RemoveFirst, Range
<1>2. CASE \E i \in 1..Len(s) : s[i] = e
  <2>. DEFINE I == {i \in 1..Len(s) : s[i] = e}
  <2>1. I \in SUBSET Nat /\ I # {}
    BY <1>0, <1>2
  <2>2. Min(I) \in I
    <3>. HIDE DEF I
    <3>1. \E k \in I : \A j \in I : k <= j
      BY <2>1, LeastExists
    <3>. QED  BY <3>1 DEF Min
  <2>3. RemoveFirst(s, e) = RemoveAt(s, Min(I))
    BY <1>2 DEF RemoveFirst, SelectInSeq
  <2>. QED  BY <2>2, <2>3
<1>. QED  BY <1>1, <1>2

\* RemoveFirst, on a list without duplicates, removes the element and nothing else.
LEMMA RemoveFirstProperties ==
  ASSUME NEW S, NEW s \in Seq(S), NEW e
  PROVE  /\ RemoveFirst(s, e) \in Seq(S)
         /\ IsInjective(s) => /\ IsInjective(RemoveFirst(s, e))
                              /\ Range(RemoveFirst(s, e)) = Range(s) \ {e}
<1>0. Len(s) \in Nat /\ DOMAIN s = 1..Len(s)
  BY LenProperties
<1>1. CASE RemoveFirst(s, e) = s /\ e \notin Range(s)
  BY <1>1
<1>2. ASSUME NEW n \in 1..Len(s), s[n] = e, RemoveFirst(s, e) = RemoveAt(s, n)
      PROVE  /\ RemoveFirst(s, e) \in Seq(S)
             /\ IsInjective(s) => /\ IsInjective(RemoveFirst(s, e))
                                  /\ Range(RemoveFirst(s, e)) = Range(s) \ {e}
  <2>. DEFINE rest == RemoveFirst(s, e)
  <2>1. /\ rest \in Seq(S)
        /\ Len(rest) = Len(s) - 1
        /\ \A i \in 1..(Len(s) - 1) : rest[i] = IF i < n THEN s[i] ELSE s[i + 1]
    BY <1>2, RemoveAtProperties
  <2>. HIDE DEF rest
  <2>2. DOMAIN rest = 1..(Len(s) - 1)
    BY <2>1, LenProperties
  <2>3. ASSUME IsInjective(s)
        PROVE  IsInjective(rest) /\ Range(rest) = Range(s) \ {e}
    <3>0. \A i, j \in 1..Len(s) : s[i] = s[j] => i = j
      BY <1>0, <2>3 DEF IsInjective
    <3>1. \A i, j \in DOMAIN rest : rest[i] = rest[j] => i = j
      BY <1>0, <2>1, <2>2, <3>0
    <3>2. \A i \in DOMAIN rest : \E j \in 1..Len(s) : j # n /\ rest[i] = s[j]
      BY <1>0, <2>1, <2>2
    <3>3. ASSUME NEW j \in 1..Len(s), j # n
          PROVE  \E i \in DOMAIN rest : rest[i] = s[j]
      <4>1. CASE j < n
        BY <4>1, <1>0, <2>1, <2>2
      <4>2. CASE j > n
        <5>1. j - 1 \in DOMAIN rest /\ ~(j - 1 < n) /\ (j - 1) + 1 = j
          BY <4>2, <1>0, <2>2
        <5>2. rest[j - 1] = s[j]
          BY <5>1, <2>1, <2>2
        <5>. QED  BY <5>1, <5>2
      <4>. QED  BY <3>3, <4>1, <4>2, <1>0
    <3>4. Range(rest) = Range(s) \ {e}
      BY <1>0, <1>2, <3>0, <3>2, <3>3 DEF Range
    <3>. QED  BY <3>1, <3>4 DEF IsInjective
  <2>. QED  BY <2>1, <2>3 DEF rest
<1>. QED  BY <1>1, <1>2, RemoveFirstType

\* EvictIfNeeded drops the last k hosts of the list, and their entries, for the least k
\* that leaves few enough entries or an empty list.
LEMMA EvictIfNeededDef ==
  ASSUME NEW data, NEW lru \in Seq(Hosts)
  PROVE  \E k \in 0..Len(lru) :
           LET Popped == {lru[i] : i \in (Len(lru) - k + 1)..Len(lru)}
           IN  /\ EvictIfNeeded(data, lru) =
                    [data |-> [h \in Hosts |-> IF h \in Popped THEN None ELSE data[h]],
                     lru  |-> SubSeq(lru, 1, Len(lru) - k)]
               /\ Cardinality(HostsIn(data) \ Popped) <= MaxHosts \/ k = Len(lru)
               /\ \A j \in 0..(k - 1) :
                    ~(Cardinality(HostsIn(data) \ {lru[i] : i \in (Len(lru) - j + 1)..Len(lru)})
                        <= MaxHosts)
<1>. DEFINE Popped(k) == {lru[i] : i \in (Len(lru) - k + 1)..Len(lru)}
            Enough(k) == \/ Cardinality(HostsIn(data) \ Popped(k)) <= MaxHosts
                         \/ k = Len(lru)
            Least(k)  == Enough(k) /\ \A j \in 0..(k - 1) : ~Enough(j)
            pops      == CHOOSE k \in 0..Len(lru) : Least(k)
            T         == {k \in 0..Len(lru) : Enough(k)}
<1>0. Len(lru) \in Nat
  BY LenProperties
<1>1. \E k \in T : \A j \in T : k <= j
  <2>1. T \in SUBSET Nat /\ Len(lru) \in T
    BY <1>0
  <2>. QED  BY <2>1, LeastExists
<1>2. \E k \in 0..Len(lru) : Least(k)
  <2>. HIDE DEF Enough
  <2>1. PICK k \in T : \A j \in T : k <= j
    BY <1>1
  <2>2. \A j \in 0..(k - 1) : j \in 0..Len(lru) /\ ~(k <= j)
    BY <1>0
  <2>. QED  BY <2>1, <2>2
<1>3. pops \in 0..Len(lru) /\ Enough(pops) /\ \A j \in 0..(pops - 1) : ~Enough(j)
  <2>. HIDE DEF Enough
  <2>. QED  BY <1>2
<1>4. EvictIfNeeded(data, lru) =
        [data |-> [h \in Hosts |-> IF h \in Popped(pops) THEN None ELSE data[h]],
         lru  |-> SubSeq(lru, 1, Len(lru) - pops)]
  BY DEF EvictIfNeeded
<1>. HIDE DEF pops
<1>. QED  BY <1>3, <1>4

\* A prefix of a list without duplicates lists what the dropped end does not.
LEMMA PrefixProperties ==
  ASSUME NEW S, NEW s \in Seq(S), NEW m \in 0..Len(s)
  PROVE  /\ SubSeq(s, 1, m) \in Seq(S)
         /\ Len(SubSeq(s, 1, m)) = m
         /\ IsInjective(s) =>
              /\ IsInjective(SubSeq(s, 1, m))
              /\ Range(SubSeq(s, 1, m)) = Range(s) \ {s[i] : i \in (m + 1)..Len(s)}
<1>. DEFINE front == SubSeq(s, 1, m)
<1>0. Len(s) \in Nat /\ DOMAIN s = 1..Len(s) /\ \A i \in 1..Len(s) : s[i] \in S
  BY LenProperties, ElementOfSeq
<1>1. /\ front \in Seq(S)
      /\ Len(front) = m
      /\ \A i \in 1..m : front[i] = s[i]
  <2>1. 1 \in Int /\ m \in Int /\ \A i \in 1..m : s[i] \in S
    BY <1>0
  <2>. QED  BY <1>0, <2>1, SubSeqProperties
<1>. HIDE DEF front
<1>2. DOMAIN front = 1..m
  BY <1>1, LenProperties
<1>3. ASSUME IsInjective(s)
      PROVE  IsInjective(front)
  BY <1>0, <1>1, <1>2, <1>3 DEF IsInjective
<1>4. ASSUME IsInjective(s)
      PROVE  Range(front) = Range(s) \ {s[i] : i \in (m + 1)..Len(s)}
  <2>0. \A i, j \in 1..Len(s) : s[i] = s[j] => i = j
    BY <1>0, <1>4 DEF IsInjective
  <2>1. Range(front) = {s[i] : i \in 1..m}
    BY <1>1, <1>2 DEF Range
  <2>2. Range(s) = {s[i] : i \in 1..Len(s)}
    BY <1>0 DEF Range
  <2>. QED  BY <1>0, <2>0, <2>1, <2>2
<1>. QED  BY <1>1, <1>3, <1>4 DEF front

\* Putting a new element at the end of a list without duplicates.
LEMMA AppendNewProperties ==
  ASSUME NEW S, NEW s \in Seq(S), NEW e \in S, IsInjective(s), e \notin Range(s)
  PROVE  IsInjective(Append(s, e)) /\ Range(Append(s, e)) = Range(s) \cup {e}
<1>. DEFINE t == Append(s, e)
<1>1. /\ t \in Seq(S) /\ Len(t) = Len(s) + 1
      /\ \A i \in 1..Len(s) : t[i] = s[i]
      /\ t[Len(s) + 1] = e
  BY AppendProperties
<1>. HIDE DEF t
<1>2. Len(s) \in Nat /\ DOMAIN s = 1..Len(s) /\ DOMAIN t = 1..(Len(s) + 1)
  BY <1>1, LenProperties
<1>3. \A i \in 1..Len(s) : s[i] # e
  BY <1>2 DEF Range
<1>4. IsInjective(t)
  <2>1. \A i, j \in 1..Len(s) : s[i] = s[j] => i = j
    BY <1>2 DEF IsInjective
  <2>2. \A i \in 1..(Len(s) + 1) : i \in 1..Len(s) \/ i = Len(s) + 1
    BY <1>2
  <2>. QED  BY <1>1, <1>2, <1>3, <2>1, <2>2 DEF IsInjective
<1>5. Range(t) = Range(s) \cup {e}
  <2>1. \A i \in DOMAIN t : t[i] \in Range(s) \cup {e}
    BY <1>1, <1>2 DEF Range
  <2>2. \A i \in DOMAIN s : s[i] \in Range(t)
    <3>1. \A i \in DOMAIN s : i \in DOMAIN t /\ t[i] = s[i]
      BY <1>1, <1>2
    <3>. QED  BY <3>1 DEF Range
  <2>3. e \in Range(t)
    <3>1. Len(s) + 1 \in DOMAIN t
      BY <1>2
    <3>. QED  BY <1>1, <3>1 DEF Range
  <2>. QED  BY <2>1, <2>2, <2>3 DEF Range
<1>. QED  BY <1>4, <1>5 DEF t

\* Putting a new element in front of a list without duplicates.
LEMMA PrependNewProperties ==
  ASSUME NEW S, NEW s \in Seq(S), NEW e \in S, IsInjective(s), e \notin Range(s)
  PROVE  /\ <<e>> \o s \in Seq(S)
         /\ IsInjective(<<e>> \o s)
         /\ Range(<<e>> \o s) = Range(s) \cup {e}
<1>. DEFINE t == <<e>> \o s
<1>1. <<e>> \in Seq(S) /\ Len(<<e>>) = 1 /\ <<e>>[1] = e
  OBVIOUS
<1>2. Len(s) \in Nat /\ DOMAIN s = 1..Len(s)
  BY LenProperties
<1>3. /\ t \in Seq(S) /\ Len(t) = Len(<<e>>) + Len(s)
      /\ \A i \in 1..(Len(<<e>>) + Len(s)) :
           t[i] = IF i <= Len(<<e>>) THEN <<e>>[i] ELSE s[i - Len(<<e>>)]
  BY <1>1, ConcatProperties
<1>. HIDE DEF t
<1>4. Len(t) = Len(s) + 1 /\ DOMAIN t = 1..(Len(s) + 1)
  BY <1>1, <1>2, <1>3, LenProperties
<1>5. t[1] = e /\ \A i \in 2..(Len(s) + 1) : i - 1 \in 1..Len(s) /\ t[i] = s[i - 1]
  BY <1>1, <1>2, <1>3
<1>6. \A i \in 1..Len(s) : s[i] # e
  BY <1>2 DEF Range
<1>7. IsInjective(t)
  <2>1. \A i, j \in 1..Len(s) : s[i] = s[j] => i = j
    BY <1>2 DEF IsInjective
  <2>2. \A i, j \in 1..(Len(s) + 1) : t[i] = t[j] => i = j
    BY <1>2, <1>5, <1>6, <2>1
  <2>. QED  BY <1>4, <2>2 DEF IsInjective
<1>8. Range(t) = Range(s) \cup {e}
  <2>1. \A i \in DOMAIN t : t[i] \in Range(s) \cup {e}
    BY <1>2, <1>4, <1>5 DEF Range
  <2>2. \A i \in DOMAIN s : i + 1 \in DOMAIN t /\ t[i + 1] = s[i]
    <3>1. \A i \in 1..Len(s) : i + 1 \in 2..(Len(s) + 1) /\ (i + 1) - 1 = i
      BY <1>2
    <3>. QED  BY <1>2, <1>4, <1>5, <3>1
  <2>3. 1 \in DOMAIN t
    BY <1>2, <1>4
  <2>. QED  BY <1>5, <2>1, <2>2, <2>3 DEF Range
<1>. QED  BY <1>3, <1>7, <1>8 DEF t

\* As many positions as elements, in a list without duplicates.
LEMMA LengthOfInjective ==
  ASSUME NEW S, NEW s \in Seq(S), IsInjective(s)
  PROVE  IsFiniteSet(Range(s)) /\ Cardinality(Range(s)) = Len(s)
<1>0. Len(s) \in Nat /\ DOMAIN s = 1..Len(s) /\ s \in [1..Len(s) -> S]
  BY LenProperties
<1>1. s \in [1..Len(s) -> Range(s)] /\ \A y \in Range(s) : \E x \in 1..Len(s) : s[x] = y
  BY <1>0 DEF Range
<1>2. \A i, j \in 1..Len(s) : s[i] = s[j] => i = j
  BY <1>0 DEF IsInjective
<1>3. s \in Bijection(1..Len(s), Range(s))
  BY <1>1, <1>2, Fun_IsInj, Fun_IsSurj DEF Bijection
<1>4. ExistsBijection(1..Len(s), Range(s))
  BY <1>3 DEF ExistsBijection
<1>. QED  BY <1>0, <1>4, FS_CountingElements, FS_NatBijection

\* EvictIfNeeded keeps the list and the map of the cache in step, and within the capacity.
LEMMA EvictIfNeededProperties ==
  ASSUME NEW data \in [Hosts -> Requests \cup {None}], NEW lru \in Seq(Hosts)
  PROVE  LET kept == EvictIfNeeded(data, lru)
         IN  /\ kept.data \in [Hosts -> Requests \cup {None}]
             /\ kept.lru \in Seq(Hosts)
             /\ IsInjective(lru) /\ Range(lru) = HostsIn(data) =>
                  /\ IsInjective(kept.lru)
                  /\ Range(kept.lru) = HostsIn(kept.data)
                  /\ Len(kept.lru) <= MaxHosts
<1>0. Len(lru) \in Nat /\ MaxHosts \in Nat
  BY LenProperties, GrpcServerAssumption
<1>1. PICK k \in 0..Len(lru) :
        LET Popped == {lru[i] : i \in (Len(lru) - k + 1)..Len(lru)}
        IN  /\ EvictIfNeeded(data, lru) =
                 [data |-> [h \in Hosts |-> IF h \in Popped THEN None ELSE data[h]],
                  lru  |-> SubSeq(lru, 1, Len(lru) - k)]
            /\ Cardinality(HostsIn(data) \ Popped) <= MaxHosts \/ k = Len(lru)
  BY EvictIfNeededDef
<1>. DEFINE Popped == {lru[i] : i \in (Len(lru) - k + 1)..Len(lru)}
            keptData == [h \in Hosts |-> IF h \in Popped THEN None ELSE data[h]]
            keptLru  == SubSeq(lru, 1, Len(lru) - k)
<1>2. /\ EvictIfNeeded(data, lru).data = keptData
      /\ EvictIfNeeded(data, lru).lru = keptLru
      /\ Cardinality(HostsIn(data) \ Popped) <= MaxHosts \/ k = Len(lru)
  BY <1>1
<1>3. keptData \in [Hosts -> Requests \cup {None}]
  OBVIOUS
<1>4. HostsIn(keptData) = HostsIn(data) \ Popped
  BY DEF HostsIn
<1>5. /\ keptLru \in Seq(Hosts)
      /\ Len(keptLru) = Len(lru) - k
      /\ IsInjective(lru) => IsInjective(keptLru) /\ Range(keptLru) = Range(lru) \ Popped
  <2>. DEFINE m == Len(lru) - k
  <2>1. m \in 0..Len(lru)
    BY <1>0
  <2>. HIDE DEF m
  <2>2. /\ SubSeq(lru, 1, m) \in Seq(Hosts)
        /\ Len(SubSeq(lru, 1, m)) = m
        /\ IsInjective(lru) =>
             /\ IsInjective(SubSeq(lru, 1, m))
             /\ Range(SubSeq(lru, 1, m)) = Range(lru) \ {lru[i] : i \in (m + 1)..Len(lru)}
    BY <2>1, PrefixProperties
  <2>. QED  BY <2>2 DEF m
<1>. HIDE DEF keptData, keptLru, Popped
<1>6. ASSUME IsInjective(lru), Range(lru) = HostsIn(data)
      PROVE  /\ IsInjective(keptLru) /\ Range(keptLru) = HostsIn(keptData)
             /\ Len(keptLru) <= MaxHosts
  <2>1. IsInjective(keptLru) /\ Range(keptLru) = HostsIn(data) \ Popped
    BY <1>5, <1>6
  <2>2. Cardinality(HostsIn(data) \ Popped) = Len(keptLru)
    BY <1>5, <2>1, LengthOfInjective
  <2>3. Len(keptLru) <= MaxHosts
    BY <1>0, <1>2, <1>5, <2>2
  <2>. QED  BY <1>4, <2>1, <2>3
<1>. QED  BY <1>2, <1>3, <1>5, <1>6

-----------------------------------------------------------------------------
(* Type correctness.                                                       *)

\* What SetMonitorInfo's caching step leaves in the map and the list.
LEMMA CacheReportTypes ==
  ASSUME TypeOK, NEW r \in Requests, CacheReport(r), HostName(r) \in Hosts
  PROVE  host_data' \in [Hosts -> Requests \cup {None}] /\ lru_list' \in Seq(Hosts)
<1>. DEFINE h == HostName(r)
            data == [host_data EXCEPT ![h] = r]
            lru  == <<h>> \o RemoveFirst(lru_list, h)
<1>1. data \in [Hosts -> Requests \cup {None}]
  BY DEF TypeOK
<1>2. lru \in Seq(Hosts)
  <2>1. RemoveFirst(lru_list, h) \in Seq(Hosts)
    BY RemoveFirstProperties DEF TypeOK
  <2>2. <<h>> \in Seq(Hosts)
    OBVIOUS
  <2>. QED  BY <2>1, <2>2, ConcatProperties
<1>3. host_data' = EvictIfNeeded(data, lru).data /\ lru_list' = EvictIfNeeded(data, lru).lru
  BY DEF CacheReport
<1>. HIDE DEF data, lru
<1>. QED  BY <1>1, <1>2, <1>3, EvictIfNeededProperties

\* A call that has been received carries a host name: SetMonitorInfo answers the others
\* INVALID_ARGUMENT before they reach the cache.
Named == \A r \in Requests : call[r] \in {"received", "cached", "ok"} => HostName(r) \in Hosts

TypeInv == TypeOK /\ Named

LEMMA TypeInit == Init => TypeInv
<1>. SUFFICES ASSUME Init PROVE TypeInv
  OBVIOUS
<1>. USE DEF Init
<1>1. \A S : <<>> \in Seq(S)
  BY EmptySeq
<1>. QED  BY <1>1 DEF TypeInv, TypeOK, Named

LEMMA TypeStep == TypeInv /\ [Next]_vars => TypeInv'
<1>. SUFFICES ASSUME TypeInv, [Next]_vars PROVE TypeInv'
  OBVIOUS
<1>. USE DEF TypeInv, cache, queue, worker, server
<1>1. ASSUME NEW r \in Requests, Receive(r) PROVE TypeInv'
  <2>1. HostName(r) \in Hosts \cup {NoName}
    BY GrpcServerAssumption DEF HostName
  <2>. QED  BY <1>1, <2>1 DEF Receive, TypeOK, Named, HostName
<1>2. ASSUME NEW r \in Requests, CacheReport(r) PROVE TypeInv'
  <2>1. HostName(r) \in Hosts
    BY <1>2 DEF CacheReport, Named
  <2>2. host_data' \in [Hosts -> Requests \cup {None}] /\ lru_list' \in Seq(Hosts)
    BY <1>2, <2>1, CacheReportTypes
  <2>3. cached' \in Seq(Requests)
    BY <1>2, AppendProperties DEF CacheReport, TypeOK
  <2>4. /\ call' = [call EXCEPT ![r] = "cached"]
        /\ UNCHANGED <<queue, worker, server>>
    BY <1>2 DEF CacheReport
  <2>. QED  BY <2>1, <2>2, <2>3, <2>4 DEF TypeOK, Named, HostName
<1>3. ASSUME NEW r \in Requests, QueueReport(r) PROVE TypeInv'
  <2>1. task_queue' \in Seq(Requests) /\ accepted' \in Seq(Requests)
    BY <1>3, AppendProperties DEF QueueReport, TypeOK
  <2>. QED  BY <1>3, <2>1 DEF QueueReport, TypeOK, Named, HostName
<1>4. CASE TakeTask
  <2>1. task' \in Requests /\ task_queue' \in Seq(Requests)
    BY <1>4, HeadTailProperties DEF TakeTask, TypeOK
  <2>. QED  BY <1>4, <2>1 DEF TakeTask, TypeOK, Named, HostName
<1>5. CASE CallbackReturns
  <2>1. delivered' \in Seq(Requests)
    BY <1>5, AppendProperties DEF CallbackReturns, TypeOK
  <2>. QED  BY <1>5, <2>1 DEF CallbackReturns, TypeOK, Named, HostName
<1>6. CASE WorkerReturns \/ Shutdown \/ Destroy
  BY <1>6 DEF WorkerReturns, Shutdown, Destroy, TypeOK, Named, HostName
<1>7. CASE UNCHANGED vars
  BY <1>7 DEF vars, TypeOK, Named, HostName
<1>. QED  BY <1>1, <1>2, <1>3, <1>4, <1>5, <1>6, <1>7 DEF Next, Joined

\* The state of grpc_server.h keeps its shape.
THEOREM TypeCorrect == Spec => []TypeOK
<1>1. TypeInv => TypeOK
  BY DEF TypeInv
<1>. QED  BY TypeInit, TypeStep, <1>1, PTL DEF Spec, Safety

-----------------------------------------------------------------------------
(* The cache.                                                              *)

\* The map and the list that SetMonitorInfo's caching step hands to EvictIfNeeded.
LEMMA CacheReportLists ==
  ASSUME TypeInv, CacheMatchesLru, NEW r \in Requests, CacheReport(r)
  PROVE  LET h    == HostName(r)
             data == [host_data EXCEPT ![h] = r]
             rest == RemoveFirst(lru_list, h)
             lru  == <<h>> \o rest
         IN  /\ h \in Hosts /\ r # None
             /\ rest \in Seq(Hosts) /\ h \notin Range(rest)
             /\ lru \in Seq(Hosts) /\ IsInjective(lru) /\ Range(lru) = HostsIn(data)
             /\ data \in [Hosts -> Requests \cup {None}]
             /\ HostsIn(data) = HostsIn(host_data) \cup {h}
             /\ host_data' = EvictIfNeeded(data, lru).data
             /\ lru_list' = EvictIfNeeded(data, lru).lru
<1>. DEFINE h == HostName(r)
            data == [host_data EXCEPT ![h] = r]
            rest == RemoveFirst(lru_list, h)
            lru  == <<h>> \o rest
<1>1. h \in Hosts /\ r # None
  BY GrpcServerAssumption DEF CacheReport, TypeInv, Named
<1>2. /\ rest \in Seq(Hosts) /\ IsInjective(rest)
      /\ Range(rest) = HostsIn(host_data) \ {h}
  BY RemoveFirstProperties DEF TypeInv, TypeOK, CacheMatchesLru
<1>3. data \in [Hosts -> Requests \cup {None}]
  BY DEF TypeInv, TypeOK
<1>4. HostsIn(data) = HostsIn(host_data) \cup {h}
  BY <1>1 DEF HostsIn, TypeInv, TypeOK
<1>5. host_data' = EvictIfNeeded(data, lru).data /\ lru_list' = EvictIfNeeded(data, lru).lru
  BY DEF CacheReport
<1>. HIDE DEF data, rest, h
<1>6. h \notin Range(rest)
  BY <1>2
<1>7. /\ lru \in Seq(Hosts) /\ IsInjective(lru)
      /\ Range(lru) = Range(rest) \cup {h}
  BY <1>1, <1>2, <1>6, PrependNewProperties
<1>8. Range(lru) = HostsIn(data)
  BY <1>2, <1>4, <1>7
<1>. HIDE DEF lru
<1>. QED  BY <1>1, <1>2, <1>3, <1>4, <1>5, <1>6, <1>7, <1>8 DEF h, data, rest, lru

\* Only SetMonitorInfo's caching step touches the cache, and it leaves the list and the
\* map in step.
LEMMA CacheStep == TypeInv /\ CacheMatchesLru /\ [Next]_vars => CacheMatchesLru'
<1>. SUFFICES ASSUME TypeInv, CacheMatchesLru, [Next]_vars PROVE CacheMatchesLru'
  OBVIOUS
<1>1. ASSUME NEW r \in Requests, CacheReport(r) PROVE CacheMatchesLru'
  <2>. DEFINE data == [host_data EXCEPT ![HostName(r)] = r]
              lru  == <<HostName(r)>> \o RemoveFirst(lru_list, HostName(r))
  <2>1. /\ lru \in Seq(Hosts) /\ IsInjective(lru) /\ Range(lru) = HostsIn(data)
        /\ data \in [Hosts -> Requests \cup {None}]
        /\ host_data' = EvictIfNeeded(data, lru).data
        /\ lru_list' = EvictIfNeeded(data, lru).lru
    BY <1>1, CacheReportLists
  <2>. HIDE DEF data, lru
  <2>2. LET kept == EvictIfNeeded(data, lru)
        IN  /\ IsInjective(kept.lru)
            /\ Range(kept.lru) = HostsIn(kept.data)
            /\ Len(kept.lru) <= MaxHosts
    BY <2>1, EvictIfNeededProperties
  <2>. QED  BY <2>1, <2>2 DEF CacheMatchesLru
<1>2. CASE UNCHANGED <<host_data, lru_list>>
  BY <1>2 DEF CacheMatchesLru, HostsIn
<1>. QED
  BY <1>1, <1>2 DEF Next, Joined, vars, cache, Receive, QueueReport, TakeTask,
     CallbackReturns, WorkerReturns, Shutdown, Destroy

LEMMA CacheInit == Init => CacheMatchesLru
<1>. SUFFICES ASSUME Init PROVE CacheMatchesLru
  OBVIOUS
<1>1. lru_list = <<>> /\ HostsIn(host_data) = {} /\ MaxHosts \in Nat
  BY GrpcServerAssumption DEF Init, HostsIn
<1>. QED  BY <1>1 DEF CacheMatchesLru, IsInjective, Range

\* The LRU list and the map of the cache stay in step whatever calls run at once, and
\* neither ever exceeds max_hosts_.
THEOREM CacheCorrect == Spec => []CacheMatchesLru
BY TypeInit, TypeStep, CacheInit, CacheStep, PTL DEF Spec, Safety

-----------------------------------------------------------------------------
(* Eviction.                                                               *)

\* RemoveFirst keeps the order of what it leaves.
LEMMA RemoveFirstOrder ==
  ASSUME NEW S, NEW s \in Seq(S), NEW e,
         NEW i \in DOMAIN RemoveFirst(s, e), NEW j \in DOMAIN RemoveFirst(s, e), i < j
  PROVE  \E m, n \in DOMAIN s :
           m < n /\ s[m] = RemoveFirst(s, e)[i] /\ s[n] = RemoveFirst(s, e)[j]
<1>0. Len(s) \in Nat /\ DOMAIN s = 1..Len(s)
  BY LenProperties
<1>1. CASE RemoveFirst(s, e) = s
  BY <1>1
<1>2. ASSUME NEW k \in 1..Len(s), RemoveFirst(s, e) = RemoveAt(s, k)
      PROVE  \E m, n \in DOMAIN s :
               m < n /\ s[m] = RemoveFirst(s, e)[i] /\ s[n] = RemoveFirst(s, e)[j]
  <2>. DEFINE rest == RemoveFirst(s, e)
              Old(n) == IF n < k THEN n ELSE n + 1
  <2>1. /\ rest \in Seq(S) /\ Len(rest) = Len(s) - 1
        /\ \A n \in 1..(Len(s) - 1) : rest[n] = IF n < k THEN s[n] ELSE s[n + 1]
    BY <1>2, RemoveAtProperties
  <2>2. DOMAIN rest = 1..(Len(s) - 1)
    BY <2>1, LenProperties
  <2>3. i \in 1..(Len(s) - 1) /\ j \in 1..(Len(s) - 1)
    BY <2>2
  <2>. HIDE DEF rest
  <2>4. Old(i) \in DOMAIN s /\ Old(j) \in DOMAIN s /\ Old(i) < Old(j)
    BY <1>0, <2>3
  <2>5. s[Old(i)] = rest[i] /\ s[Old(j)] = rest[j]
    BY <2>1, <2>3
  <2>. QED  BY <2>4, <2>5 DEF rest
<1>. QED  BY <1>1, <1>2, RemoveFirstType

\* EvictIfNeeded keeps a front part of the list and the entries of its hosts as they were,
\* and drops hosts only to leave exactly as many as the capacity.
LEMMA EvictIfNeededKeeps ==
  ASSUME NEW data, NEW lru \in Seq(Hosts), IsInjective(lru), Range(lru) = HostsIn(data)
  PROVE  \E m \in 0..Len(lru) :
           LET kept == EvictIfNeeded(data, lru)
           IN  /\ Len(kept.lru) = m /\ DOMAIN kept.lru = 1..m
               /\ \A i \in 1..m : kept.lru[i] = lru[i]
               /\ \A i \in 1..m : kept.data[lru[i]] = data[lru[i]]
               /\ \A h \in Hosts : kept.data[h] # None => \E i \in 1..m : lru[i] = h
               /\ m = Len(lru) \/ m = MaxHosts
               /\ m <= MaxHosts
<1>0. /\ Len(lru) \in Nat /\ DOMAIN lru = 1..Len(lru)
      /\ \A i \in 1..Len(lru) : lru[i] \in Hosts
      /\ MaxHosts \in Nat \ {0}
  BY LenProperties, ElementOfSeq, GrpcServerAssumption
<1>. DEFINE Popped(k) == {lru[i] : i \in (Len(lru) - k + 1)..Len(lru)}
<1>1. PICK k \in 0..Len(lru) :
        /\ EvictIfNeeded(data, lru) =
             [data |-> [h \in Hosts |-> IF h \in Popped(k) THEN None ELSE data[h]],
              lru  |-> SubSeq(lru, 1, Len(lru) - k)]
        /\ Cardinality(HostsIn(data) \ Popped(k)) <= MaxHosts \/ k = Len(lru)
        /\ \A j \in 0..(k - 1) : ~(Cardinality(HostsIn(data) \ Popped(j)) <= MaxHosts)
  BY EvictIfNeededDef
<1>2. ASSUME NEW j \in 0..Len(lru)
      PROVE  /\ SubSeq(lru, 1, Len(lru) - j) \in Seq(Hosts)
             /\ Len(SubSeq(lru, 1, Len(lru) - j)) = Len(lru) - j
             /\ Cardinality(HostsIn(data) \ Popped(j)) = Len(lru) - j
  <2>. DEFINE n == Len(lru) - j
              front == SubSeq(lru, 1, n)
  <2>1. n \in 0..Len(lru) /\ Len(lru) - j + 1 = n + 1
    BY <1>0
  <2>2. /\ front \in Seq(Hosts) /\ Len(front) = n /\ IsInjective(front)
        /\ Range(front) = Range(lru) \ {lru[i] : i \in (n + 1)..Len(lru)}
    <3>. HIDE DEF n
    <3>. QED  BY <2>1, PrefixProperties
  <2>3. Cardinality(Range(front)) = n
    <3>. HIDE DEF n, front
    <3>. QED  BY <2>2, LengthOfInjective
  <2>. QED  BY <2>2, <2>3
<1>. DEFINE m == Len(lru) - k
            kept == EvictIfNeeded(data, lru)
<1>3. m \in 0..Len(lru)
  BY <1>0
<1>4. kept.lru = SubSeq(lru, 1, m) /\ Len(kept.lru) = m /\ kept.lru \in Seq(Hosts)
  BY <1>1, <1>2
<1>5. DOMAIN kept.lru = 1..m
  BY <1>4, LenProperties
<1>6. \A i \in 1..m : kept.lru[i] = lru[i]
  <2>1. 1 \in Int /\ m \in Int /\ \A i \in 1..m : lru[i] \in Hosts
    BY <1>0
  <2>2. \A i \in 1..m : SubSeq(lru, 1, m)[i] = lru[i]
    <3>. HIDE DEF m
    <3>1. \A i \in 1..(m - 1 + 1) : SubSeq(lru, 1, m)[i] = lru[1 + i - 1]
      BY <2>1, SubSeqProperties
    <3>. QED  BY <2>1, <3>1
  <2>. QED  BY <1>4, <2>2
<1>7. \A i, j \in 1..Len(lru) : lru[i] = lru[j] => i = j
  BY <1>0 DEF IsInjective
<1>8. \A i \in 1..m : kept.data[lru[i]] = data[lru[i]]
  <2>. SUFFICES ASSUME NEW i \in 1..m PROVE kept.data[lru[i]] = data[lru[i]]
    OBVIOUS
  <2>1. i \in 1..Len(lru) /\ lru[i] \in Hosts /\ i \notin (Len(lru) - k + 1)..Len(lru)
    BY <1>0
  <2>2. lru[i] \notin Popped(k)
    BY <1>0, <1>7, <2>1
  <2>. QED  BY <1>1, <2>1, <2>2
<1>9. \A h \in Hosts : kept.data[h] # None => \E i \in 1..m : lru[i] = h
  <2>. SUFFICES ASSUME NEW h \in Hosts, kept.data[h] # None PROVE \E i \in 1..m : lru[i] = h
    OBVIOUS
  <2>1. h \notin Popped(k) /\ data[h] # None
    BY <1>1
  <2>2. h \in Range(lru)
    BY <2>1 DEF HostsIn
  <2>3. PICK i \in 1..Len(lru) : lru[i] = h
    BY <1>0, <2>2 DEF Range
  <2>4. i \in 1..m
    BY <1>0, <2>1, <2>3
  <2>. QED  BY <2>3, <2>4
<1>10. m <= MaxHosts
  <2>1. Cardinality(HostsIn(data) \ Popped(k)) = m
    BY <1>2
  <2>2. m <= MaxHosts \/ k = Len(lru)
    BY <1>1, <2>1
  <2>3. Len(lru) \in Nat /\ MaxHosts \in Nat /\ k \in Nat
    BY <1>0
  <2>. QED  BY <2>2, <2>3
<1>11. m = Len(lru) \/ m = MaxHosts
  <2>1. CASE k = 0
    BY <1>0, <2>1
  <2>2. CASE k > 0
    <3>1. k - 1 \in 0..(k - 1) /\ k - 1 \in 0..Len(lru)
      BY <1>0, <2>2
    <3>2. ~(Cardinality(HostsIn(data) \ Popped(k - 1)) <= MaxHosts)
      BY <1>1, <3>1
    <3>3. Cardinality(HostsIn(data) \ Popped(k - 1)) = Len(lru) - (k - 1)
      BY <1>2, <3>1
    <3>4. ~(m + 1 <= MaxHosts)
      BY <1>0, <3>2, <3>3
    <3>5. m \in Nat /\ MaxHosts \in Nat
      BY <1>0
    <3>. HIDE DEF m
    <3>. QED  BY <1>10, <3>4, <3>5
  <2>3. k \in Nat
    BY <1>0
  <2>. QED  BY <2>1, <2>2, <2>3
<1>. HIDE DEF m, kept
<1>. WITNESS m \in 0..Len(lru)
<1>. QED  BY <1>4, <1>5, <1>6, <1>8, <1>9, <1>10, <1>11 DEF kept

\* The latest report of a host is one of its reports, and none of its reports is later.
LEMMA LatestFacts ==
  ASSUME TypeOK, NEW h
  PROVE  /\ LatestCached(h) \in 0..Len(cached)
         /\ LatestCached(h) # 0 => HostName(cached[LatestCached(h)]) = h
<1>. DEFINE at == {i \in DOMAIN cached : HostName(cached[i]) = h}
<1>0. Len(cached) \in Nat /\ DOMAIN cached = 1..Len(cached)
  BY LenProperties DEF TypeOK
<1>1. CASE at = {}
  BY <1>0, <1>1 DEF LatestCached
<1>2. CASE at # {}
  <2>. DEFINE T == {Len(cached) - i : i \in at}
  <2>1. T \in SUBSET Nat /\ T # {}
    BY <1>0, <1>2
  <2>2. PICK k \in T : \A j \in T : k <= j
    <3>. HIDE DEF T
    <3>. QED  BY <2>1, LeastExists
  <2>3. PICK m \in at : k = Len(cached) - m
    BY <2>2
  <2>4. \A i \in at : m >= i
    <3>. SUFFICES ASSUME NEW i \in at PROVE m >= i
      OBVIOUS
    <3>1. i \in Nat /\ m \in Nat /\ Len(cached) - i \in T
      BY <1>0
    <3>2. k <= Len(cached) - i
      BY <2>2, <3>1
    <3>. QED  BY <1>0, <2>3, <3>1, <3>2
  <2>5. Max(at) \in at
    <3>. HIDE DEF at
    <3>. QED  BY <2>3, <2>4 DEF Max
  <2>. QED  BY <1>0, <1>2, <2>5 DEF LatestCached
<1>. QED  BY <1>1, <1>2

\* Caching a report makes it the latest of its host and of no other.
LEMMA LatestStep ==
  ASSUME TypeOK, NEW r \in Requests, cached' = Append(cached, r)
  PROVE  /\ LatestCached(HostName(r))' = Len(cached) + 1
         /\ \A g : g # HostName(r) => LatestCached(g)' = LatestCached(g)
         /\ \A i \in 1..Len(cached) : cached'[i] = cached[i]
         /\ cached'[Len(cached) + 1] = r
<1>0. Len(cached) \in Nat /\ DOMAIN cached = 1..Len(cached) /\ cached \in Seq(Requests)
  BY LenProperties DEF TypeOK
<1>1. /\ cached' \in Seq(Requests) /\ Len(cached') = Len(cached) + 1
      /\ \A i \in 1..Len(cached) : cached'[i] = cached[i]
      /\ cached'[Len(cached) + 1] = r
  BY <1>0, AppendProperties
<1>2. DOMAIN cached' = 1..(Len(cached) + 1)
  BY <1>1, LenProperties
<1>3. LatestCached(HostName(r))' = Len(cached) + 1
  <2>. DEFINE at == {i \in DOMAIN cached' : HostName(cached'[i]) = HostName(r)}
  <2>1. Len(cached) + 1 \in at /\ \A i \in at : Len(cached) + 1 >= i /\ i \in Nat
    BY <1>0, <1>1, <1>2
  <2>2. Max(at) = Len(cached) + 1
    <3>1. Max(at) \in at /\ \A i \in at : Max(at) >= i
      <4>. HIDE DEF at
      <4>. QED  BY <2>1 DEF Max
    <3>. HIDE DEF at
    <3>. QED  BY <1>0, <2>1, <3>1
  <2>3. at # {}
    BY <2>1
  <2>4. LatestCached(HostName(r))' = IF at = {} THEN 0 ELSE Max(at)
    BY DEF LatestCached, HostName
  <2>. QED  BY <2>2, <2>3, <2>4
<1>4. ASSUME NEW g, g # HostName(r)
      PROVE  LatestCached(g)' = LatestCached(g)
  <2>1. {i \in DOMAIN cached' : HostName(cached'[i]) = g}
          = {i \in DOMAIN cached : HostName(cached[i]) = g}
    BY <1>0, <1>1, <1>2, <1>4
  <2>. QED  BY <2>1 DEF LatestCached, HostName
<1>. QED  BY <1>1, <1>3, <1>4

\* A host in the cache has reported.
HostsReported == \A h \in HostsIn(host_data) : LatestCached(h) # 0

EvictInv == TypeInv /\ CacheMatchesLru /\ HostsReported /\ EvictsLongestSilent

\* A report goes to the front of the list and leaves the other hosts in their order; then
\* the list is cut at the back, so that only the hosts that reported first are dropped.
LEMMA EvictReport ==
  ASSUME EvictInv, NEW r \in Requests, CacheReport(r)
  PROVE  HostsReported' /\ EvictsLongestSilent'
<1>. DEFINE h == HostName(r)
            data == [host_data EXCEPT ![h] = r]
            rest == RemoveFirst(lru_list, h)
            lru  == <<h>> \o rest
            n    == Len(cached)
            Old(g) == LatestCached(g)
            New(g) == LET at == {i \in DOMAIN cached' : HostName(cached'[i]) = g}
                      IN  IF at = {} THEN 0 ELSE Max(at)
<1>0. TypeInv /\ TypeOK /\ CacheMatchesLru /\ HostsReported /\ EvictsLongestSilent
  BY DEF EvictInv, TypeInv
<1>1. /\ h \in Hosts /\ r # None
      /\ rest \in Seq(Hosts) /\ h \notin Range(rest)
      /\ lru \in Seq(Hosts) /\ IsInjective(lru) /\ Range(lru) = HostsIn(data)
      /\ HostsIn(data) = HostsIn(host_data) \cup {h}
      /\ host_data' = EvictIfNeeded(data, lru).data
      /\ lru_list' = EvictIfNeeded(data, lru).lru
  BY <1>0, CacheReportLists
<1>2. /\ New(h) = n + 1
      /\ \A g : g # h => New(g) = Old(g)
      /\ \A i \in 1..n : cached'[i] = cached[i]
      /\ cached'[n + 1] = r
  <2>1. cached' = Append(cached, r)
    BY DEF CacheReport
  <2>2. \A g : LatestCached(g)' = New(g)
    BY DEF LatestCached, HostName
  <2>3. /\ LatestCached(h)' = n + 1
        /\ \A g : g # h => LatestCached(g)' = LatestCached(g)
        /\ \A i \in 1..n : cached'[i] = cached[i]
        /\ cached'[n + 1] = r
    BY <1>0, <2>1, LatestStep
  <2>4. LatestCached(h)' = New(h)
    BY DEF LatestCached, HostName
  <2>. HIDE DEF New
  <2>. QED  BY <2>2, <2>3, <2>4
<1>3. n \in Nat /\ \A g : Old(g) \in 0..n
  BY <1>0, LatestFacts, LenProperties DEF TypeOK
<1>4. /\ \A g \in HostsIn(data) : g # h => g \in HostsIn(host_data) /\ data[g] = host_data[g]
      /\ data[h] = r /\ \A g \in HostsIn(data) : g \in Hosts
  BY <1>0, <1>1 DEF HostsIn, TypeOK
<1>5. PICK m \in 0..Len(lru) :
        /\ Len(lru_list') = m /\ DOMAIN lru_list' = 1..m
        /\ \A i \in 1..m : lru_list'[i] = lru[i]
        /\ \A i \in 1..m : host_data'[lru[i]] = data[lru[i]]
        /\ \A g \in Hosts : host_data'[g] # None => \E i \in 1..m : lru[i] = g
        /\ m = Len(lru) \/ m = MaxHosts
        /\ m <= MaxHosts
  <2>. DEFINE kept == EvictIfNeeded(data, lru)
  <2>. HIDE DEF data, lru
  <2>1. PICK m \in 0..Len(lru) :
          /\ Len(kept.lru) = m /\ DOMAIN kept.lru = 1..m
          /\ \A i \in 1..m : kept.lru[i] = lru[i]
          /\ \A i \in 1..m : kept.data[lru[i]] = data[lru[i]]
          /\ \A g \in Hosts : kept.data[g] # None => \E i \in 1..m : lru[i] = g
          /\ m = Len(lru) \/ m = MaxHosts
          /\ m <= MaxHosts
    <3>1. lru \in Seq(Hosts) /\ IsInjective(lru) /\ Range(lru) = HostsIn(data)
      BY <1>1
    <3>. QED  BY <3>1, EvictIfNeededKeeps
  <2>2. kept.lru = lru_list' /\ kept.data = host_data'
    BY <1>1
  <2>. HIDE DEF kept
  <2>. QED  BY <2>1, <2>2
<1>6. /\ Len(lru) \in Nat /\ DOMAIN lru = 1..Len(lru)
      /\ lru[1] = h
      /\ \A i \in 2..Len(lru) : i - 1 \in DOMAIN rest /\ lru[i] = rest[i - 1]
  <2>1. <<h>> \in Seq(Hosts) /\ Len(<<h>>) = 1 /\ <<h>>[1] = h
    BY <1>1
  <2>2. Len(rest) \in Nat /\ DOMAIN rest = 1..Len(rest)
    BY <1>1, LenProperties
  <2>. HIDE DEF rest, h
  <2>3. /\ Len(lru) = 1 + Len(rest) /\ lru \in Seq(Hosts)
        /\ \A i \in 1..(1 + Len(rest)) :
             lru[i] = IF i <= 1 THEN <<h>>[i] ELSE rest[i - 1]
    BY <1>1, <2>1, ConcatProperties
  <2>4. DOMAIN lru = 1..Len(lru)
    BY <2>3, LenProperties
  <2>. QED  BY <2>1, <2>2, <2>3, <2>4
<1>. HIDE DEF lru, data, New
\* The new list is in the order of the latest reports.
<1>7. ASSUME NEW i \in DOMAIN lru, NEW j \in DOMAIN lru, i < j
      PROVE  New(lru[i]) > New(lru[j])
  <2>1. j \in 2..Len(lru) /\ j - 1 \in DOMAIN rest /\ lru[j] = rest[j - 1]
    BY <1>6, <1>7
  <2>2. lru[j] # h /\ New(lru[j]) = Old(lru[j])
    <3>1. rest[j - 1] \in Range(rest)
      BY <2>1 DEF Range
    <3>. QED  BY <1>1, <1>2, <2>1, <3>1
  <2>3. CASE i = 1
    <3>1. New(lru[i]) = n + 1 /\ Old(lru[j]) \in 0..n
      BY <1>2, <1>3, <1>6, <2>3
    <3>. QED  BY <1>3, <2>2, <3>1
  <2>4. CASE i # 1
    <3>1. i \in 2..Len(lru) /\ i - 1 \in DOMAIN rest /\ lru[i] = rest[i - 1]
      BY <1>6, <2>4
    <3>2. i - 1 < j - 1
      BY <1>6, <1>7
    <3>3. New(lru[i]) = Old(lru[i])
      <4>1. rest[i - 1] \in Range(rest)
        BY <3>1 DEF Range
      <4>. QED  BY <1>1, <1>2, <3>1, <4>1
    <3>4. lru_list \in Seq(Hosts)
      BY <1>0 DEF TypeOK
    <3>5. PICK a, b \in DOMAIN lru_list : a < b /\ lru_list[a] = lru[i] /\ lru_list[b] = lru[j]
      BY <2>1, <3>1, <3>2, <3>4, RemoveFirstOrder
    <3>6. Old(lru_list[a]) > Old(lru_list[b])
      BY <1>0, <3>5 DEF EvictsLongestSilent
    <3>. QED  BY <2>2, <3>3, <3>5, <3>6
  <2>. QED  BY <2>3, <2>4
<1>8. ASSUME NEW g \in HostsIn(host_data')
      PROVE  /\ \E i \in 1..m : i \in DOMAIN lru /\ lru[i] = g
             /\ g \in HostsIn(data) /\ host_data'[g] = data[g]
  <2>1. g \in Hosts /\ host_data'[g] # None
    BY DEF HostsIn
  <2>2. PICK i \in 1..m : lru[i] = g
    BY <1>5, <2>1
  <2>3. i \in DOMAIN lru
    BY <1>6
  <2>4. lru[i] \in HostsIn(data) /\ host_data'[lru[i]] = data[lru[i]]
    BY <1>1, <1>5, <2>3 DEF Range
  <2>. QED  BY <2>2, <2>3, <2>4
<1>9. ASSUME NEW i \in 1..m
      PROVE  lru[i] \in HostsIn(host_data')
  <2>1. i \in DOMAIN lru
    BY <1>6
  <2>2. lru[i] \in HostsIn(data)
    BY <1>1, <2>1 DEF Range
  <2>. QED  BY <1>5, <2>2 DEF HostsIn
<1>10. ASSUME NEW g \in HostsIn(host_data')
       PROVE  New(g) # 0 /\ host_data'[g] = cached'[New(g)]
  <2>1. g \in HostsIn(data) /\ host_data'[g] = data[g]
    BY <1>8
  <2>2. CASE g = h
    BY <1>2, <1>3, <1>4, <2>1, <2>2
  <2>3. CASE g # h
    <3>1. g \in HostsIn(host_data) /\ data[g] = host_data[g]
      BY <1>4, <2>1, <2>3
    <3>2. Old(g) # 0 /\ host_data[g] = cached[Old(g)]
      BY <1>0, <3>1 DEF HostsReported, EvictsLongestSilent
    <3>3. Old(g) \in 1..n
      BY <1>3, <3>2
    <3>. QED  BY <1>2, <2>1, <2>3, <3>1, <3>2, <3>3
  <2>. QED  BY <2>2, <2>3
<1>11. ASSUME NEW i \in DOMAIN lru_list', NEW j \in DOMAIN lru_list', i < j
       PROVE  New(lru_list'[i]) > New(lru_list'[j])
  <2>1. i \in 1..m /\ j \in 1..m
    BY <1>5
  <2>2. i \in DOMAIN lru /\ j \in DOMAIN lru
    BY <1>6, <2>1
  <2>3. lru_list'[i] = lru[i] /\ lru_list'[j] = lru[j]
    BY <1>5, <2>1
  <2>. QED  BY <1>7, <1>11, <2>2, <2>3
<1>12. ASSUME NEW q \in Hosts \ HostsIn(host_data'), NEW g \in HostsIn(host_data')
       PROVE  New(q) < New(g)
  <2>1. PICK i \in 1..m : i \in DOMAIN lru /\ lru[i] = g
    BY <1>8
  <2>2. g \in HostsIn(data)
    BY <1>8
  <2>3. CASE q \in HostsIn(data)
    <3>1. PICK j \in DOMAIN lru : lru[j] = q
      BY <1>1, <2>3 DEF Range
    <3>2. j \notin 1..m
      BY <1>9, <3>1
    <3>3. i < j
      BY <1>6, <3>2
    <3>4. New(lru[i]) > New(lru[j])
      BY <1>7, <2>1, <3>3
    <3>5. New(lru[i]) \in Nat /\ New(lru[j]) \in Nat
      BY <1>2, <1>3
    <3>. QED  BY <2>1, <3>1, <3>4, <3>5
  <2>4. CASE q \notin HostsIn(data)
    <3>1. q # h /\ q \in Hosts \ HostsIn(host_data) /\ New(q) = Old(q)
      BY <1>1, <1>2, <2>4
    <3>2. CASE g = h
      BY <1>2, <1>3, <3>1, <3>2
    <3>3. CASE g # h
      <4>1. g \in HostsIn(host_data) /\ New(g) = Old(g)
        BY <1>2, <1>4, <2>2, <3>3
      <4>2. Old(q) < Old(g)
        BY <1>0, <3>1, <4>1 DEF EvictsLongestSilent
      <4>. QED  BY <3>1, <4>1, <4>2
    <3>. QED  BY <3>2, <3>3
  <2>. QED  BY <2>3, <2>4
<1>13. ASSUME NEW q \in Hosts \ HostsIn(host_data'), New(q) # 0
       PROVE  Len(lru_list') = MaxHosts
  <2>1. CASE m = MaxHosts
    BY <1>5, <2>1
  <2>2. CASE m = Len(lru)
    <3>1. q \notin HostsIn(data)
      <4>. SUFFICES ASSUME q \in HostsIn(data) PROVE FALSE
        OBVIOUS
      <4>1. PICK j \in 1..m : lru[j] = q
        BY <1>1, <1>6, <2>2 DEF Range
      <4>. QED  BY <1>9, <4>1
    <3>2. q # h /\ q \in Hosts \ HostsIn(host_data) /\ Old(q) # 0
      BY <1>1, <1>2, <1>13, <3>1
    <3>3. Len(lru_list) = MaxHosts
      BY <1>0, <3>2 DEF EvictsLongestSilent
    <3>4. /\ Cardinality(HostsIn(host_data)) = MaxHosts
          /\ Cardinality(HostsIn(data)) = m /\ IsFiniteSet(HostsIn(data))
      <4>1. lru_list \in Seq(Hosts) /\ IsInjective(lru_list) /\ Range(lru_list) = HostsIn(host_data)
        BY <1>0 DEF TypeOK, CacheMatchesLru
      <4>. QED  BY <1>1, <2>2, <3>3, <4>1, LengthOfInjective
    <3>5. HostsIn(host_data) \subseteq HostsIn(data)
      BY <1>1
    <3>6. MaxHosts <= m
      BY <3>4, <3>5, FS_Subset
    <3>7. MaxHosts \in Nat /\ m \in Nat
      BY <1>6, GrpcServerAssumption
    <3>. QED  BY <1>5, <3>6, <3>7
  <2>. QED  BY <1>5, <2>1, <2>2
<1>14. HostsReported'
  <2>1. \A g \in HostsIn(host_data') : New(g) # 0
    BY <1>10
  <2>. QED  BY <2>1 DEF HostsReported, HostsIn, LatestCached, HostName, New
<1>15. /\ \A g \in HostsIn(host_data') : host_data'[g] = cached'[New(g)]
       /\ \A i, j \in DOMAIN lru_list' : i < j => New(lru_list'[i]) > New(lru_list'[j])
       /\ \A q \in Hosts \ HostsIn(host_data'), g \in HostsIn(host_data') : New(q) < New(g)
       /\ (\E q \in Hosts \ HostsIn(host_data') : New(q) # 0) => Len(lru_list') = MaxHosts
  BY <1>10, <1>11, <1>12, <1>13
<1>. QED  BY <1>14, <1>15 DEF EvictsLongestSilent, HostsIn, LatestCached, HostName, New

\* The cache holds the hosts that reported last, each with its latest report: whatever
\* calls run at once, EvictIfNeeded drops the hosts that have been silent longest.
THEOREM EvictionCorrect == Spec => []EvictsLongestSilent
<1>1. Init => HostsReported /\ EvictsLongestSilent
  <2>. SUFFICES ASSUME Init PROVE HostsReported /\ EvictsLongestSilent
    OBVIOUS
  <2>1. lru_list = <<>> /\ HostsIn(host_data) = {} /\ cached = <<>>
    BY DEF Init, HostsIn
  <2>2. \A h : LatestCached(h) = 0
    BY <2>1 DEF LatestCached
  <2>. QED  BY <2>1, <2>2 DEF HostsReported, EvictsLongestSilent
<1>2. EvictInv /\ [Next]_vars => HostsReported' /\ EvictsLongestSilent'
  <2>. SUFFICES ASSUME EvictInv, [Next]_vars PROVE HostsReported' /\ EvictsLongestSilent'
    OBVIOUS
  <2>1. ASSUME NEW r \in Requests, CacheReport(r) PROVE HostsReported' /\ EvictsLongestSilent'
    BY <2>1, EvictReport
  <2>2. CASE UNCHANGED cache
    <3>1. host_data' = host_data /\ lru_list' = lru_list /\ cached' = cached
      BY <2>2 DEF cache
    <3>2. HostsReported /\ EvictsLongestSilent
      BY DEF EvictInv
    <3>3. HostsReported'
      BY <3>1, <3>2 DEF HostsReported, HostsIn, LatestCached
    <3>4. EvictsLongestSilent'
      <4>. DEFINE New(g) == LET at == {i \in DOMAIN cached' : HostName(cached'[i]) = g}
                            IN  IF at = {} THEN 0 ELSE Max(at)
      <4>1. \A g : New(g) = LatestCached(g)
        BY <3>1 DEF LatestCached
      <4>. HIDE DEF New
      <4>2. /\ \A g \in HostsIn(host_data') : host_data'[g] = cached'[New(g)]
            /\ \A i, j \in DOMAIN lru_list' : i < j => New(lru_list'[i]) > New(lru_list'[j])
            /\ \A q \in Hosts \ HostsIn(host_data'), g \in HostsIn(host_data') : New(q) < New(g)
            /\ (\E q \in Hosts \ HostsIn(host_data') : New(q) # 0) => Len(lru_list') = MaxHosts
        BY <3>1, <3>2, <4>1 DEF EvictsLongestSilent
      <4>. QED  BY <4>2 DEF EvictsLongestSilent, HostsIn, LatestCached, HostName, New
    <3>. QED  BY <3>3, <3>4
  <2>. QED
    BY <2>1, <2>2 DEF Next, Joined, vars, Receive, QueueReport, TakeTask, CallbackReturns,
       WorkerReturns, Shutdown, Destroy
<1>3. Init => EvictInv
  <2>1. Init => CacheMatchesLru
    BY CacheInit
  <2>. QED  BY TypeInit, <1>1, <2>1 DEF EvictInv
<1>4. EvictInv /\ [Next]_vars => EvictInv'
  BY TypeStep, CacheStep, <1>2 DEF EvictInv
<1>5. EvictInv => EvictsLongestSilent
  BY DEF EvictInv
<1>. QED  BY <1>3, <1>4, <1>5, PTL DEF Spec, Safety

-----------------------------------------------------------------------------
(* The queue.                                                              *)

\* Only QueueReport extends the accepted reports; WorkerThread moves them on.
LEMMA QueueStep == TypeInv /\ AcknowledgedOnce /\ [Next]_vars => AcknowledgedOnce'
<1>. SUFFICES ASSUME TypeInv, AcknowledgedOnce, [Next]_vars PROVE AcknowledgedOnce'
  OBVIOUS
<1>. USE DEF TypeInv, TypeOK
<1>0. Hand \in Seq(Requests) /\ delivered \o Hand \in Seq(Requests)
  <2>1. Hand \in Seq(Requests)
    BY DEF Hand
  <2>. QED  BY <2>1, ConcatProperties
<1>1. ASSUME NEW r \in Requests, QueueReport(r) PROVE AcknowledgedOnce'
  <2>0. /\ call[r] = "cached" /\ call' = [call EXCEPT ![r] = "ok"]
        /\ task_queue' = Append(task_queue, r) /\ accepted' = Append(accepted, r)
        /\ UNCHANGED <<task, delivered>>
    BY <1>1 DEF QueueReport, worker
  <2>1. accepted' = delivered' \o Hand' \o task_queue'
    <3>1. <<r>> \in Seq(Requests)
      OBVIOUS
    <3>2. Append(task_queue, r) = task_queue \o <<r>> /\ Append(accepted, r) = accepted \o <<r>>
      BY AppendIsConcat
    <3>3. ((delivered \o Hand) \o task_queue) \o <<r>> = (delivered \o Hand) \o (task_queue \o <<r>>)
      <4>1. \A front \in Seq(Requests) :
              (front \o task_queue) \o <<r>> = front \o (task_queue \o <<r>>)
        BY <3>1, ConcatAssociative
      <4>. QED  BY <1>0, <4>1
    <3>4. delivered' \o Hand' = delivered \o Hand
      BY <2>0 DEF Hand
    <3>. QED  BY <2>0, <3>2, <3>3, <3>4 DEF AcknowledgedOnce
  <2>2. r \notin Range(accepted)
    BY <2>0 DEF AcknowledgedOnce
  <2>3. IsInjective(accepted') /\ Range(accepted') = Range(accepted) \cup {r}
    <3>1. accepted \in Seq(Requests) /\ IsInjective(accepted)
      BY DEF AcknowledgedOnce
    <3>2. IsInjective(Append(accepted, r)) /\ Range(Append(accepted, r)) = Range(accepted) \cup {r}
      BY <2>2, <3>1, AppendNewProperties
    <3>. QED  BY <2>0, <3>2
  <2>4. Range(accepted') = {q \in Requests : call'[q] = "ok"}
    BY <2>0, <2>3 DEF AcknowledgedOnce
  <2>. QED  BY <2>1, <2>3, <2>4 DEF AcknowledgedOnce
<1>2. CASE TakeTask
  <2>0. /\ task = None /\ task_queue # <<>>
        /\ task' = Head(task_queue) /\ task_queue' = Tail(task_queue)
        /\ UNCHANGED <<accepted, delivered, call>>
    BY <1>2 DEF TakeTask
  <2>1. Head(task_queue) \in Requests /\ Tail(task_queue) \in Seq(Requests)
    BY <2>0, HeadTailProperties
  <2>2. Hand = <<>> /\ Hand' = <<Head(task_queue)>>
    BY <2>0, <2>1, GrpcServerAssumption DEF Hand
  <2>3. task_queue = <<Head(task_queue)>> \o Tail(task_queue)
    <3>1. Len(task_queue) \in Nat /\ Len(task_queue) # 0
      BY <2>0, EmptySeq
    <3>2. /\ Tail(task_queue) = SubSeq(task_queue, 2, Len(task_queue))
          /\ SubSeq(task_queue, 1, Len(task_queue)) = task_queue
      BY <2>0, TailIsSubSeq, SubSeqFull
    <3>3. SubSeq(task_queue, 1, Len(task_queue)) =
            <<task_queue[1]>> \o SubSeq(task_queue, 1 + 1, Len(task_queue))
      <4>1. 1 \in 1..Len(task_queue) /\ Len(task_queue) \in 1..Len(task_queue)
        BY <3>1
      <4>. QED  BY <4>1, SubSeqRecursiveFirst
    <3>4. Head(task_queue) = task_queue[1]
      BY <2>0
    <3>. QED  BY <3>2, <3>3, <3>4
  <2>4. (delivered \o Hand) \o task_queue = (delivered' \o Hand') \o task_queue'
    <3>1. delivered \o <<>> = delivered
      BY ConcatEmptySeq
    <3>2. <<Head(task_queue)>> \in Seq(Requests)
      BY <2>1
    <3>3. (delivered \o <<Head(task_queue)>>) \o Tail(task_queue)
            = delivered \o (<<Head(task_queue)>> \o Tail(task_queue))
      BY <2>1, <3>2, ConcatAssociative
    <3>. QED  BY <2>0, <2>2, <2>3, <3>1, <3>3
  <2>. QED  BY <2>0, <2>4 DEF AcknowledgedOnce
<1>3. CASE CallbackReturns
  <2>0. /\ task \in Requests /\ task' = None /\ delivered' = Append(delivered, task)
        /\ UNCHANGED <<task_queue, accepted, call>>
    BY <1>3 DEF CallbackReturns, queue
  <2>1. Hand = <<task>> /\ Hand' = <<>>
    BY <2>0, GrpcServerAssumption DEF Hand
  <2>2. delivered' = delivered \o <<task>> /\ delivered' \in Seq(Requests)
    BY <2>0, AppendIsConcat, AppendProperties
  <2>3. delivered' \o <<>> = delivered'
    BY <2>2, ConcatEmptySeq
  <2>. QED  BY <2>0, <2>1, <2>2, <2>3 DEF AcknowledgedOnce
<1>4. CASE /\ UNCHANGED <<task_queue, accepted, task, delivered>>
           /\ \A q \in Requests : call'[q] = "ok" <=> call[q] = "ok"
  BY <1>4 DEF AcknowledgedOnce, Hand
<1>5. ASSUME NEW r \in Requests, Receive(r) \/ CacheReport(r) PROVE AcknowledgedOnce'
  <2>1. /\ UNCHANGED <<task_queue, accepted, task, delivered>>
        /\ \A q \in Requests : call'[q] = "ok" <=> call[q] = "ok"
    BY <1>5 DEF Receive, CacheReport, queue, worker
  <2>. QED  BY <2>1, <1>4
<1>6. CASE WorkerReturns \/ Shutdown \/ Destroy \/ UNCHANGED vars
  <2>1. UNCHANGED <<task_queue, accepted, task, delivered, call>>
    BY <1>6 DEF WorkerReturns, Shutdown, Destroy, vars, queue, worker
  <2>. QED  BY <2>1, <1>4
<1>. QED  BY <1>1, <1>2, <1>3, <1>5, <1>6 DEF Next, Joined

-----------------------------------------------------------------------------
(* The end of the service.                                                 *)

\* running_ is cleared when no call is in progress and none can come, and WorkerThread
\* leaves its loop only after that, with nothing in the queue or in hand.
Drained ==
  /\ ~running => ~accepting /\ InProgress = {}
  /\ worker_thread = "exited" => ~running /\ task = None /\ task_queue = <<>>

\* Nothing the calls or WorkerThread do once running_ is cleared brings work back.
LEMMA DrainedStep == TypeInv /\ Drained /\ [Next]_vars => Drained'
<1>. SUFFICES ASSUME TypeInv, Drained, [Next]_vars PROVE Drained'
  OBVIOUS
<1>. USE DEF TypeInv, TypeOK, Drained, InProgress, queue, worker, server
<1>1. ASSUME NEW r \in Requests, Receive(r) PROVE Drained'
  BY <1>1 DEF Receive
<1>2. ASSUME NEW r \in Requests, CacheReport(r) PROVE Drained'
  <2>1. /\ call[r] = "received" /\ UNCHANGED <<running, accepting, worker_thread, task, task_queue>>
    BY <1>2 DEF CacheReport
  <2>. QED  BY <2>1
<1>3. ASSUME NEW r \in Requests, QueueReport(r) PROVE Drained'
  BY <1>3 DEF QueueReport
<1>4. CASE TakeTask
  BY <1>4 DEF TakeTask
<1>5. CASE CallbackReturns
  BY <1>5 DEF CallbackReturns
<1>6. CASE WorkerReturns \/ Shutdown \/ Destroy
  BY <1>6 DEF WorkerReturns, Shutdown, Destroy
<1>7. CASE UNCHANGED vars
  BY <1>7 DEF vars
<1>. QED  BY <1>1, <1>2, <1>3, <1>4, <1>5, <1>6, <1>7 DEF Next, Joined

\* What the queue, the hand and the processed reports add up to.
LEMMA LengthOfAccepted ==
  ASSUME TypeInv, AcknowledgedOnce
  PROVE  /\ Len(accepted) = Len(delivered) + Len(Hand) + Len(task_queue)
         /\ Len(delivered) \in Nat /\ Len(Hand) \in Nat /\ Len(task_queue) \in Nat
         /\ Hand = <<>> /\ task_queue = <<>> => accepted = delivered
<1>1. Hand \in Seq(Requests) /\ delivered \in Seq(Requests) /\ task_queue \in Seq(Requests)
  BY DEF Hand, TypeInv, TypeOK
<1>2. /\ delivered \o Hand \in Seq(Requests)
      /\ Len(delivered \o Hand) = Len(delivered) + Len(Hand)
  BY <1>1, ConcatProperties
<1>3. Len((delivered \o Hand) \o task_queue) = Len(delivered \o Hand) + Len(task_queue)
  <2>1. \A front \in Seq(Requests) : Len(front \o task_queue) = Len(front) + Len(task_queue)
    BY <1>1, ConcatProperties
  <2>. QED  BY <1>2, <2>1
<1>4. (delivered \o <<>>) \o <<>> = delivered
  BY <1>1, ConcatEmptySeq
<1>5. Len(delivered) \in Nat /\ Len(Hand) \in Nat /\ Len(task_queue) \in Nat
  BY <1>1, LenProperties
<1>6. accepted = (delivered \o Hand) \o task_queue
  BY DEF AcknowledgedOnce
<1>. QED  BY <1>2, <1>3, <1>4, <1>5, <1>6

QueueInv == TypeInv /\ AcknowledgedOnce /\ Drained

LEMMA QueueInit == Init => QueueInv
<1>. SUFFICES ASSUME Init PROVE AcknowledgedOnce /\ Drained
  BY TypeInit DEF QueueInv
<1>. QED
  <2>1. /\ accepted = <<>> /\ delivered = <<>> /\ Hand = <<>> /\ task_queue = <<>>
        /\ \A r \in Requests : call[r] = "idle"
    BY DEF Init, Hand
  <2>2. <<>> \o <<>> \o <<>> = <<>>
    OBVIOUS
  <2>3. AcknowledgedOnce
    BY <2>1, <2>2 DEF AcknowledgedOnce, IsInjective, Range
  <2>4. Drained
    BY DEF Init, Drained
  <2>. QED  BY <2>3, <2>4

LEMMA QueueInvariant == Safety => []QueueInv
BY QueueInit, TypeStep, QueueStep, DrainedStep, PTL DEF Safety, QueueInv

\* Every report answered OK is in one place, the queue, WorkerThread's hand or the
\* processed ones, once, and keeps its order.
THEOREM QueueCorrect == Spec => []AcknowledgedOnce
<1>1. QueueInv => AcknowledgedOnce
  BY DEF QueueInv
<1>. QED  BY QueueInvariant, <1>1, PTL DEF Spec

\* Once WorkerThread has returned nothing of the accepted reports is left but the processed
\* ones.
LEMMA DrainedFromQueue == QueueInv => DrainedOnExit
<1>. SUFFICES ASSUME QueueInv, worker_thread = "exited"
              PROVE  /\ InProgress = {}
                     /\ Range(delivered) = {r \in Requests : call[r] = "ok"}
  BY DEF DrainedOnExit
<1>1. InProgress = {} /\ Hand = <<>> /\ task_queue = <<>>
  BY DEF QueueInv, Drained, Hand
<1>2. accepted = delivered
  BY <1>1, LengthOfAccepted DEF QueueInv
<1>3. Range(accepted) = {r \in Requests : call[r] = "ok"}
  BY DEF QueueInv, AcknowledgedOnce
<1>. QED  BY <1>1, <1>2, <1>3

\* The destructor loses nothing: once WorkerThread has returned, the callback has run on
\* every report that was answered OK, and no call is left that could be answered OK.
THEOREM DestructorDrains == Spec => []DrainedOnExit
BY QueueInvariant, DrainedFromQueue, PTL DEF Spec

-----------------------------------------------------------------------------
(* The promise of ReportDelivery.                                          *)

\* A step of the service is a step of the promise, or leaves what it speaks of alone.
LEMMA DeliveryStep ==
  QueueInv /\ QueueInv' /\ [Next]_vars => [Delivery!Next]_(Delivery!vars)
<1>. SUFFICES ASSUME QueueInv, QueueInv', [Next]_vars
              PROVE  [Delivery!Next]_(Delivery!vars)
  OBVIOUS
<1>. USE DEF Delivery!Next, Delivery!vars
<1>0. /\ Len(accepted) = Len(delivered) + Len(Hand) + Len(task_queue)
      /\ Len(delivered) \in Nat /\ Len(Hand) \in Nat /\ Len(task_queue) \in Nat
  BY LengthOfAccepted DEF QueueInv
<1>1. ASSUME NEW r \in Requests, QueueReport(r) PROVE Delivery!Accept(r)
  <2>1. worker_thread # "exited"
    BY <1>1 DEF QueueReport, QueueInv, Drained, InProgress
  <2>2. r \notin Range(accepted)
    BY <1>1 DEF QueueReport, QueueInv, AcknowledgedOnce
  <2>3. r \notin Delivery!Accepted
    BY <2>2 DEF Delivery!Accepted, Range
  <2>. QED  BY <1>1, <2>1, <2>3 DEF QueueReport, Delivery!Accept, worker
<1>2. CASE CallbackReturns
  <2>1. Len(Hand) = 1
    BY <1>2 DEF CallbackReturns, Hand
  <2>2. Len(delivered') = Len(delivered) + 1
    <3>1. delivered \in Seq(Requests) /\ task \in Requests /\ delivered' = Append(delivered, task)
      BY <1>2 DEF CallbackReturns, QueueInv, TypeInv, TypeOK
    <3>. QED  BY <3>1, AppendProperties
  <2>3. Len(delivered) < Len(accepted)
    BY <1>0, <2>1
  <2>4. UNCHANGED <<accepted, worker_thread>>
    BY <1>2 DEF CallbackReturns, queue
  <2>5. Delivery!HandOver
    BY <2>2, <2>3, <2>4 DEF Delivery!HandOver
  <2>. QED  BY <2>5
<1>3. CASE WorkerReturns
  <2>1. Hand = <<>> /\ task_queue = <<>>
    BY <1>3 DEF WorkerReturns, Hand
  <2>2. Len(delivered) = Len(accepted)
    BY <1>0, <2>1
  <2>3. Delivery!Finish
    BY <1>3, <2>2 DEF WorkerReturns, Delivery!Finish, queue
  <2>. QED  BY <2>3
<1>4. CASE UNCHANGED <<accepted, delivered, worker_thread>>
  BY <1>4
<1>5. ASSUME NEW r \in Requests, Receive(r) \/ CacheReport(r)
      PROVE  UNCHANGED <<accepted, delivered, worker_thread>>
  BY <1>5 DEF Receive, CacheReport, queue, worker
<1>6. ASSUME TakeTask \/ Shutdown \/ Destroy \/ UNCHANGED vars
      PROVE  UNCHANGED <<accepted, delivered, worker_thread>>
  BY <1>6 DEF TakeTask, Shutdown, Destroy, vars, queue, worker
<1>. QED  BY <1>1, <1>2, <1>3, <1>4, <1>5, <1>6 DEF Next, Joined

\* It needs no fairness for the safety part, so it keeps that wherever it runs.
LEMMA PromiseKept == Safety => DeliverySafety
<1>1. Init => Delivery!Init
  BY DEF Init, Delivery!Init
<1>. QED  BY QueueInvariant, DeliveryStep, <1>1, PTL DEF Safety, DeliverySafety, Delivery!Safety

\* The service keeps the safety part of the promise: what it accepts it hands to the
\* callback once and in order, and it does not finish before it has handed over all.
THEOREM KeepsPromise == Spec => DeliverySafety
BY PromiseKept, PTL DEF Spec
=============================================================================
