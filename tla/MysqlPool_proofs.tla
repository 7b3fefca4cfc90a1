-------------------------- MODULE MysqlPool_proofs --------------------------
(***************************************************************************)
(* What MysqlPool guarantees for any size of the pool, any set of writing  *)
(* threads and any number of outages.                                      *)
(***************************************************************************)
EXTENDS MysqlPool, SequenceTheorems, FiniteSetTheorems, TLAPS

\* Before Init has succeeded nobody has used the pool.
Unused == init # "ok" => /\ pool = <<>> /\ lost = 0
                         /\ borrower = [b \in Borrowers |-> "idle"]

IInv == TypeOK /\ Unused /\ SlotsAccounted

-----------------------------------------------------------------------------
\* One thread's change of state adds it to the holders of a connection, removes it, or
\* leaves it where it was.
LEMMA HoldersChange ==
  ASSUME TypeOK, NEW b \in Borrowers, NEW s \in {"idle", "waiting"} \cup Connection,
         borrower' = [borrower EXCEPT ![b] = s]
  PROVE  /\ Cardinality(Holders) \in Nat /\ Cardinality(Holders') \in Nat
         /\ borrower[b] \notin Connection /\ s \in Connection =>
              Cardinality(Holders') = Cardinality(Holders) + 1
         /\ borrower[b] \in Connection /\ s \notin Connection =>
              Cardinality(Holders') = Cardinality(Holders) - 1
         /\ (borrower[b] \in Connection <=> s \in Connection) => Holders' = Holders
<1>1. IsFiniteSet(Holders) /\ IsFiniteSet(Holders')
  <2>1. Holders \in SUBSET Borrowers /\ Holders' \in SUBSET Borrowers
    BY DEF Holders
  <2>. QED  BY <2>1, FS_Subset, MysqlPoolAssumption
<1>2. Cardinality(Holders) \in Nat /\ Cardinality(Holders') \in Nat
  BY <1>1, FS_CardinalityType
<1>3. ASSUME borrower[b] \notin Connection, s \in Connection
      PROVE  Cardinality(Holders') = Cardinality(Holders) + 1
  <2>1. Holders' = Holders \cup {b} /\ b \notin Holders
    BY <1>3 DEF Holders, TypeOK
  <2>. QED  BY <1>1, <2>1, FS_AddElement
<1>4. ASSUME borrower[b] \in Connection, s \notin Connection
      PROVE  Cardinality(Holders') = Cardinality(Holders) - 1
  <2>1. Holders' = Holders \ {b} /\ b \in Holders
    BY <1>4 DEF Holders, TypeOK
  <2>. QED  BY <1>1, <2>1, FS_RemoveElement
<1>5. ASSUME borrower[b] \in Connection <=> s \in Connection
      PROVE  Holders' = Holders
  BY <1>5 DEF Holders, TypeOK
<1>. QED  BY <1>2, <1>3, <1>4, <1>5

LEMMA InitInv == Start => IInv
<1>. SUFFICES ASSUME Start PROVE IInv
  OBVIOUS
<1>1. TypeOK
  BY MysqlPoolAssumption, EmptySeq DEF Start, TypeOK
<1>. QED  BY <1>1 DEF Start, IInv, Unused, SlotsAccounted

\* MysqlPool::Init fills the pool.
LEMMA InitStep == IInv /\ Init => IInv'
<1>. SUFFICES ASSUME IInv, Init PROVE IInv'
  OBVIOUS
<1>. USE DEF IInv, TypeOK, environment
<1>0. /\ init = "none" /\ lost = 0 /\ pool = <<>>
      /\ borrower = [b \in Borrowers |-> "idle"]
      /\ UNCHANGED <<borrower, lost, db, outages>>
  BY DEF Init, Unused
<1>1. CASE init' = "ok"
  <2>1. pool' = [i \in 1..PoolSize |-> "live"]
    BY <1>1 DEF Init
  <2>2. pool' \in Seq(Connection) /\ Len(pool') = PoolSize
    BY <2>1, MysqlPoolAssumption DEF Connection
  <2>3. Holders' = {} /\ Cardinality({}) = 0
    BY <1>0, FS_EmptySet DEF Holders, Connection
  <2>. QED  BY <1>0, <1>1, <2>2, <2>3, MysqlPoolAssumption DEF Unused, SlotsAccounted
<1>2. CASE init' = "failed"
  BY <1>0, <1>2 DEF Init, Unused, SlotsAccounted
<1>. QED  BY <1>1, <1>2 DEF Init

\* What Acquire and Release move between the pool, the threads and the lost slots.
LEMMA BorrowerStep ==
  ASSUME IInv, NEW b \in Borrowers, Call(b) \/ Acquire(b) \/ AcquireFails(b) \/ Release(b)
  PROVE  IInv'
<1>. USE DEF IInv, TypeOK, environment
<1>0. init = "ok" /\ init' = "ok" /\ Len(pool) + Cardinality(Holders) + lost = PoolSize
  BY DEF Call, Acquire, AcquireFails, Release, Waiting, Unused, SlotsAccounted, Connection
<1>1. Len(pool) \in Nat /\ UNCHANGED <<db, outages>>
  BY LenProperties DEF Call, Acquire, AcquireFails, Release
<1>2. /\ {"idle", "waiting", "live"} \subseteq {"idle", "waiting"} \cup Connection
      /\ "idle" \notin Connection /\ "waiting" \notin Connection /\ "live" \in Connection
  BY DEF Connection
<1>3. ASSUME NEW s \in {"idle", "waiting"} \cup Connection,
             borrower' = [borrower EXCEPT ![b] = s]
      PROVE  /\ Cardinality(Holders) \in Nat
             /\ borrower[b] \notin Connection /\ s \in Connection =>
                  Cardinality(Holders') = Cardinality(Holders) + 1
             /\ borrower[b] \in Connection /\ s \notin Connection =>
                  Cardinality(Holders') = Cardinality(Holders) - 1
             /\ (borrower[b] \in Connection <=> s \in Connection) => Holders' = Holders
  BY <1>3, HoldersChange
<1>4. CASE Call(b)
  <2>1. /\ borrower[b] = "idle" /\ borrower' = [borrower EXCEPT ![b] = "waiting"]
        /\ UNCHANGED <<pool, lost>>
    BY <1>4 DEF Call
  <2>2. Holders' = Holders
    BY <1>2, <1>3, <2>1
  <2>. QED  BY <1>0, <1>1, <2>1, <2>2 DEF Unused, SlotsAccounted
<1>5. CASE Acquire(b)
  <2>1. /\ borrower[b] = "waiting" /\ pool # <<>> /\ pool' = Tail(pool)
        /\ borrower' = [borrower EXCEPT ![b] = "live"] /\ lost' = lost
    BY <1>5 DEF Acquire, Waiting
  <2>2. pool' \in Seq(Connection) /\ Len(pool') = Len(pool) - 1
    BY <2>1, HeadTailProperties
  <2>3. /\ Cardinality(Holders) \in Nat
        /\ Cardinality(Holders') = Cardinality(Holders) + 1
    BY <1>2, <1>3, <2>1
  <2>4. Len(pool') + Cardinality(Holders') + lost' = PoolSize
    BY <1>0, <1>1, <2>1, <2>2, <2>3
  <2>. QED  BY <1>0, <1>1, <2>1, <2>2, <2>4 DEF Unused, SlotsAccounted, Connection
<1>6. CASE AcquireFails(b)
  <2>1. /\ borrower[b] = "waiting" /\ pool # <<>> /\ pool' = Tail(pool)
        /\ borrower' = [borrower EXCEPT ![b] = "idle"] /\ lost' = lost + 1
    BY <1>6 DEF AcquireFails, Waiting
  <2>2. pool' \in Seq(Connection) /\ Len(pool') = Len(pool) - 1
    BY <2>1, HeadTailProperties
  <2>3. Cardinality(Holders) \in Nat /\ Holders' = Holders
    BY <1>2, <1>3, <2>1
  <2>4. Len(pool') + Cardinality(Holders') + lost' = PoolSize
    BY <1>0, <1>1, <2>1, <2>2, <2>3
  <2>. QED  BY <1>0, <1>1, <2>1, <2>2, <2>4 DEF Unused, SlotsAccounted
<1>7. CASE Release(b)
  <2>1. /\ borrower[b] \in Connection /\ pool' = Append(pool, borrower[b])
        /\ borrower' = [borrower EXCEPT ![b] = "idle"] /\ lost' = lost
    BY <1>7 DEF Release
  <2>2. pool' \in Seq(Connection) /\ Len(pool') = Len(pool) + 1
    BY <2>1, AppendProperties
  <2>3. /\ Cardinality(Holders) \in Nat
        /\ Cardinality(Holders') = Cardinality(Holders) - 1
    BY <1>2, <1>3, <2>1
  <2>4. Len(pool') + Cardinality(Holders') + lost' = PoolSize
    BY <1>0, <1>1, <2>1, <2>2, <2>3
  <2>. QED  BY <1>0, <1>1, <2>1, <2>2, <2>4 DEF Unused, SlotsAccounted
<1>. QED  BY <1>4, <1>5, <1>6, <1>7

\* The database kills connections where they are.
LEMMA DatabaseStep == IInv /\ (DatabaseStops \/ DatabaseStarts \/ IdleTimeout) => IInv'
<1>. SUFFICES ASSUME IInv, DatabaseStops \/ DatabaseStarts \/ IdleTimeout PROVE IInv'
  OBVIOUS
<1>. USE DEF IInv, TypeOK, environment
<1>0. Len(pool) \in Nat /\ DOMAIN pool = 1..Len(pool)
  BY LenProperties
<1>1. CASE DatabaseStops
  <2>0. /\ outages' = outages + 1 /\ outages < MaxOutages /\ db' = "down"
        /\ pool' = [i \in DOMAIN pool |-> "dead"]
        /\ borrower' = [b \in Borrowers |-> IF b \in Holders THEN "dead" ELSE borrower[b]]
        /\ UNCHANGED <<init, lost>>
    BY <1>1 DEF DatabaseStops
  <2>1. pool' \in Seq(Connection) /\ Len(pool') = Len(pool)
    BY <1>0, <2>0 DEF Connection
  <2>2. /\ borrower' \in [Borrowers -> {"idle", "waiting"} \cup Connection]
        /\ Holders' = Holders
    BY <2>0 DEF Holders, Connection
  <2>3. outages' \in 0..MaxOutages
    BY <2>0, MysqlPoolAssumption
  <2>4. Unused'
    <3>1. SUFFICES ASSUME init # "ok"
                   PROVE  pool' = <<>> /\ borrower' = [b \in Borrowers |-> "idle"]
      BY <2>0 DEF Unused
    <3>2. pool = <<>> /\ borrower = [b \in Borrowers |-> "idle"]
      BY <3>1 DEF Unused
    <3>3. Holders = {}
      BY <3>2 DEF Holders, Connection
    <3>. QED  BY <2>0, <2>1, <3>2, <3>3, EmptySeq
  <2>5. SlotsAccounted'
    BY <2>0, <2>1, <2>2 DEF SlotsAccounted
  <2>. QED  BY <2>0, <2>1, <2>2, <2>3, <2>4, <2>5
<1>2. CASE DatabaseStarts
  BY <1>2 DEF DatabaseStarts, Unused, SlotsAccounted, Holders
<1>3. CASE IdleTimeout
  <2>1. PICK i \in DOMAIN pool : pool' = [pool EXCEPT ![i] = "dead"]
    BY <1>3 DEF IdleTimeout
  <2>2. pool' \in Seq(Connection) /\ Len(pool') = Len(pool)
    BY <1>0, <2>1, ExceptSeq DEF Connection
  <2>3. pool # <<>> /\ UNCHANGED <<init, borrower, lost, db, outages>>
    BY <1>0, <1>3, <2>1 DEF IdleTimeout
  <2>. QED  BY <2>2, <2>3 DEF Unused, SlotsAccounted, Holders
<1>. QED  BY <1>1, <1>2, <1>3

LEMMA NextStep == IInv /\ [Next]_vars => IInv'
<1>1. IInv /\ UNCHANGED vars => IInv'
  BY DEF IInv, TypeOK, Unused, SlotsAccounted, Holders, vars, environment
<1>. QED  BY <1>1, InitStep, BorrowerStep, DatabaseStep DEF Next

-----------------------------------------------------------------------------
\* The pool's state keeps its shape.
THEOREM TypeCorrect == Spec => []TypeOK
<1>1. IInv => TypeOK
  BY DEF IInv
<1>. QED  BY InitInv, NextStep, <1>1, PTL DEF Spec

\* Every slot of the pool is idle, lent, or lost to an Acquire that returned nullptr.
THEOREM NoSlotUnaccounted == Spec => []SlotsAccounted
<1>1. IInv => SlotsAccounted
  BY DEF IInv
<1>. QED  BY InitInv, NextStep, <1>1, PTL DEF Spec

\* Only Acquire gives a waiting thread a connection, and that one is live.
LEMMA LiveStep ==
  ASSUME borrower \in [Borrowers -> {"idle", "waiting"} \cup Connection], Next,
         NEW b \in Borrowers, borrower[b] = "waiting", borrower'[b] \in Connection
  PROVE  borrower'[b] = "live"
<1>. USE DEF Connection
<1>1. ASSUME NEW c \in Borrowers, Call(c) \/ Acquire(c) \/ AcquireFails(c) \/ Release(c)
      PROVE  borrower'[b] = "live"
  BY <1>1 DEF Call, Acquire, AcquireFails, Release, Waiting
<1>2. CASE DatabaseStops
  BY <1>2 DEF DatabaseStops, Holders
<1>3. CASE Init \/ DatabaseStarts \/ IdleTimeout
  BY <1>3 DEF Init, DatabaseStarts, IdleTimeout, environment
<1>. QED  BY <1>1, <1>2, <1>3 DEF Next

\* Acquire never hands out a connection that had died in the pool.
THEOREM AcquireChecks == Spec => HandsOutLive
<1>1. TypeOK /\ [Next]_vars =>
        [\A b \in Borrowers :
           borrower[b] = "waiting" /\ borrower'[b] \in Connection => borrower'[b] = "live"]_vars
  BY LiveStep DEF TypeOK
<1>. QED  BY TypeCorrect, <1>1, PTL DEF Spec, HandsOutLive
=============================================================================
