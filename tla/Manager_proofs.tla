--------------------------- MODULE Manager_proofs ---------------------------
(***************************************************************************)
(* What the manager's tables and rows keep to for any set of reports and   *)
(* hosts, any pool and any number of inserts.                              *)
(*                                                                         *)
(* The receiving service runs inside the manager as it does alone, so      *)
(* what was proved of its queue holds here: the accepted reports are the   *)
(* processed ones, the one in hand and the queued ones, each once.  A      *)
(* report is therefore known by its position in "accepted", and the        *)
(* invariants below say at which positions the score table and the cache   *)
(* are.                                                                    *)
(*                                                                         *)
(* The pool runs inside the manager too, until main destroys it; the       *)
(* section after says when the order of main's destructors does no harm.   *)
(*                                                                         *)
(* The last section is about how the process ends (Lifecycle), for any     *)
(* number of connections.                                                  *)
(***************************************************************************)
EXTENDS Manager, Lifecycle, SequenceTheorems, FiniteSetTheorems, TLAPS

Service == INSTANCE GrpcServer_proofs
Lending == INSTANCE MysqlPool_proofs WITH Borrowers <- {Worker}

\* Where WorkerThread is, against its task, its inserts and main's phase.
StepInv ==
  /\ step \in {"idle", "received", "acquiring", "inserting", "done", "crashed", "hung"}
  /\ step = "idle" <=> task = None
  /\ step \in {"crashed", "hung"} => undefined
  /\ inserted \in 0..Inserts
  /\ step \in {"received", "acquiring"} => inserted = 0
  /\ borrower \in [{Worker} -> {"idle", "waiting", "live", "dead"}] /\ outages \in Nat
  /\ phase = "starting" <=> init = "none"
  /\ phase = "starting" => /\ task = None /\ task_queue = <<>> /\ delivered = <<>>
                           /\ \A r \in Requests : call[r] = "idle"

\* What has been stored of the report in hand: everything issued so far, as long as its
\* connection lives.
StoredInv ==
  /\ stored \in [1..Inserts -> SUBSET Requests]
  /\ LostFromTheEnd
  /\ step = "inserting" /\ borrower[Worker] = "live" =>
       \A k \in 1..inserted : task \in stored[k] \cup Refused(k)

\* As long as the database has been up, no insert is lost but those refused.
OutageInv ==
  init = "ok" /\ outages = 0 /\ ~undefined =>
    /\ db = "up"
    /\ step = "inserting" => borrower[Worker] = "live"
    /\ step = "done" => \A k \in 1..Inserts : task \in stored[k] \cup Refused(k)
    /\ \A k \in 1..Inserts : Range(delivered) \subseteq stored[k] \cup Refused(k)

\* How many of the accepted reports have got past the score table.
Scored == IF step \in {"idle", "received"} THEN Len(delivered) ELSE Len(delivered) + 1

\* The i-th accepted report is r, and up to the n-th none after it is of host h.
LatestUpTo(n, h, i, r) ==
  /\ i \in 1..n /\ accepted[i] = r /\ Server!HostName(r) = h
  /\ \A j \in (i + 1)..n : Server!HostName(accepted[j]) # h

\* The i-th accepted report is r, and up to the n-th none after it is scored under h.
LatestScored(n, h, i, r) ==
  /\ i \in 1..n /\ accepted[i] = r /\ ExtractHostName(r) = h
  /\ \A j \in (i + 1)..n : ExtractHostName(accepted[j]) # h

\* The score of h comes from a report that got past the table, and from the latest of those
\* scored under h as long as no destroyed table was passed by.
ScoreInv(h) ==
  host_scores[h] # None =>
    \E i \in 1..Scored : /\ accepted[i] = host_scores[h]
                         /\ ~undefined => LatestScored(Scored, h, i, host_scores[h])

\* The cache holds the call of h that is cached and not yet queued, or else the latest of
\* the accepted reports of h, if its calls never overlapped.
CacheInv(h) ==
  /\ \A q, r \in Server!InProgress :
       Server!HostName(q) = h /\ Server!HostName(r) = h => q = r
  /\ host_data[h] # None =>
       IF \E r \in Requests : call[r] = "cached" /\ Server!HostName(r) = h
       THEN call[host_data[h]] = "cached" /\ Server!HostName(host_data[h]) = h
       ELSE \E i \in 1..Len(accepted) : LatestUpTo(Len(accepted), h, i, host_data[h])

RowsInv == StepInv /\ StoredInv /\ OutageInv

ScoresInv == host_scores \in [Hosts -> Requests \cup {None}] /\ \A h \in Hosts : ScoreInv(h)

CachesInv == \A h \in Hosts \ overlapped : CacheInv(h)

IInv == Service!QueueInv /\ RowsInv /\ ScoresInv /\ CachesInv

-----------------------------------------------------------------------------
(* The service inside the manager.                                         *)

LEMMA Constants ==
  /\ Service!GrpcServerAssumption /\ None \notin Requests /\ NoName \notin Hosts
  /\ Lending!MysqlPoolAssumption
  /\ Inserts \in Nat /\ InfoName \in [Requests -> Hosts]
BY ManagerAssumption DEF ManagerAssumption, Server!GrpcServerAssumption,
   Service!GrpcServerAssumption, Pool!MysqlPoolAssumption, Lending!MysqlPoolAssumption,
   Pool!IsFiniteSet, Lending!IsFiniteSet

\* Server and Service are the same module, once without and once with its theorems.
LEMMA SameModule ==
  /\ Server!Init => Service!Init
  /\ \A r \in Requests : Server!Receive(r) \/ Server!CacheReport(r) \/ Server!QueueReport(r)
                          => Service!Next
  /\ Server!TakeTask \/ Server!CallbackReturns \/ Server!WorkerReturns
     \/ Server!Shutdown \/ Server!Destroy => Service!Next
  /\ UNCHANGED serverVars => UNCHANGED Service!vars
<1>1. Server!Init => Service!Init
  BY DEF Server!Init, Service!Init
<1>. USE DEF Server!cache, Server!queue, Server!worker, Server!server,
             Service!cache, Service!queue, Service!worker, Service!server
<1>2. ASSUME NEW r \in Requests PROVE Server!HostName(r) = Service!HostName(r)
  BY DEF Server!HostName, Service!HostName
<1>3. ASSUME NEW r \in Requests, Server!Receive(r) PROVE Service!Receive(r)
  BY <1>2, <1>3 DEF Server!Receive, Service!Receive
<1>4. ASSUME NEW r \in Requests, Server!CacheReport(r) PROVE Service!CacheReport(r)
  <2>. DEFINE h    == Server!HostName(r)
              data == [host_data EXCEPT ![h] = r]
  <2>1. Server!RemoveFirst(lru_list, h) = Service!RemoveFirst(lru_list, h)
    BY ONLY DEF Server!RemoveFirst, Service!RemoveFirst, Server!RemoveAt, Service!RemoveAt,
       Server!SelectInSeq, Service!SelectInSeq, Server!Min, Service!Min
  <2>2. ASSUME NEW lru
        PROVE  Server!EvictIfNeeded(data, lru) = Service!EvictIfNeeded(data, lru)
    BY ONLY DEF Server!EvictIfNeeded, Service!EvictIfNeeded, Server!HostsIn, Service!HostsIn,
       Server!Cardinality, Service!Cardinality
  <2>. QED
    BY <1>2, <1>4, <2>1, <2>2, Zenon DEF Server!CacheReport, Service!CacheReport
<1>5. ASSUME NEW r \in Requests, Server!QueueReport(r) PROVE Service!QueueReport(r)
  BY <1>5 DEF Server!QueueReport, Service!QueueReport
<1>6. Server!TakeTask => Service!TakeTask
  BY DEF Server!TakeTask, Service!TakeTask
<1>7. Server!CallbackReturns => Service!CallbackReturns
  BY DEF Server!CallbackReturns, Service!CallbackReturns
<1>8. Server!WorkerReturns => Service!WorkerReturns
  BY DEF Server!WorkerReturns, Service!WorkerReturns
<1>9. Server!Shutdown \/ Server!Destroy => Service!Shutdown \/ Service!Destroy
  BY DEF Server!Shutdown, Service!Shutdown, Server!Destroy, Service!Destroy,
     Server!InProgress, Service!InProgress
<1>10. UNCHANGED serverVars => UNCHANGED Service!vars
  BY DEF serverVars, Service!vars
<1>. QED  BY <1>1, <1>3, <1>4, <1>5, <1>6, <1>7, <1>8, <1>9, <1>10, Zenon DEF Service!Next

LEMMA ServiceStep == [Next]_vars => [Service!Next]_(Service!vars)
<1>1. ASSUME NEW r \in Requests, Receive(r) \/ Handle(r) PROVE Service!Next
  BY <1>1, SameModule DEF Receive, Handle
<1>2. WorkerThread => Service!Next \/ UNCHANGED Service!vars
  BY SameModule, Zenon DEF WorkerThread, TakeTask, UpdateScore, Acquire, Insert, Release,
     CallbackReturns, UseAfterDestroy, WorkerReturns
<1>3. Main => Service!Next \/ UNCHANGED Service!vars
  BY SameModule, Zenon DEF Main, StartUp, Shutdown, DestroyPool, DestroyManager, DestroyService
<1>4. (\E h \in Hosts : Expire(h)) \/ Database \/ UNCHANGED vars => UNCHANGED Service!vars
  BY SameModule, Zenon DEF Expire, Database, vars
<1>. QED  BY <1>1, <1>2, <1>3, <1>4, Zenon DEF Next

LEMMA ServiceKept == Service!QueueInv /\ [Next]_vars => Service!QueueInv'
<1>. SUFFICES ASSUME Service!QueueInv, [Next]_vars PROVE Service!QueueInv'
  OBVIOUS
<1>1. [Service!Next]_(Service!vars)
  BY ServiceStep
<1>. QED
  BY <1>1, Constants, Service!TypeStep, Service!QueueStep, Service!DrainedStep DEF Service!QueueInv

\* What the service's invariant says of its state.
LEMMA ServiceFacts ==
  ASSUME Service!QueueInv
  PROVE  /\ call \in [Requests -> {"idle", "received", "cached", "ok", "invalid"}]
         /\ host_data \in [Hosts -> Requests \cup {None}]
         /\ task_queue \in Seq(Requests) /\ delivered \in Seq(Requests)
         /\ accepted \in Seq(Requests) /\ task \in Requests \cup {None}
         /\ \A r \in Requests : call[r] \in {"received", "cached", "ok"} =>
                                  Server!HostName(r) \in Hosts
         /\ accepted = (delivered \o Server!Hand) \o task_queue
         /\ \A i, j \in 1..Len(accepted) : accepted[i] = accepted[j] => i = j
         /\ \A i \in 1..Len(accepted) : call[accepted[i]] = "ok" /\ accepted[i] \in Requests
<1>1. Service!TypeOK /\ Service!Named /\ Service!AcknowledgedOnce
  BY DEF Service!QueueInv, Service!TypeInv
<1>2. accepted \in Seq(Requests) /\ DOMAIN accepted = 1..Len(accepted)
  BY <1>1 DEF Service!TypeOK
<1>3. \A i \in DOMAIN accepted : accepted[i] \in Range(accepted)
  BY DEF Range
<1>4. /\ \A i, j \in 1..Len(accepted) : accepted[i] = accepted[j] => i = j
      /\ \A i \in 1..Len(accepted) : call[accepted[i]] = "ok" /\ accepted[i] \in Requests
  <2>1. IsInjective(accepted)
    BY <1>1 DEF Service!AcknowledgedOnce, Service!IsInjective, IsInjective
  <2>2. Range(accepted) = {r \in Requests : call[r] = "ok"}
    BY <1>1 DEF Service!AcknowledgedOnce, Service!Range, Range
  <2>. QED  BY <1>2, <1>3, <2>1, <2>2 DEF IsInjective
<1>5. accepted = (delivered \o Server!Hand) \o task_queue
  BY <1>1 DEF Service!AcknowledgedOnce, Service!Hand, Server!Hand
<1>. QED
  BY <1>1, <1>4, <1>5 DEF Service!TypeOK, Service!Named, Service!HostName, Server!HostName

\* The members of two sequences in a row.
LEMMA Appended ==
  ASSUME NEW S, NEW a \in Seq(S), NEW b \in Seq(S), NEW c, c = a \o b
  PROVE  /\ Len(c) = Len(a) + Len(b)
         /\ \A i \in 1..(Len(a) + Len(b)) :
              c[i] = IF i <= Len(a) THEN a[i] ELSE b[i - Len(a)]
BY ConcatProperties

\* Where in "accepted" the processed reports, the one in hand and the queued ones are.
LEMMA Positions ==
  ASSUME Service!QueueInv
  PROVE  /\ Len(delivered) \in Nat /\ Len(accepted) \in Nat /\ Len(delivered) <= Len(accepted)
         /\ \A i \in 1..Len(delivered) : accepted[i] = delivered[i]
         /\ task # None => /\ Len(delivered) + 1 <= Len(accepted)
                           /\ accepted[Len(delivered) + 1] = task
         /\ \A i \in 1..Len(accepted) :
              \/ i <= Len(delivered)
              \/ task # None /\ i = Len(delivered) + 1
              \/ accepted[i] \in Range(task_queue)
<1>. DEFINE hand  == Server!Hand
            front == delivered \o hand
<1>1. /\ delivered \in Seq(Requests) /\ task_queue \in Seq(Requests) /\ hand \in Seq(Requests)
      /\ Len(hand) = IF task = None THEN 0 ELSE 1
      /\ task # None => hand[1] = task
      /\ accepted = front \o task_queue /\ accepted \in Seq(Requests)
  BY ServiceFacts DEF Server!Hand
<1>. HIDE DEF hand
<1>2. /\ front \in Seq(Requests) /\ Len(front) = Len(delivered) + Len(hand)
      /\ \A i \in 1..(Len(delivered) + Len(hand)) :
           front[i] = IF i <= Len(delivered) THEN delivered[i] ELSE hand[i - Len(delivered)]
  BY <1>1, Appended, ConcatProperties
<1>. HIDE DEF front
<1>3. /\ Len(accepted) = Len(front) + Len(task_queue)
      /\ \A i \in 1..(Len(front) + Len(task_queue)) :
           accepted[i] = IF i <= Len(front) THEN front[i] ELSE task_queue[i - Len(front)]
  <2>1. front \in Seq(Requests) /\ task_queue \in Seq(Requests) /\ accepted = front \o task_queue
    BY <1>1, <1>2
  <2>. QED  BY <2>1, Appended
<1>4. Len(delivered) \in Nat /\ Len(hand) \in 0..1 /\ Len(task_queue) \in Nat
      /\ Len(front) \in Nat /\ DOMAIN task_queue = 1..Len(task_queue)
  BY <1>1, <1>2, LenProperties
<1>5. \A i \in 1..Len(delivered) : accepted[i] = delivered[i]
  BY <1>2, <1>3, <1>4
<1>6. ASSUME task # None
      PROVE  Len(delivered) + 1 <= Len(accepted) /\ accepted[Len(delivered) + 1] = task
  BY <1>1, <1>2, <1>3, <1>4, <1>6
<1>7. ASSUME NEW i \in 1..Len(accepted)
      PROVE  \/ i <= Len(delivered)
             \/ task # None /\ i = Len(delivered) + 1
             \/ accepted[i] \in Range(task_queue)
  <2>1. CASE i <= Len(front)
    BY <1>1, <1>2, <1>4, <2>1
  <2>2. CASE i > Len(front)
    <3>1. i - Len(front) \in DOMAIN task_queue /\ accepted[i] = task_queue[i - Len(front)]
      BY <1>3, <1>4, <2>2
    <3>. QED  BY <3>1 DEF Range
  <2>. QED  BY <1>4, <2>1, <2>2
<1>. QED  BY <1>1, <1>3, <1>4, <1>2, <1>5, <1>6, <1>7

-----------------------------------------------------------------------------
(* The rows.                                                               *)

LEMMA RowsInit == Init => RowsInv
<1>. SUFFICES ASSUME Init PROVE RowsInv
  OBVIOUS
<1>. USE Constants DEF Init, Server!Init, Pool!Start
<1>1. StepInv
  BY DEF StepInv
<1>2. StoredInv
  BY DEF StoredInv, LostFromTheEnd, Refused
<1>3. OutageInv
  BY DEF OutageInv
<1>. QED  BY <1>1, <1>2, <1>3 DEF RowsInv

\* main's steps and the calls: WorkerThread has no report before main serves.
LEMMA RowsMain ==
  ASSUME Service!QueueInv, RowsInv,
         Main \/ (\E h \in Hosts : Expire(h)) \/ (\E r \in Requests : Receive(r) \/ Handle(r))
  PROVE  RowsInv'
<1>1. UNCHANGED <<task, delivered, step, inserted, stored, refused, borrower, db, outages, undefined>>
  BY DEF Main, StartUp, Pool!Init, Pool!environment, Shutdown, Server!Shutdown, DestroyPool,
     DestroyManager, DestroyService, Server!Destroy, Expire, Receive, Server!Receive, Handle,
     Server!CacheReport, Server!QueueReport, serverVars, poolVars, managerVars, Server!worker
<1>2. StoredInv'
  BY <1>1 DEF RowsInv, StoredInv, LostFromTheEnd, Refused
<1>3. CASE StartUp
  <2>1. /\ phase = "starting" /\ phase' = "serving" /\ init' \in {"ok", "failed"}
        /\ init' = "ok" => db = "up"
    BY <1>3 DEF StartUp, Pool!Init
  <2>2. StepInv'
    BY <1>1, <2>1 DEF RowsInv, StepInv
  <2>3. step = "idle" /\ Range(delivered) = {}
    BY <2>1 DEF RowsInv, StepInv, Range
  <2>4. OutageInv'
    BY <1>1, <2>1, <2>3 DEF OutageInv
  <2>. QED  BY <1>2, <2>2, <2>4 DEF RowsInv
<1>4. CASE ~StartUp
  <2>1. init' = init
    BY <1>4 DEF Main, Shutdown, DestroyPool, DestroyManager, DestroyService, Expire, Receive,
       Handle, poolVars
  <2>2. OutageInv'
    BY <1>1, <2>1 DEF RowsInv, OutageInv, Refused
  <2>3. phase' = "starting" <=> phase = "starting"
    BY <1>4 DEF Main, Shutdown, DestroyPool, DestroyManager, DestroyService, Expire, Receive,
       Handle
  <2>4. phase = "starting" => UNCHANGED <<call, task_queue>>
    <3>. SUFFICES ASSUME phase = "starting" PROVE UNCHANGED <<call, task_queue>>
      OBVIOUS
    <3>1. \A r \in Requests : ~Receive(r)
      BY DEF Receive
    <3>2. \A r \in Requests : ~Handle(r)
      BY DEF Handle, Server!CacheReport, Server!QueueReport, RowsInv, StepInv
    <3>. QED
      BY <1>4, <3>1, <3>2 DEF Main, Shutdown, Server!Shutdown, DestroyPool, DestroyManager,
         DestroyService, Server!Destroy, Expire, serverVars, Server!queue
  <2>5. StepInv'
    BY <1>1, <2>1, <2>3, <2>4 DEF RowsInv, StepInv
  <2>. QED  BY <1>2, <2>2, <2>5 DEF RowsInv
<1>. QED  BY <1>3, <1>4

\* The database: what stops it is an outage, and what it stops is no longer live.
LEMMA RowsDatabase ==
  ASSUME RowsInv, Database
  PROVE  RowsInv'
<1>1. UNCHANGED <<call, task, task_queue, delivered, step, inserted, stored, refused, undefined,
                   phase, init>>
  BY DEF Database, serverVars, managerVars, Pool!DatabaseStops, Pool!DatabaseStarts,
     Pool!IdleTimeout
<1>2. CASE Pool!DatabaseStops
  <2>1. outages' = outages + 1 /\ outages' # 0 /\ outages' \in Nat
    BY <1>2 DEF Pool!DatabaseStops, RowsInv, StepInv
  <2>2. /\ borrower' \in [{Worker} -> {"idle", "waiting", "live", "dead"}]
        /\ borrower'[Worker] # "live"
    BY <1>2 DEF Pool!DatabaseStops, Pool!Holders, Pool!Connection, RowsInv, StepInv
  <2>. QED
    BY <1>1, <2>1, <2>2 DEF RowsInv, StepInv, StoredInv, LostFromTheEnd, Refused, OutageInv
<1>3. CASE Pool!DatabaseStarts \/ Pool!IdleTimeout
  <2>1. UNCHANGED <<borrower, outages>> /\ (db = "up" => db' = "up")
    BY <1>3 DEF Pool!DatabaseStarts, Pool!IdleTimeout, Pool!environment
  <2>. QED  BY <1>1, <2>1 DEF RowsInv, StepInv, StoredInv, LostFromTheEnd, Refused, OutageInv
<1>. QED  BY <1>2, <1>3 DEF Database

\* An INSERT on a live connection is stored or refused, and so was each one before it.
LEMMA RowsInsert ==
  ASSUME Service!QueueInv, RowsInv, Insert
  PROVE  RowsInv'
<1>. DEFINE Kept(k) == stored[k] \cup Refused(k)
<1>1. /\ step = "inserting" /\ inserted < Inserts /\ inserted' = inserted + 1
      /\ UNCHANGED <<call, task, task_queue, delivered, step, init, borrower, db, outages, phase,
                     undefined>>
  BY DEF Insert, serverVars, poolVars
<1>2. inserted \in Nat /\ inserted + 1 \in 1..Inserts /\ task \in Requests
  BY <1>1, Constants, ServiceFacts DEF RowsInv, StepInv
<1>3. /\ stored' \in [1..Inserts -> SUBSET Requests]
      /\ \A k \in 1..Inserts :
           /\ stored'[k] \subseteq stored[k] \cup {task}
           /\ k # inserted + 1 \/ borrower[Worker] # "live" => stored'[k] = stored[k]
           /\ Kept(k) \subseteq Kept(k)'
           /\ k = inserted + 1 /\ borrower[Worker] = "live" => task \in Kept(k)'
  <2>0. stored \in [1..Inserts -> SUBSET Requests]
    BY DEF RowsInv, StoredInv
  <2>1. CASE UNCHANGED <<stored, refused>> /\ borrower[Worker] = "dead"
    BY <2>0, <2>1 DEF Refused
  <2>2. CASE /\ stored' = [stored EXCEPT ![inserted'] = @ \cup {task}]
             /\ UNCHANGED refused /\ borrower[Worker] = "live"
    <3>1. \A k \in 1..Inserts :
            stored'[k] = IF k = inserted + 1 THEN stored[k] \cup {task} ELSE stored[k]
      BY <1>1, <1>2, <2>0, <2>2
    <3>2. \A k \in 1..Inserts : stored'[k] \in SUBSET Requests
      BY <1>2, <2>0, <3>1
    <3>3. stored' \in [1..Inserts -> SUBSET Requests]
      BY <2>0, <2>2, <3>2
    <3>. QED  BY <1>2, <2>2, <3>1, <3>3 DEF Refused
  <2>3. CASE /\ refused' = refused \cup {<<inserted', task>>}
             /\ UNCHANGED stored /\ borrower[Worker] = "live"
    BY <1>1, <1>2, <2>0, <2>3 DEF Refused
  <2>. QED  BY <2>1, <2>2, <2>3 DEF Insert
<1>4. StepInv'
  BY <1>1, <1>2 DEF RowsInv, StepInv
<1>5. ASSUME borrower[Worker] = "live", NEW k \in 1..(inserted + 1) PROVE task \in Kept(k)'
  <2>1. CASE k = inserted + 1
    BY <1>2, <1>3, <1>5, <2>1
  <2>2. CASE k # inserted + 1
    <3>1. k \in 1..inserted /\ k \in 1..Inserts
      BY <1>2, <2>2, Constants
    <3>2. task \in Kept(k)
      BY <1>1, <1>5, <3>1 DEF RowsInv, StoredInv
    <3>. QED  BY <1>3, <3>1, <3>2
  <2>. QED  BY <2>1, <2>2
<1>6. StoredInv'
  <2>1. ASSUME NEW k \in 1..Inserts, NEW j \in 1..Inserts, j < k
        PROVE  stored'[k] \subseteq Kept(j)'
    <3>1. stored[k] \subseteq Kept(j)'
      BY <1>3, <2>1 DEF RowsInv, StoredInv, LostFromTheEnd
    <3>2. ASSUME k = inserted + 1, borrower[Worker] = "live" PROVE task \in Kept(j)'
      <4>1. j \in 1..(inserted + 1)
        BY <1>2, <2>1, <3>2
      <4>. QED  BY <1>5, <3>2, <4>1
    <3>. QED  BY <1>3, <3>1, <3>2
  <2>2. borrower'[Worker] = "live" => \A k \in 1..inserted' : task' \in Kept(k)'
    BY <1>1, <1>5
  <2>. QED  BY <1>3, <2>1, <2>2 DEF StoredInv, LostFromTheEnd
<1>7. OutageInv'
  <2>. SUFFICES ASSUME init = "ok", outages = 0, ~undefined
                PROVE  /\ db = "up" /\ borrower[Worker] = "live"
                       /\ \A k \in 1..Inserts : Range(delivered) \subseteq Kept(k)'
    BY <1>1, Zenon DEF OutageInv
  <2>1. /\ db = "up" /\ borrower[Worker] = "live"
        /\ \A k \in 1..Inserts : Range(delivered) \subseteq Kept(k)
    BY <1>1 DEF RowsInv, OutageInv
  <2>. QED  BY <1>3, <2>1
<1>. QED  BY <1>4, <1>6, <1>7 DEF RowsInv

\* The other steps of WorkerThread: it inserts with the connection Acquire handed it, and
\* has issued every insert when it gives the connection back.
LEMMA RowsWorker ==
  ASSUME Service!QueueInv, RowsInv,
         TakeTask \/ UpdateScore \/ Acquire \/ Release \/ CallbackReturns \/ UseAfterDestroy
         \/ WorkerReturns
  PROVE  RowsInv'
<1>. USE DEF RowsInv, serverVars, poolVars, managerVars
<1>0. task \in Requests \cup {None} /\ task_queue \in Seq(Requests) /\ delivered \in Seq(Requests)
  BY ServiceFacts
<1>1. CASE TakeTask
  <2>. USE <1>1 DEF TakeTask, Server!TakeTask
  <2>1. task' \in Requests /\ task' # None /\ phase # "starting"
    BY <1>0, Constants DEF StepInv
  <2>2. 0 \in 0..Inserts
    BY Constants
  <2>3. StepInv'
    BY <2>1, <2>2 DEF StepInv
  <2>4. StoredInv' /\ OutageInv'
    BY DEF StoredInv, LostFromTheEnd, Refused, OutageInv
  <2>. QED  BY <2>3, <2>4
<1>2. CASE UpdateScore
  <2>. USE <1>2 DEF UpdateScore, Pool!Call, Pool!environment
  <2>1. StepInv'
    BY DEF StepInv
  <2>2. StoredInv' /\ OutageInv'
    BY DEF StoredInv, LostFromTheEnd, Refused, OutageInv
  <2>. QED  BY <2>1, <2>2
<1>3. CASE Acquire
  <2>. USE <1>3 DEF Acquire, Pool!Acquire, Pool!AcquireFails, Pool!environment
  <2>1. StepInv'
    BY DEF StepInv
  <2>2. borrower \in [{Worker} -> {"idle", "waiting", "live", "dead"}] /\ inserted = 0
    BY DEF StepInv
  <2>3. StoredInv'
    BY <2>2 DEF StoredInv, LostFromTheEnd, Refused
  <2>4. OutageInv'
    BY <2>2 DEF OutageInv, Refused
  <2>. QED  BY <2>1, <2>3, <2>4
<1>4. CASE Release
  <2>. USE <1>4 DEF Release, Pool!Release, Pool!environment
  <2>1. StepInv'
    BY DEF StepInv
  <2>2. StoredInv' /\ OutageInv'
    BY DEF StoredInv, LostFromTheEnd, Refused, OutageInv
  <2>. QED  BY <2>1, <2>2
<1>5. CASE CallbackReturns
  <2>. USE <1>5 DEF CallbackReturns, Server!CallbackReturns
  <2>1. StepInv'
    BY DEF StepInv, Server!queue
  <2>2. StoredInv'
    BY DEF StoredInv, LostFromTheEnd, Refused
  <2>3. Range(delivered') = Range(delivered) \cup {task}
    <3>1. /\ DOMAIN delivered = 1..Len(delivered) /\ Len(delivered) \in Nat
          /\ delivered' = Append(delivered, task) /\ task \in Requests
      BY <1>0
    <3>2. DOMAIN delivered' = 1..(Len(delivered) + 1)
          /\ \A i \in 1..(Len(delivered) + 1) :
               delivered'[i] = IF i = Len(delivered) + 1 THEN task ELSE delivered[i]
      BY <1>0, <3>1, AppendProperties
    <3>. QED  BY <3>1, <3>2 DEF Range
  <2>4. OutageInv'
    BY <2>3 DEF OutageInv, Refused
  <2>. QED  BY <2>1, <2>2, <2>4
<1>6. CASE UseAfterDestroy
  <2>. USE <1>6 DEF UseAfterDestroy
  <2>1. StepInv'
    BY DEF StepInv
  <2>2. StoredInv' /\ OutageInv'
    BY DEF StoredInv, LostFromTheEnd, Refused, OutageInv
  <2>. QED  BY <2>1, <2>2
<1>7. CASE WorkerReturns
  <2>. USE <1>7 DEF WorkerReturns, Server!WorkerReturns, Server!queue
  <2>. QED  BY DEF StepInv, StoredInv, LostFromTheEnd, Refused, OutageInv
<1>. QED  BY <1>1, <1>2, <1>3, <1>4, <1>5, <1>6, <1>7

LEMMA RowsStep == Service!QueueInv /\ RowsInv /\ [Next]_vars => RowsInv'
<1>1. RowsInv /\ UNCHANGED vars => RowsInv'
  BY DEF vars, serverVars, poolVars, managerVars, RowsInv, StepInv, StoredInv, LostFromTheEnd, Refused,
     OutageInv
<1>. QED  BY <1>1, RowsMain, RowsDatabase, RowsInsert, RowsWorker, Zenon DEF Next, WorkerThread

-----------------------------------------------------------------------------
(* The score table.                                                        *)

\* As many reports have been scored as were processed, and the one in hand if WorkerThread
\* has got past the table with it.
LEMMA ScoredBound ==
  ASSUME Service!QueueInv, StepInv
  PROVE  /\ Len(delivered) \in Nat /\ Len(accepted) \in Nat /\ Scored \in Nat
         /\ Scored <= Len(accepted)
         /\ Scored = Len(delivered) \/ Scored = Len(delivered) + 1
BY Positions DEF StepInv, Scored

\* What leaves a score as it was, or erases it, and appends to the accepted reports at most.
LEMMA ScoreKept ==
  ASSUME Service!QueueInv, StepInv, NEW h, ScoreInv(h),
         host_scores'[h] \in {host_scores[h], None},
         \/ Scored' = Scored /\ (undefined => undefined')
         \/ Scored' \in Nat /\ Scored' >= Scored /\ undefined',
         \A i \in 1..Len(accepted) : accepted'[i] = accepted[i]
  PROVE  ScoreInv(h)'
<1>. SUFFICES ASSUME host_scores'[h] # None
              PROVE  \E i \in 1..Scored' :
                       /\ accepted'[i] = host_scores'[h]
                       /\ ~undefined' => LatestScored(Scored, h, i, host_scores[h])'
  BY DEF ScoreInv
<1>1. host_scores'[h] = host_scores[h] /\ host_scores[h] # None
  OBVIOUS
<1>2. PICK i \in 1..Scored : /\ accepted[i] = host_scores[h]
                             /\ ~undefined => LatestScored(Scored, h, i, host_scores[h])
  BY <1>1 DEF ScoreInv
<1>3. Scored \in Nat /\ Len(accepted) \in Nat /\ Scored <= Len(accepted)
  BY ScoredBound
<1>4. \A j \in 1..Scored : accepted'[j] = accepted[j]
  BY <1>3
<1>5. Scored' \in Nat /\ Scored' >= Scored /\ (~undefined' => ~undefined /\ Scored' = Scored)
  BY <1>3
<1>6. i \in 1..Scored' /\ accepted'[i] = host_scores'[h]
  <2>1. accepted[i] = host_scores[h]
    BY <1>2
  <2>2. i \in 1..Scored'
    BY ONLY <1>3, <1>5, i \in 1..Scored
  <2>. QED  BY <1>1, <1>4, <2>1, <2>2, Zenon
<1>7. ASSUME ~undefined' PROVE LatestScored(Scored, h, i, host_scores[h])'
  <2>1. Scored' = Scored /\ LatestScored(Scored, h, i, host_scores[h])
    BY <1>2, <1>5, <1>7, Zenon
  <2>2. /\ ExtractHostName(host_scores[h]) = h
        /\ \A j \in (i + 1)..Scored : ExtractHostName(accepted[j]) # h
    BY <2>1 DEF LatestScored
  <2>3. \A j \in (i + 1)..Scored : j \in 1..Scored
    BY <1>3
  <2>4. \A j \in (i + 1)..Scored : ExtractHostName(accepted'[j]) # h
    BY <1>4, <2>2, <2>3, Zenon
  <2>. QED  BY <1>1, <1>6, <2>1, <2>2, <2>4, Zenon DEF LatestScored
<1>. QED  BY <1>6, <1>7

\* A score is replaced by that of the report in hand, the next accepted one after those that
\* have been processed.
LEMMA ScoreUpdated ==
  ASSUME Service!QueueInv, StepInv, UpdateScore, NEW h \in Hosts, ScoreInv(h),
         host_scores \in [Hosts -> Requests \cup {None}]
  PROVE  ScoreInv(h)'
<1>. DEFINE n == Len(delivered)
<1>1. /\ Scored = n /\ Scored' = n + 1 /\ n \in Nat
      /\ n + 1 <= Len(accepted) /\ Len(accepted) \in Nat /\ accepted[n + 1] = task
      /\ UNCHANGED <<accepted, undefined, n>>
      /\ host_scores'[h] = IF h = ExtractHostName(task) THEN task ELSE host_scores[h]
  <2>1. task # None /\ step = "received" /\ step' \in {"acquiring", "done"} /\ delivered' = delivered
    BY DEF StepInv, UpdateScore, serverVars
  <2>2. host_scores'[h] = IF h = ExtractHostName(task) THEN task ELSE host_scores[h]
    BY DEF UpdateScore
  <2>. QED  BY <2>1, <2>2, Positions DEF Scored, UpdateScore, serverVars
<1>. HIDE DEF n
<1>2. CASE h = ExtractHostName(task)
  <2>1. host_scores'[h] = task /\ accepted'[n + 1] = task /\ n + 1 \in 1..(n + 1)
    BY <1>1, <1>2
  <2>2. \A j \in ((n + 1) + 1)..(n + 1) : FALSE
    BY <1>1
  <2>3. LatestScored(Scored, h, n + 1, host_scores[h])'
    <3>1. Scored' = n + 1 /\ n' = n /\ accepted' = accepted
      BY <1>1
    <3>. QED  BY <1>2, <2>1, <2>2, <3>1, Zenon DEF LatestScored
  <2>4. n + 1 \in 1..Scored' /\ accepted'[n + 1] = host_scores'[h] /\ n' = n
    BY <1>1, <2>1
  <2>. QED  BY <2>3, <2>4, Zenon DEF ScoreInv
<1>3. CASE h # ExtractHostName(task) /\ host_scores[h] # None
  <2>1. PICK i \in 1..n : /\ accepted[i] = host_scores[h]
                          /\ ~undefined => LatestScored(n, h, i, host_scores[h])
    BY <1>1, <1>3, Zenon DEF ScoreInv
  <2>2. i \in 1..(n + 1) /\ \A j \in (i + 1)..(n + 1) : j \in (i + 1)..n \/ j = n + 1
    BY <1>1
  <2>3. host_scores'[h] = host_scores[h] /\ accepted'[i] = host_scores[h]
    BY <1>1, <1>3, <2>1, Zenon
  <2>4. ASSUME ~undefined PROVE LatestScored(Scored, h, i, host_scores[h])'
    <3>1. /\ ExtractHostName(host_scores[h]) = h
          /\ \A j \in (i + 1)..n : ExtractHostName(accepted[j]) # h
      BY <2>1, <2>4, Zenon DEF LatestScored
    <3>2. \A j \in (i + 1)..(n + 1) : ExtractHostName(accepted[j]) # h
      BY <1>1, <1>3, <2>2, <3>1, Zenon
    <3>. QED  BY <1>1, <2>2, <2>3, <3>1, <3>2, Zenon DEF LatestScored
  <2>. QED  BY <1>1, <2>2, <2>3, <2>4, Zenon DEF ScoreInv
<1>. QED  BY <1>1, <1>2, <1>3 DEF ScoreInv

\* What the steps do to the accepted reports and to how many of them have been scored.
LEMMA ScoredSteps ==
  ASSUME Service!QueueInv, StepInv, [Next]_vars, ~UpdateScore
  PROVE  /\ \A h \in Hosts : host_scores'[h] \in {host_scores[h], None}
         /\ host_scores \in [Hosts -> Requests \cup {None}] =>
              host_scores' \in [Hosts -> Requests \cup {None}]
         /\ \/ Scored' = Scored /\ undefined' = undefined
            \/ Scored' \in Nat /\ Scored' >= Scored /\ undefined'
         /\ \A i \in 1..Len(accepted) : accepted'[i] = accepted[i]
<1>. USE DEF serverVars, poolVars, managerVars
<1>1. CASE TakeTask
  BY <1>1 DEF TakeTask, Server!TakeTask, Scored, StepInv
<1>2. CASE CallbackReturns
  <2>1. delivered \in Seq(Requests) /\ task \in Requests /\ delivered' = Append(delivered, task)
    BY <1>2, ServiceFacts DEF CallbackReturns, Server!CallbackReturns
  <2>2. Len(delivered') = Len(delivered) + 1
    BY <2>1
  <2>. QED  BY <1>2, <2>2 DEF CallbackReturns, Server!CallbackReturns, Server!queue, Scored
<1>3. CASE UseAfterDestroy
  <2>1. UNCHANGED <<delivered, accepted, host_scores>> /\ undefined' /\ step' \notin {"idle", "received"}
    BY <1>3 DEF UseAfterDestroy
  <2>2. Scored' = Len(delivered) + 1
    BY <2>1 DEF Scored
  <2>3. Scored' \in Nat /\ Scored' >= Scored
    BY <2>2, ScoredBound
  <2>. QED  BY <2>1, <2>3, Zenon
<1>4. CASE Acquire \/ Insert \/ Release \/ WorkerReturns
  BY <1>4 DEF Acquire, Insert, Release, WorkerReturns, Server!WorkerReturns, Server!queue, Scored
<1>5. ASSUME NEW h \in Hosts, Expire(h)
      PROVE  /\ UNCHANGED <<accepted, delivered, step, undefined>>
             /\ host_scores' = [host_scores EXCEPT ![h] = None]
  BY <1>5 DEF Expire
<1>6. ASSUME NEW r \in Requests, Receive(r) \/ Handle(r)
      PROVE  /\ UNCHANGED <<host_scores, step, delivered, undefined>>
             /\ \A i \in 1..Len(accepted) : accepted'[i] = accepted[i]
  <2>1. UNCHANGED <<host_scores, step, delivered, undefined>>
    BY <1>6 DEF Receive, Server!Receive, Handle, Server!CacheReport, Server!QueueReport,
       Server!worker
  <2>2. accepted' = accepted \/ accepted' = Append(accepted, r)
    BY <1>6 DEF Receive, Server!Receive, Handle, Server!CacheReport, Server!QueueReport,
       Server!queue
  <2>3. accepted \in Seq(Requests)
    BY ServiceFacts
  <2>. QED  BY <2>1, <2>2, <2>3, AppendProperties
<1>7. ASSUME Main \/ Database \/ UNCHANGED vars
      PROVE  UNCHANGED <<accepted, delivered, step, undefined, host_scores>>
  BY <1>7 DEF Main, StartUp, Shutdown, Server!Shutdown, DestroyPool, DestroyManager,
     DestroyService, Server!Destroy, Database, vars, Server!queue, Server!worker
<1>8. CASE UNCHANGED <<host_scores, step, delivered, undefined>>
           /\ \A i \in 1..Len(accepted) : accepted'[i] = accepted[i]
  BY <1>8 DEF Scored
<1>9. CASE \E h \in Hosts : Expire(h)
  <2>1. PICK h \in Hosts : Expire(h)
    BY <1>9
  <2>2. /\ UNCHANGED <<accepted, delivered, step, undefined>>
        /\ host_scores' = [host_scores EXCEPT ![h] = None]
    BY <1>5, <2>1
  <2>3. Scored' = Scored
    BY <2>2 DEF Scored
  <2>. QED  BY <2>2, <2>3
<1>. QED  BY <1>1, <1>2, <1>3, <1>4, <1>6, <1>7, <1>8, <1>9 DEF Next, WorkerThread

LEMMA ScoresStep == Service!QueueInv /\ StepInv /\ ScoresInv /\ [Next]_vars => ScoresInv'
<1>. SUFFICES ASSUME Service!QueueInv, StepInv, ScoresInv, [Next]_vars PROVE ScoresInv'
  OBVIOUS
<1>1. CASE UpdateScore
  <2>1. host_scores' = [host_scores EXCEPT ![ExtractHostName(task)] = task] /\ task \in Requests
    BY <1>1, ServiceFacts DEF UpdateScore, StepInv
  <2>. QED  BY <1>1, <2>1, ScoreUpdated DEF ScoresInv
<1>2. CASE ~UpdateScore
  BY <1>2, ScoredSteps, ScoreKept DEF ScoresInv
<1>. QED  BY <1>1, <1>2

-----------------------------------------------------------------------------
(* The receiver's cache.                                                   *)

\* What leaves the calls, the cache and the accepted reports alone.
LEMMA CacheUntouched ==
  ASSUME CachesInv, UNCHANGED <<call, host_data, accepted, overlapped>>
  PROVE  CachesInv'
BY DEF CachesInv, CacheInv, LatestUpTo, Server!InProgress, Server!HostName

\* A call that finds another one of its host in progress puts the host out of the account.
LEMMA CacheReceive ==
  ASSUME Service!QueueInv, CachesInv, NEW r \in Requests, Receive(r)
  PROVE  CachesInv'
<1>. SUFFICES ASSUME NEW h \in Hosts \ overlapped' PROVE CacheInv(h)'
  BY DEF CachesInv
<1>1. /\ call[r] = "idle" /\ call' = [call EXCEPT ![r] = IF Server!HostName(r) = NoName
                                                       THEN "invalid" ELSE "received"]
      /\ UNCHANGED <<host_data, accepted>>
      /\ call \in [Requests -> {"idle", "received", "cached", "ok", "invalid"}]
      /\ host_data \in [Hosts -> Requests \cup {None}]
  BY ServiceFacts DEF Receive, Server!Receive, Server!cache, Server!queue
<1>2. h \in Hosts \ overlapped /\ (Server!HostName(r) = h => Rivals(r) = {})
  BY DEF Receive
<1>3. CacheInv(h)
  BY <1>2 DEF CachesInv
<1>4. Server!InProgress' \subseteq Server!InProgress \cup {r}
  BY <1>1 DEF Server!InProgress
<1>5. \A q \in Server!InProgress \ {r} : Server!HostName(r) = h => Server!HostName(q) # h
  BY <1>2 DEF Rivals
<1>6. \A p, q \in Server!InProgress' :
        Server!HostName(p) = h /\ Server!HostName(q) = h => p = q
  BY <1>3, <1>4, <1>5 DEF CacheInv
<1>7. \A q \in Requests : call'[q] = "cached" <=> call[q] = "cached"
  BY <1>1
<1>8. host_data'[h] = host_data[h] /\ accepted' = accepted
      /\ (host_data[h] # None => host_data[h] \in Requests)
  BY <1>1
<1>. QED  BY <1>3, <1>6, <1>7, <1>8 DEF CacheInv, LatestUpTo, Server!HostName

\* The call in the first critical section of SetMonitorInfo is the only one of its host, and
\* the host's entry is its report, or was evicted at once.
LEMMA CacheCached ==
  ASSUME Service!QueueInv, CachesInv, NEW r \in Requests, Server!CacheReport(r),
         UNCHANGED overlapped
  PROVE  CachesInv'
<1>. SUFFICES ASSUME NEW h \in Hosts \ overlapped PROVE CacheInv(h)'
  BY DEF CachesInv
<1>1. /\ call[r] = "received" /\ call' = [call EXCEPT ![r] = "cached"] /\ accepted' = accepted
      /\ call \in [Requests -> {"idle", "received", "cached", "ok", "invalid"}]
      /\ host_data \in [Hosts -> Requests \cup {None}]
  BY ServiceFacts DEF Server!CacheReport, Server!queue
<1>2. host_data'[h] \in {None, IF h = Server!HostName(r) THEN r ELSE host_data[h]}
  <2>. DEFINE g    == Server!HostName(r)
              data == [host_data EXCEPT ![g] = r]
              kept == Server!EvictIfNeeded(data, <<g>> \o Server!RemoveFirst(lru_list, g))
  <2>1. host_data' = kept.data
    BY DEF Server!CacheReport
  <2>2. \A d, lru : Server!EvictIfNeeded(d, lru).data[h] \in {None, d[h]}
    BY DEF Server!EvictIfNeeded
  <2>3. data[h] = IF h = g THEN r ELSE host_data[h]
    BY <1>1
  <2>. HIDE DEF data, g
  <2>4. host_data'[h] \in {None, data[h]}
    BY <2>1, <2>2
  <2>. QED  BY <2>3, <2>4 DEF g
<1>3. CacheInv(h)
  BY DEF CachesInv
<1>4. Server!InProgress' = Server!InProgress
  BY <1>1 DEF Server!InProgress
<1>5. \A q \in Requests : call'[q] = IF q = r THEN "cached" ELSE call[q]
  BY <1>1
<1>6. CASE Server!HostName(r) = h
  BY <1>2, <1>3, <1>4, <1>5, <1>6 DEF CacheInv, Server!HostName
<1>7. CASE Server!HostName(r) # h
  <2>1. host_data'[h] \in {None, host_data[h]} /\ host_data[h] \in Requests \cup {None}
    BY <1>1, <1>2, <1>7
  <2>2. \A q \in Requests : Server!HostName(q) = h => call'[q] = call[q]
    BY <1>5, <1>7
  <2>. QED
    BY <1>1, <1>3, <1>4, <2>1, <2>2 DEF CacheInv, LatestUpTo, Server!HostName
<1>. QED  BY <1>6, <1>7

\* The call in the second one had the host's entry, and its report is now the latest accepted.
LEMMA CacheQueued ==
  ASSUME Service!QueueInv, CachesInv, NEW r \in Requests, Server!QueueReport(r),
         UNCHANGED overlapped
  PROVE  CachesInv'
<1>. SUFFICES ASSUME NEW h \in Hosts \ overlapped PROVE CacheInv(h)'
  BY DEF CachesInv
<1>. DEFINE n == Len(accepted)
<1>1. /\ call[r] = "cached" /\ call' = [call EXCEPT ![r] = "ok"] /\ host_data' = host_data
      /\ accepted' = Append(accepted, r) /\ accepted \in Seq(Requests)
      /\ call \in [Requests -> {"idle", "received", "cached", "ok", "invalid"}]
      /\ host_data \in [Hosts -> Requests \cup {None}]
  BY ServiceFacts DEF Server!QueueReport, Server!cache
<1>2. n \in Nat /\ Len(accepted') = n + 1 /\ accepted'[n + 1] = r
      /\ \A i \in 1..n : accepted'[i] = accepted[i]
  BY <1>1, AppendProperties
<1>. HIDE DEF n
<1>3. CacheInv(h)
  BY DEF CachesInv
<1>4. \A q \in Requests : call'[q] = IF q = r THEN "ok" ELSE call[q]
  BY <1>1
<1>5. Server!InProgress' \subseteq Server!InProgress
      /\ \A q \in Requests : call[q] = "cached" => q \in Server!InProgress
  BY <1>4 DEF Server!InProgress
<1>6. \A p, q \in Server!InProgress' :
        Server!HostName(p) = h /\ Server!HostName(q) = h => p = q
  BY <1>3, <1>5 DEF CacheInv
<1>7. host_data'[h] = host_data[h] /\ (host_data[h] # None => host_data[h] \in Requests)
  BY <1>1
<1>8. CASE Server!HostName(r) = h
  <2>1. \A q \in Requests : call'[q] = "cached" => Server!HostName(q) # h
    BY <1>1, <1>3, <1>4, <1>5, <1>8 DEF CacheInv
  <2>2. host_data[h] # None => host_data[h] = r
    BY <1>1, <1>3, <1>5, <1>7, <1>8 DEF CacheInv
  <2>3. PICK i \in Nat : i = n + 1
    BY <1>2
  <2>4. host_data[h] # None => LatestUpTo(Len(accepted), h, i, host_data[h])'
    BY <1>2, <1>7, <1>8, <2>2, <2>3 DEF LatestUpTo, Server!HostName
  <2>5. i \in 1..Len(accepted')
    BY <1>2, <2>3
  <2>. QED  BY <1>6, <1>7, <2>1, <2>4, <2>5 DEF CacheInv, Server!HostName
<1>9. CASE Server!HostName(r) # h
  <2>1. \A q \in Requests : Server!HostName(q) = h => (call'[q] = "cached" <=> call[q] = "cached")
    BY <1>4, <1>9
  <2>2. ASSUME NEW i \in 1..n, LatestUpTo(n, h, i, host_data[h])
        PROVE  i \in 1..Len(accepted') /\ LatestUpTo(Len(accepted), h, i, host_data[h])'
    <3>1. i \in 1..(n + 1) /\ \A j \in (i + 1)..(n + 1) : j \in (i + 1)..n \/ j = n + 1
      BY <1>2
    <3>2. \A j \in (i + 1)..n : j \in 1..n
      BY <1>2
    <3>. QED  BY <1>2, <1>7, <1>9, <2>2, <3>1, <3>2 DEF LatestUpTo, Server!HostName
  <2>. QED  BY <1>3, <1>6, <1>7, <2>1, <2>2 DEF CacheInv, Server!HostName, n
<1>. QED  BY <1>8, <1>9

LEMMA CachesStep == Service!QueueInv /\ CachesInv /\ [Next]_vars => CachesInv'
<1>. SUFFICES ASSUME Service!QueueInv, CachesInv, [Next]_vars PROVE CachesInv'
  OBVIOUS
<1>1. ASSUME NEW r \in Requests, Receive(r) \/ Handle(r) PROVE CachesInv'
  BY <1>1, CacheReceive, CacheCached, CacheQueued DEF Handle
<1>2. WorkerThread \/ Main \/ Database \/ UNCHANGED vars \/ (\E h \in Hosts : Expire(h))
        => UNCHANGED <<call, host_data, accepted, overlapped>>
  BY DEF WorkerThread, TakeTask, Server!TakeTask, UpdateScore, Acquire, Insert, Release,
     CallbackReturns, Server!CallbackReturns, UseAfterDestroy, WorkerReturns,
     Server!WorkerReturns, Main, StartUp, Shutdown, Server!Shutdown, DestroyPool,
     DestroyManager, DestroyService, Server!Destroy, Database, Expire, vars, serverVars,
     Server!cache, Server!queue
<1>. QED  BY <1>1, <1>2, CacheUntouched DEF Next

-----------------------------------------------------------------------------
LEMMA Invariant == Spec => []IInv
<1>1. Init => IInv
  <2>. SUFFICES ASSUME Init PROVE IInv
    OBVIOUS
  <2>1. Service!QueueInv
    <3>1. Service!Init
      BY SameModule DEF Init
    <3>. QED  BY <3>1, Constants, Service!QueueInit
  <2>2. ScoresInv /\ CachesInv
    BY DEF Init, Server!Init, ScoresInv, ScoreInv, CachesInv, CacheInv, Server!InProgress
  <2>. QED  BY <2>1, <2>2, RowsInit DEF IInv
<1>2. IInv /\ [Next]_vars => IInv'
  BY ServiceKept, RowsStep, ScoresStep, CachesStep, Zenon DEF IInv, RowsInv
<1>. QED  BY <1>1, <1>2, PTL DEF Spec

\* The service keeps to its own specification inside the manager, whatever the callback, the
\* pool, the database and the end of main do: what was proved of the service alone holds here.
THEOREM RunsService == Spec => Service!Safety
<1>1. Init => Service!Init
  BY SameModule DEF Init
<1>. QED  BY <1>1, ServiceStep, PTL DEF Spec, Service!Safety

\* So the promise of the receiver alone is the manager's as well: what is answered OK is
\* handed to the callback once and in order, and the service does not end before all of it.
THEOREM DeliversInOrder == Spec => Service!DeliverySafety
BY RunsService, Service!PromiseKept, Constants, PTL

\* When WorkerThread has returned in ~GrpcServerImpl, every report that was answered OK has
\* been through the callback, although main has destroyed the pool and the manager before.
THEOREM DrainedAtTheEnd == Spec => []Service!DrainedOnExit
<1>1. IInv => Service!DrainedOnExit
  BY Constants, Service!DrainedFromQueue DEF IInv
<1>. QED  BY <1>1, Invariant, PTL

\* A report loses its rows from the end, but for INSERTs that a live server refused: an insert
\* finds the connection dead only if the ones after it do too (HostManager::WriteToMysql,
\* which looks at the result of none of them).
THEOREM RowsInOrder == Spec => []LostFromTheEnd
<1>1. IInv => LostFromTheEnd
  BY DEF IInv, RowsInv, StoredInv
<1>. QED  BY <1>1, Invariant, PTL

\* Without an outage every row of every processed report is stored whose own INSERT a live
\* server has not refused, however many reports and connections there are.
THEOREM RowsComplete == Spec => []StoredUnlessOutage
<1>1. IInv => StoredUnlessOutage
  BY DEF IInv, RowsInv, OutageInv, StoredUnlessOutage
<1>. QED  BY <1>1, Invariant, PTL

\* The cache of the receiver and the table of the manager end up with the same report of a
\* host whose calls never overlapped and whose reports go by one name, in whatever order the
\* two sides took their steps.
THEOREM OneViewOfAHost == Spec => []TablesAgree
<1>1. IInv => TablesAgree
  <2>. SUFFICES ASSUME IInv, NEW h \in Hosts \ overlapped, Underway(h) = {}, ~TwoNames(h),
                       host_data[h] # None, host_scores[h] # None, ~undefined
                PROVE  host_data[h] = host_scores[h]
    BY DEF TablesAgree
  <2>. DEFINE n == Len(accepted)
  <2>0. Service!QueueInv /\ StepInv /\ ScoreInv(h) /\ CacheInv(h)
    BY DEF IInv, RowsInv, ScoresInv, CachesInv
  <2>1. \A r \in Requests : call[r] = "cached" => Server!HostName(r) # h
    BY DEF Underway, Server!InProgress
  <2>2. PICK i \in 1..n : LatestUpTo(n, h, i, host_data[h])
    BY <2>0, <2>1 DEF CacheInv
  <2>3. PICK k \in 1..Scored : LatestScored(Scored, h, k, host_scores[h])
    BY <2>0 DEF ScoreInv
  <2>4. n \in Nat /\ Scored \in Nat /\ Scored <= n /\ Len(delivered) \in Nat
        /\ Len(delivered) <= Scored
    BY <2>0, ScoredBound
  <2>5. i <= Scored
    <3>1. accepted[i] = host_data[h] /\ Server!HostName(accepted[i]) = h
      BY <2>2 DEF LatestUpTo
    <3>2. accepted[i] \notin Range(task_queue)
      BY <3>1 DEF Underway
    <3>3. task # None => task \in Range(Server!Hand)
      BY DEF Server!Hand, Range
    <3>4. ~(task # None /\ accepted[i] = task)
      BY <3>1, <3>3 DEF Underway
    <3>5. i <= Len(delivered)
      BY <2>0, <3>2, <3>4, Positions
    <3>. QED  BY <2>4, <3>5
  <2>6. i = k
    <3>1. /\ \A j \in (i + 1)..n : Server!HostName(accepted[j]) # h
          /\ \A j \in (k + 1)..Scored : ExtractHostName(accepted[j]) # h
          /\ Server!HostName(accepted[i]) = h /\ ExtractHostName(accepted[k]) = h
      BY <2>2, <2>3 DEF LatestUpTo, LatestScored
    <3>2. k \in 1..n /\ i \in 1..Scored
      BY <2>4, <2>5
    <3>0. \A j \in 1..n : (Server!HostName(accepted[j]) = h) <=> (ExtractHostName(accepted[j]) = h)
      <4>1. DOMAIN accepted = 1..n
        BY <2>0, ServiceFacts
      <4>. QED  BY <4>1 DEF TwoNames, Range
    <3>3. i < k => k \in (i + 1)..n
      BY <2>4, <3>2
    <3>4. k < i => i \in (k + 1)..Scored
      BY <2>4, <3>2
    <3>. QED  BY <2>4, <3>0, <3>1, <3>2, <3>3, <3>4
  <2>. QED  BY <2>2, <2>3, <2>6 DEF LatestUpTo, LatestScored
<1>. QED  BY <1>1, Invariant, PTL

\* The table follows the order in which the reports were accepted.
THEOREM ScoresFollowQueue == Spec => ScoresMoveForward
<1>. DEFINE Forward == \A h \in Hosts :
              host_scores[h] # None /\ host_scores'[h] # None =>
                Position(accepted, host_scores[h]) <= Position(accepted, host_scores'[h])
<1>1. IInv /\ [Next]_vars => [Forward]_vars
  <2>. SUFFICES ASSUME IInv, [Next]_vars, NEW h \in Hosts,
                       host_scores[h] # None, host_scores'[h] # None
                PROVE  Position(accepted, host_scores[h]) <= Position(accepted, host_scores'[h])
    OBVIOUS
  <2>0. Service!QueueInv /\ StepInv /\ ScoreInv(h)
    BY DEF IInv, RowsInv, ScoresInv
  <2>1. \A i \in 1..Len(accepted) : Position(accepted, accepted[i]) = i
    <3>1. DOMAIN accepted = 1..Len(accepted)
      BY <2>0, ServiceFacts
    <3>2. \A i, j \in 1..Len(accepted) : accepted[i] = accepted[j] => i = j
      BY <2>0, ServiceFacts
    <3>. QED  BY <3>1, <3>2 DEF Position
  <2>2. PICK i \in 1..Scored : accepted[i] = host_scores[h]
    BY <2>0 DEF ScoreInv
  <2>3. Scored \in Nat /\ Len(accepted) \in Nat /\ Scored <= Len(accepted)
    BY <2>0, ScoredBound
  <2>4. Position(accepted, host_scores[h]) = i /\ i \in Nat
    <3>1. i \in 1..Len(accepted)
      BY <2>3
    <3>. QED  BY <2>1, <2>2, <3>1
  <2>5. CASE host_scores'[h] = host_scores[h]
    BY <2>4, <2>5
  <2>6. CASE host_scores'[h] # host_scores[h]
    <3>1. UpdateScore
      BY <2>0, <2>6, ScoredSteps
    <3>2. step = "received" /\ task # None /\ host_scores'[h] \in {host_scores[h], task}
      BY <2>0, <3>1 DEF UpdateScore, StepInv, IInv, ScoresInv
    <3>3. /\ Scored = Len(delivered) /\ Len(delivered) + 1 \in 1..Len(accepted)
          /\ accepted[Len(delivered) + 1] = task
      BY <2>0, <2>3, <3>2, Positions DEF Scored
    <3>4. Position(accepted, task) = Len(delivered) + 1
      BY <2>1, <3>3
    <3>. QED  BY <2>3, <2>4, <2>6, <3>2, <3>3, <3>4
  <2>. QED  BY <2>5, <2>6
<1>2. []IInv /\ [][Next]_vars => [][Forward]_vars
  BY <1>1, PTL
<1>. QED  BY <1>2, Invariant, Zenon DEF Spec, ScoresMoveForward

-----------------------------------------------------------------------------
(* The pool inside the manager.                                            *)

\* What was proved of the pool holds until main destroys it, and WorkerThread waits in it
\* where the callback says so.
LendingInv ==
  /\ ~PoolGone => Lending!IInv
  /\ step = "acquiring" => borrower[Worker] = "waiting"

\* Pool and Lending are the same module, once without and once with its theorems.
LEMMA SamePool ==
  /\ Pool!Start => Lending!Start
  /\ Pool!Init => Lending!Next
  /\ Pool!Call(Worker) => Lending!Next
  /\ Pool!Acquire(Worker) => Lending!Next
  /\ Pool!AcquireFails(Worker) => Lending!Next
  /\ Pool!Release(Worker) => Lending!Next
  /\ Pool!DatabaseStops \/ Pool!DatabaseStarts \/ Pool!IdleTimeout => Lending!Next
  /\ UNCHANGED poolVars => UNCHANGED Lending!vars
<1>. USE DEF Pool!environment, Lending!environment
<1>1. Pool!Start => Lending!Start
  BY DEF Pool!Start, Lending!Start
<1>2. Pool!Init => Lending!Init
  BY DEF Pool!Init, Lending!Init
<1>3. Pool!Call(Worker) => Lending!Call(Worker)
  BY DEF Pool!Call, Lending!Call
<1>4. Pool!Acquire(Worker) => Lending!Acquire(Worker)
  BY DEF Pool!Acquire, Lending!Acquire, Pool!Waiting, Lending!Waiting
<1>5. Pool!AcquireFails(Worker) => Lending!AcquireFails(Worker)
  BY DEF Pool!AcquireFails, Lending!AcquireFails, Pool!Waiting, Lending!Waiting
<1>6. Pool!Release(Worker) => Lending!Release(Worker)
  BY DEF Pool!Release, Lending!Release, Pool!Connection, Lending!Connection
<1>7. Pool!DatabaseStops => Lending!DatabaseStops
  BY DEF Pool!DatabaseStops, Lending!DatabaseStops, Pool!Holders, Lending!Holders,
     Pool!Connection, Lending!Connection
<1>8. Pool!DatabaseStarts \/ Pool!IdleTimeout => Lending!DatabaseStarts \/ Lending!IdleTimeout
  BY DEF Pool!DatabaseStarts, Lending!DatabaseStarts, Pool!IdleTimeout, Lending!IdleTimeout
<1>9. UNCHANGED poolVars => UNCHANGED Lending!vars
  BY DEF poolVars, Lending!vars
<1>. QED
  BY <1>1, <1>2, <1>3, <1>4, <1>5, <1>6, <1>7, <1>8, <1>9, Zenon DEF Lending!Next

\* Only ~MysqlPool touches the pool in another way than its own operations.
LEMMA LendingStep == [Next]_vars => DestroyPool \/ [Lending!Next]_(Lending!vars)
<1>1. ASSUME NEW r \in Requests, Receive(r) \/ Handle(r) PROVE UNCHANGED Lending!vars
  BY <1>1, SamePool DEF Receive, Handle
<1>2. WorkerThread => Lending!Next \/ UNCHANGED Lending!vars
  BY SamePool, Zenon DEF WorkerThread, TakeTask, UpdateScore, Acquire, Insert, Release,
     CallbackReturns, UseAfterDestroy, WorkerReturns
<1>3. Main => DestroyPool \/ Lending!Next \/ UNCHANGED Lending!vars
  BY SamePool, Zenon DEF Main, StartUp, Shutdown, DestroyManager, DestroyService
<1>4. (\E h \in Hosts : Expire(h)) \/ UNCHANGED vars => UNCHANGED Lending!vars
  BY SamePool, Zenon DEF Expire, vars
<1>5. Database => Lending!Next
  BY SamePool, Zenon DEF Database
<1>. QED  BY <1>1, <1>2, <1>3, <1>4, <1>5, Zenon DEF Next

\* What is destroyed stays so.
LEMMA PoolStaysGone == PoolGone /\ [Next]_vars => PoolGone'
<1>. USE DEF PoolGone, ManagerGone
<1>1. ASSUME NEW r \in Requests, Receive(r) \/ Handle(r) PROVE UNCHANGED phase
  BY <1>1 DEF Receive, Handle
<1>2. WorkerThread => UNCHANGED phase
  BY DEF WorkerThread, TakeTask, UpdateScore, Acquire, Insert, Release, CallbackReturns,
     UseAfterDestroy, WorkerReturns
<1>3. PoolGone /\ Main => PoolGone'
  BY DEF Main, StartUp, Shutdown, DestroyPool, DestroyManager, DestroyService
<1>4. (\E h \in Hosts : Expire(h)) \/ Database \/ UNCHANGED vars => UNCHANGED phase
  BY DEF Expire, Database, vars
<1>. QED  BY <1>1, <1>2, <1>3, <1>4 DEF Next

\* WorkerThread comes to wait by calling Acquire, and waits until Acquire returns.
LEMMA WaitingStep ==
  ASSUME StepInv, step = "acquiring" => borrower[Worker] = "waiting", [Next]_vars
  PROVE  step' = "acquiring" => borrower'[Worker] = "waiting"
<1>. SUFFICES ASSUME step' = "acquiring" PROVE borrower'[Worker] = "waiting"
  OBVIOUS
<1>1. borrower \in [{Worker} -> {"idle", "waiting", "live", "dead"}]
  BY DEF StepInv
<1>2. CASE WorkerThread
  <2>1. UpdateScore \/ WorkerReturns
    BY <1>2 DEF WorkerThread, TakeTask, Acquire, Insert, Release, CallbackReturns,
       UseAfterDestroy
  <2>2. CASE UpdateScore
    BY <1>1, <2>2 DEF UpdateScore, Pool!Call
  <2>3. CASE WorkerReturns
    BY <2>3 DEF WorkerReturns, managerVars, poolVars
  <2>. QED  BY <2>1, <2>2, <2>3
<1>3. CASE Database
  <2>1. step = "acquiring"
    BY <1>3 DEF Database, managerVars
  <2>. QED
    BY <1>1, <1>3, <2>1 DEF Database, Pool!DatabaseStops, Pool!DatabaseStarts,
       Pool!IdleTimeout, Pool!Holders, Pool!Connection
<1>4. UNCHANGED <<step, borrower>> => borrower'[Worker] = "waiting"
  OBVIOUS
<1>5. ASSUME NEW r \in Requests, Receive(r) \/ Handle(r) PROVE UNCHANGED <<step, borrower>>
  BY <1>5 DEF Receive, Handle, poolVars, managerVars
<1>6. Main \/ (\E h \in Hosts : Expire(h)) \/ UNCHANGED vars => UNCHANGED <<step, borrower>>
  BY DEF Main, StartUp, Pool!Init, Shutdown, DestroyPool, DestroyManager, DestroyService, Expire,
     vars, poolVars, managerVars
<1>. QED  BY <1>2, <1>3, <1>4, <1>5, <1>6 DEF Next

LEMMA LendingInvariant == Spec => []LendingInv
<1>1. Init => LendingInv
  <2>. SUFFICES ASSUME Init PROVE LendingInv
    OBVIOUS
  <2>1. Lending!IInv
    BY SamePool, Constants, Lending!InitInv DEF Init
  <2>. QED  BY <2>1 DEF Init, LendingInv
<1>2. StepInv /\ LendingInv /\ [Next]_vars => LendingInv'
  <2>. SUFFICES ASSUME StepInv, LendingInv, [Next]_vars PROVE LendingInv'
    OBVIOUS
  <2>1. ASSUME ~PoolGone' PROVE Lending!IInv'
    <3>1. Lending!IInv
      BY <2>1, PoolStaysGone DEF LendingInv
    <3>2. ~DestroyPool
      BY <2>1 DEF DestroyPool, PoolGone
    <3>. QED  BY <3>1, <3>2, LendingStep, Constants, Lending!NextStep
  <2>. QED  BY <2>1, WaitingStep DEF LendingInv
<1>3. IInv => StepInv
  BY DEF IInv, RowsInv
<1>. QED  BY <1>1, <1>2, <1>3, Invariant, PTL DEF Spec

\* The pool does in the manager what it does alone, but for the step in which main destroys
\* it: nothing else takes connections out of it or puts them in.
THEOREM RunsPool == Spec => Lending!Start /\ [][DestroyPool \/ Lending!Next]_(Lending!vars)
<1>1. Init => Lending!Start
  BY SamePool DEF Init
<1>2. [Next]_vars => [DestroyPool \/ Lending!Next]_(Lending!vars)
  BY LendingStep
<1>. QED  BY <1>1, <1>2, PTL DEF Spec

\* Until main destroys the pool, every slot of it is idle, in WorkerThread's hand or lost to
\* an Acquire that returned nullptr.
THEOREM SlotsInUse == Spec => [](~PoolGone => Lending!SlotsAccounted)
<1>1. LendingInv => (~PoolGone => Lending!SlotsAccounted)
  BY DEF LendingInv, Lending!IInv
<1>. QED  BY <1>1, LendingInvariant, PTL

\* WorkerThread, the only one to borrow, finds the pool empty in MysqlPool::Acquire only when
\* PoolSize calls of Acquire have failed to reconnect: until then it never has to wait.
THEOREM WaitsOnlyWhenSpent ==
  Spec => [](step = "acquiring" /\ pool = <<>> /\ ~PoolGone => lost = PoolSize)
<1>1. LendingInv => (step = "acquiring" /\ pool = <<>> /\ ~PoolGone => lost = PoolSize)
  <2>. SUFFICES ASSUME LendingInv, step = "acquiring", pool = <<>>, ~PoolGone
                PROVE  lost = PoolSize
    OBVIOUS
  <2>1. borrower[Worker] = "waiting" /\ Lending!IInv
    BY DEF LendingInv
  <2>2. init = "ok"
    BY <2>1 DEF Lending!IInv, Lending!Unused
  <2>3. Lending!Holders = {}
    BY <2>1 DEF Lending!Holders, Lending!Connection
  <2>4. 0 + Cardinality({}) + lost = PoolSize /\ lost \in Nat
    BY <2>1, <2>2, <2>3 DEF Lending!IInv, Lending!TypeOK, Lending!SlotsAccounted,
       Lending!Cardinality, Cardinality
  <2>. QED  BY <2>4, FS_EmptySet
<1>. QED  BY <1>1, LendingInvariant, PTL

\* The connection WorkerThread writes a report's rows to was live when it got it.
THEOREM WriterGetsLive == Spec => Lending!HandsOutLive
<1>. DEFINE Live == \A b \in {Worker} :
              borrower[b] = "waiting" /\ borrower'[b] \in Lending!Connection =>
                borrower'[b] = "live"
<1>1. StepInv /\ [Next]_vars => [Live]_(Lending!vars)
  <2>. SUFFICES ASSUME StepInv, [Next]_vars, Lending!vars' # Lending!vars, NEW b \in {Worker},
                       borrower[b] = "waiting", borrower'[b] \in Lending!Connection
                PROVE  borrower'[b] = "live"
    OBVIOUS
  <2>1. borrower \in [{Worker} -> {"idle", "waiting"} \cup Lending!Connection]
    BY DEF StepInv, Lending!Connection
  <2>2. Lending!Next
    <3>1. ~DestroyPool
      BY DEF DestroyPool, Lending!Connection
    <3>. QED  BY <3>1, LendingStep
  <2>. QED  BY <2>1, <2>2, Lending!LiveStep, Constants
<1>2. IInv => StepInv
  BY DEF IInv, RowsInv
<1>. QED  BY <1>1, <1>2, Invariant, PTL DEF Spec, Lending!HandsOutLive

-----------------------------------------------------------------------------
(* The destructors.                                                        *)

\* main destroys the pool only after the last call was answered, and no other call comes.
EndInv == PoolGone => ~accepting /\ Server!InProgress = {}

\* main destroys its objects, and every report that was answered OK has been processed.
Quiet == PoolGone /\ delivered = accepted

LEMMA EndStep == EndInv /\ [Next]_vars => EndInv'
<1>. SUFFICES ASSUME EndInv, [Next]_vars, PoolGone' PROVE ~accepting' /\ Server!InProgress' = {}
  BY DEF EndInv
<1>. USE DEF PoolGone, ManagerGone, Server!InProgress
<1>1. CASE DestroyPool
  BY <1>1 DEF DestroyPool, serverVars
<1>2. ASSUME PoolGone, UNCHANGED <<call, accepting>>
      PROVE  ~accepting' /\ Server!InProgress' = {}
  BY <1>2 DEF EndInv
<1>3. ASSUME NEW r \in Requests, Receive(r) \/ Handle(r) PROVE ~PoolGone'
  <2>1. UNCHANGED phase /\ (phase = "serving" \/ call[r] \in {"received", "cached"})
    BY <1>3 DEF Receive, Handle, Server!CacheReport, Server!QueueReport
  <2>. QED  BY <2>1 DEF EndInv
<1>4. WorkerThread => UNCHANGED <<phase, call, accepting>>
  BY DEF WorkerThread, TakeTask, UpdateScore, Acquire, Insert, Release, CallbackReturns,
     UseAfterDestroy, WorkerReturns, Server!TakeTask, Server!CallbackReturns,
     Server!WorkerReturns, Server!server, serverVars
<1>5. StartUp \/ Shutdown => ~PoolGone'
  BY DEF StartUp, Shutdown
<1>6. DestroyManager \/ DestroyService => PoolGone /\ UNCHANGED <<call, accepting>>
  BY DEF DestroyManager, DestroyService, Server!Destroy, serverVars
<1>7. (\E h \in Hosts : Expire(h)) \/ Database \/ UNCHANGED vars =>
        UNCHANGED <<phase, call, accepting>>
  BY DEF Expire, Database, vars, serverVars
<1>. QED  BY <1>1, <1>2, <1>3, <1>4, <1>5, <1>6, <1>7 DEF Next, Main

\* WorkerThread then waits for a task, and none comes.
LEMMA QuietStep ==
  ASSUME Service!QueueInv, StepInv, EndInv, Quiet, ~undefined, [Next]_vars
  PROVE  Quiet' /\ ~undefined'
<1>1. task = None /\ task_queue = <<>>
  <2>1. task = None
    BY Positions DEF Quiet
  <2>2. task_queue \in Seq(Requests) /\ Len(task_queue) = 0
    <3>1. Service!TypeInv /\ Service!AcknowledgedOnce
      BY DEF Service!QueueInv
    <3>2. /\ Len(accepted) = Len(delivered) + Len(Service!Hand) + Len(task_queue)
          /\ Len(delivered) \in Nat /\ Len(Service!Hand) \in Nat /\ Len(task_queue) \in Nat
      BY <3>1, Constants, Service!LengthOfAccepted
    <3>. QED  BY <3>2, ServiceFacts DEF Quiet
  <2>. QED  BY <2>1, <2>2, EmptySeq
<1>2. step = "idle"
  BY <1>1 DEF StepInv
<1>3. PoolGone'
  BY PoolStaysGone DEF Quiet
<1>4. \A r \in Requests : ~Receive(r) /\ ~Handle(r)
  BY DEF Receive, Handle, Server!CacheReport, Server!QueueReport, EndInv, Quiet, PoolGone,
     ManagerGone, Server!InProgress
<1>5. WorkerThread => WorkerReturns
  BY <1>1, <1>2 DEF WorkerThread, TakeTask, UpdateScore, Acquire, Insert, Release,
     CallbackReturns, UseAfterDestroy, Server!TakeTask
<1>6. WorkerReturns \/ Main \/ (\E h \in Hosts : Expire(h)) \/ Database \/ UNCHANGED vars =>
        UNCHANGED <<delivered, accepted, undefined>>
  BY DEF WorkerReturns, Server!WorkerReturns, Main, StartUp, Shutdown, Server!Shutdown,
     DestroyPool, DestroyManager, DestroyService, Server!Destroy, Expire, Database, vars,
     serverVars, Server!queue, Server!worker
<1>. QED  BY <1>3, <1>4, <1>5, <1>6 DEF Next, Quiet

\* The order of main's destructors harms only reports that were answered OK and not processed
\* when main came to them: once all of them are, nothing destroyed is ever used.
THEOREM HarmlessWhenDrained == Spec => [](Quiet /\ ~undefined => []~undefined)
<1>1. Init => EndInv
  BY DEF Init, EndInv, PoolGone
<1>2. IInv => Service!QueueInv /\ StepInv
  BY DEF IInv, RowsInv
<1>3. IInv /\ EndInv /\ (Quiet /\ ~undefined) /\ [Next]_vars => (Quiet /\ ~undefined)'
  BY <1>2, QuietStep
<1>. QED  BY <1>1, <1>3, EndStep, Invariant, PTL DEF Spec

-----------------------------------------------------------------------------
(* How the process ends.                                                   *)

\* Before http_thread is launched there is no HTTP server, and only an accept loop has
\* connections; main returns after it.
HttpInv ==
  /\ main \in {"starting", "serving", "published", "launching"} => http = "none"
  /\ http \notin {"accepting", "draining"} => connections = 0
  /\ main = "returned" => http = "returned"
  /\ is_running <=> http \in {"accepting", "draining"}

\* A handler that has come to shut the gRPC server down, or found nothing to shut down.
Over == {"leaving", "done"}

\* main waits for a handler to shut the gRPC server down before it clears the pointers, and
\* a handler that comes after that finds them cleared.
ShutdownInv ==
  /\ handler \in [Signals -> {"pending", "stop", "close", "stray"} \cup Past]
  /\ grpc \in {"shutdown", "destroyed"} => \E t \in Signals : handler[t] \in Over
  /\ main \in {"starting", "serving", "published", "launching", "waiting"}
     \/ grpc \in {"shutdown", "destroyed"}
  /\ Cleared \/ main = "clearing" => ~g_http_server
  /\ Cleared => ~g_grpc_server
  /\ \A s \in late : s \in Signals /\ handler[s] \in {"grpc", "done"} /\ Cleared
  /\ \A s \in Signals : handler[s] = "stray" => main = "returned"

\* Only a call of stop on a running server closes the socket, and its handler, or the one
\* that sent main there, has got past its own call then.
SocketInv ==
  /\ http \in {"none", "created", "bound"} =>
       main # "closing" /\ \A s \in Signals : handler[s] # "close"
  /\ http = "bound" => svr_sock = "open"
  /\ http \in {"accepting", "draining"} /\ svr_sock = "invalid" =>
       \E s \in Signals : handler[s] \in Past
  /\ AssertSparesFirst

LEMMA HttpInit == ProcessInit => HttpInv
BY DEF ProcessInit, HttpInv

LEMMA HttpStep == HttpInv /\ [ProcessNext]_processVars => HttpInv'
<1>. SUFFICES ASSUME HttpInv, [ProcessNext]_processVars PROVE HttpInv'
  OBVIOUS
<1>. USE DEF HttpInv, globals, httpServer, process
<1>1. ASSUME NEW s \in Signals, Handler(s) PROVE HttpInv'
  <2>1. UNCHANGED <<main, http, connections, is_running>>
    BY <1>1 DEF Handler, HandlerEnters, HandlerStops,
       HandlerCloses, CloseSocket, HandlerTests,
       HandlerShutsDown, HandlerReturns, HandlerStrays
  <2>. QED  BY <2>1
<1>2. CASE HttpThread
  BY <1>2 DEF HttpThread, Bind, EnterLoop, LeaveLoop,
     ListenReturns
<1>3. CASE Accept \/ AcceptFails \/ Disconnect
  BY <1>3 DEF Accept, AcceptFails, Disconnect
<1>4. CASE MainThread
  BY <1>4 DEF MainThread, ServeGrpc, PublishGrpc, PublishHttp,
     LaunchHttp, WaitReturns, ClearGrpc, MainStops, MainCloses,
     CloseSocket, Return
<1>5. CASE UNCHANGED processVars
  BY <1>5 DEF processVars
<1>. QED  BY <1>1, <1>2, <1>3, <1>4, <1>5 DEF ProcessNext

\* When main has returned http_thread has ended and every HTTP connection is closed.
THEOREM NothingLeft == ProcessSpec => []NothingOutlivesMain
<1>1. HttpInv => NothingOutlivesMain
  BY DEF HttpInv, NothingOutlivesMain
<1>. QED  BY <1>1, HttpInit, HttpStep, PTL DEF ProcessSpec

LEMMA ShutdownInit == ProcessInit => ShutdownInv /\ SocketInv
BY DEF ProcessInit, ShutdownInv, SocketInv, AssertSparesFirst, Cleared

\* The handler of signal s takes a step: the other handlers stay where they are.
LEMMA ShutdownHandler ==
  ASSUME HttpInv, ShutdownInv, SocketInv, NEW s \in Signals, Handler(s), ~aborted
  PROVE  ShutdownInv' /\ SocketInv'
<1>. USE DEF globals, httpServer, process, Over, Past
<1>1. UNCHANGED <<main, http, g_http_server, g_grpc_server>>
  BY DEF Handler, HandlerEnters, HandlerStops, HandlerCloses, CloseSocket, HandlerTests,
     HandlerShutsDown, HandlerReturns, HandlerStrays
<1>2. Cleared' = Cleared
  BY <1>1 DEF Cleared
<1>3. CASE HandlerEnters(s)
  BY <1>1, <1>2, <1>3 DEF HandlerEnters, ShutdownInv, SocketInv, AssertSparesFirst
<1>4. CASE HandlerStops(s)
  <2>1. CASE StopAborts
    <3>1. \E t \in Signals : handler[t] \in Past
      BY <2>1 DEF StopAborts, HttpInv, SocketInv
    <3>. QED
      BY <1>1, <1>2, <1>4, <2>1, <3>1 DEF HandlerStops, StopAborts, StopNothing, StopProceeds,
         ShutdownInv, SocketInv, AssertSparesFirst
  <2>2. CASE ~StopAborts
    <3>1. /\ UNCHANGED <<grpc, svr_sock, aborted, late>>
          /\ \/ ~is_running /\ handler' = [handler EXCEPT ![s] = "grpc"]
             \/ is_running /\ handler' = [handler EXCEPT ![s] = "close"]
          /\ handler[s] = "stop"
      BY <1>4, <2>2 DEF HandlerStops, StopNothing, StopProceeds
    <3>2. is_running => http \in {"accepting", "draining"}
      BY DEF HttpInv
    <3>. QED  BY <1>1, <1>2, <3>1, <3>2 DEF ShutdownInv, SocketInv, AssertSparesFirst
  <2>. QED  BY <2>1, <2>2
<1>5. CASE HandlerCloses(s)
  BY <1>1, <1>2, <1>5 DEF HandlerCloses, CloseSocket, ShutdownInv, SocketInv, AssertSparesFirst
<1>6. CASE HandlerTests(s)
  BY <1>1, <1>2, <1>6 DEF HandlerTests, ShutdownInv, SocketInv, AssertSparesFirst
<1>7. CASE HandlerShutsDown(s)
  BY <1>1, <1>2, <1>7 DEF HandlerShutsDown, ShutdownInv, SocketInv, AssertSparesFirst
<1>8. CASE HandlerReturns(s)
  BY <1>1, <1>2, <1>8 DEF HandlerReturns, ShutdownInv, SocketInv, AssertSparesFirst
<1>9. CASE HandlerStrays(s)
  <2>1. PICK t \in Signals : handler[t] \in Over
    BY <1>9 DEF HandlerStrays, ShutdownInv
  <2>2. t # s /\ handler'[t] \in Over
    BY <1>9, <2>1 DEF HandlerStrays, ShutdownInv
  <2>3. handler[s] \notin {"grpc", "done"} /\ main = "returned"
    BY <1>9 DEF HandlerStrays
  <2>4. s \notin late
    BY <2>3 DEF ShutdownInv
  <2>. QED
    BY <1>1, <1>2, <1>9, <2>2, <2>4 DEF HandlerStrays, ShutdownInv, SocketInv, AssertSparesFirst
<1>. QED  BY <1>3, <1>4, <1>5, <1>6, <1>7, <1>8, <1>9 DEF Handler

LEMMA ShutdownStep ==
  ASSUME HttpInv, ShutdownInv, SocketInv, [ProcessNext]_processVars
  PROVE  ShutdownInv' /\ SocketInv'
<1>. USE DEF globals, httpServer, process, Over, Past
<1>1. CASE HttpThread /\ ~aborted
  BY <1>1 DEF HttpThread, Bind, EnterLoop, LeaveLoop, ListenReturns, HttpInv, ShutdownInv,
     SocketInv, AssertSparesFirst, Cleared
<1>2. CASE (Accept \/ AcceptFails \/ Disconnect) /\ ~aborted
  BY <1>2 DEF Accept, AcceptFails, Disconnect, ShutdownInv, SocketInv, AssertSparesFirst, Cleared
<1>3. CASE MainThread /\ ~aborted
  <2>1. CASE MainStops
    <3>1. is_running => http \in {"accepting", "draining"}
      BY DEF HttpInv
    <3>. QED
      BY <1>3, <2>1, <3>1 DEF MainStops, StopNothing, StopProceeds, StopAborts, ShutdownInv,
         SocketInv, AssertSparesFirst, Cleared
  <2>2. CASE MainCloses
    BY <1>3, <2>2 DEF MainCloses, CloseSocket, ShutdownInv, SocketInv, AssertSparesFirst, Cleared
  <2>3. CASE ServeGrpc \/ PublishGrpc \/ PublishHttp \/ LaunchHttp
    BY <1>3, <2>3 DEF ServeGrpc, PublishGrpc, PublishHttp, LaunchHttp, HttpInv, ShutdownInv,
       SocketInv, AssertSparesFirst, Cleared
  <2>4. CASE WaitReturns
    BY <1>3, <2>4 DEF WaitReturns, ShutdownInv, SocketInv, AssertSparesFirst, Cleared
  <2>5. CASE ClearGrpc
    BY <1>3, <2>5 DEF ClearGrpc, ShutdownInv, SocketInv, AssertSparesFirst, Cleared
  <2>6. CASE Return
    BY <1>3, <2>6 DEF Return, HttpInv, ShutdownInv, SocketInv, AssertSparesFirst, Cleared
  <2>. QED  BY <1>3, <2>1, <2>2, <2>3, <2>4, <2>5, <2>6 DEF MainThread
<1>4. CASE UNCHANGED processVars
  BY <1>4 DEF processVars, ShutdownInv, SocketInv, AssertSparesFirst, Cleared
<1>. QED  BY <1>1, <1>2, <1>3, <1>4, ShutdownHandler DEF ProcessNext

LEMMA ProcessInvariant == ProcessSpec => [](HttpInv /\ ShutdownInv /\ SocketInv)
<1>1. HttpInv /\ ShutdownInv /\ SocketInv /\ [ProcessNext]_processVars
        => HttpInv' /\ ShutdownInv' /\ SocketInv'
  BY HttpStep, ShutdownStep
<1>. QED  BY <1>1, HttpInit, ShutdownInit, PTL DEF ProcessSpec

\* For any number of signals, a handler reaches a server main has destroyed only if it had
\* come before main cleared the pointers (main.cpp:264), beside another handler that let
\* main return.
THEOREM StraysOverlap == ProcessSpec => []StrayNeedsOverlap
<1>1. ShutdownInv => StrayNeedsOverlap
  BY DEF ShutdownInv, StrayNeedsOverlap, Over
<1>. QED  BY <1>1, ProcessInvariant, PTL

\* And of all calls of stop, by any number of handlers and by main, the first never fails
\* its assert.
THEOREM AssertSparesOne == ProcessSpec => []AssertSparesFirst
<1>1. SocketInv => AssertSparesFirst
  BY DEF SocketInv
<1>. QED  BY <1>1, ProcessInvariant, PTL
=============================================================================
