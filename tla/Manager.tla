------------------------------- MODULE Manager -------------------------------
(***************************************************************************)
(* The manager's path from an acknowledged report to the score table and   *)
(* the database, and the end of main.                                      *)
(*                                                                         *)
(* It composes GrpcServerImpl (GrpcServer) with the connection pool        *)
(* (MysqlPool), whose one borrower is WorkerThread, and adds what the      *)
(* callback HostManager::OnDataReceived does between taking a task and     *)
(* returning: one action per point where another thread, the database or   *)
(* the destructors can come between.  ProcessLoop is reduced to its effect *)
(* on host_scores_: any entry may be erased at any time.                   *)
(***************************************************************************)
EXTENDS Naturals, Sequences, FiniteSets, SequencesExt

CONSTANTS Requests, Hosts, NoName, Name, InfoHostname, MaxHosts, None,
          PoolSize, MaxOutages,
          InfoName,      \* InfoName[r]: host_info's hostname and ip_address, joined if both are there
          Inserts,       \* how many rows WriteToMysql inserts for a report
          MaxRefusals    \* how many INSERTs fail on a live connection, at most

VARIABLES
  call, host_data, lru_list, cached, task_queue, accepted, task, worker_thread,
  delivered, accepting, running,                    \* of GrpcServer
  init, pool, borrower, lost, db, outages,          \* of MysqlPool
  phase,         \* how far main has come
  step,          \* where WorkerThread is in the callback
  inserted,      \* how many inserts of this report it has issued
  host_scores,   \* host_scores_: the report each host's score comes from
  stored,        \* stored[k]: the reports whose k-th row is in the database
  refused,       \* history: <<k, r>> if the k-th INSERT of r failed on a live connection
  undefined,     \* a destroyed object has been used
  overlapped     \* history: hosts of which two calls were in progress at once

Worker == "WorkerThread"

Server == INSTANCE GrpcServer
Pool == INSTANCE MysqlPool WITH Borrowers <- {Worker}

ASSUME ManagerAssumption ==
  /\ Server!GrpcServerAssumption /\ Pool!MysqlPoolAssumption
  /\ InfoName \in [Requests -> Hosts]
  /\ Inserts \in Nat /\ MaxRefusals \in Nat

serverVars == <<call, host_data, lru_list, cached, task_queue, accepted, task,
                worker_thread, delivered, accepting, running>>
poolVars == <<init, pool, borrower, lost, db, outages>>
managerVars == <<step, inserted, host_scores, stored, refused>>
vars == <<serverVars, poolVars, managerVars, phase, undefined, overlapped>>

Init ==
  /\ Server!Init
  /\ Pool!Start
  /\ phase = "starting"
  /\ step = "idle"
  /\ inserted = 0
  /\ host_scores = [h \in Hosts |-> None]
  /\ stored = [k \in 1..Inserts |-> {}]
  /\ refused = {}
  /\ undefined = FALSE
  /\ overlapped = {}

-----------------------------------------------------------------------------
(* main up to server->Wait().  A pool that cannot connect is not given to  *)
(* the HostManager, whose mysql_pool_ stays null.                          *)

StartUp ==
  /\ phase = "starting"
  /\ Pool!Init
  /\ phase' = "serving"
  /\ UNCHANGED <<serverVars, managerVars, undefined, overlapped>>

-----------------------------------------------------------------------------
(* The calls of the workers.                                               *)

Rivals(r) == {q \in Server!InProgress \ {r} : Server!HostName(q) = Server!HostName(r)}

Receive(r) ==
  /\ phase = "serving"
  /\ Server!Receive(r)
  /\ overlapped' = IF Rivals(r) = {} THEN overlapped ELSE overlapped \cup {Server!HostName(r)}
  /\ UNCHANGED <<poolVars, managerVars, phase, undefined>>

Handle(r) ==
  /\ Server!CacheReport(r) \/ Server!QueueReport(r)
  /\ UNCHANGED <<poolVars, managerVars, phase, undefined, overlapped>>

-----------------------------------------------------------------------------
(* WorkerThread in OnDataReceived and WriteToMysql.                        *)

PoolGone == phase \in {"pool_destroyed", "manager_destroyed"}
ManagerGone == phase = "manager_destroyed"

TakeTask ==
  /\ Server!TakeTask
  /\ step' = "received"
  /\ inserted' = 0
  /\ UNCHANGED <<poolVars, host_scores, stored, refused, phase, undefined, overlapped>>

\* The key of the score table.  (A report without a name has a hostname, or the receiver
\* would have refused it, so that "unknown" is nobody's.)
ExtractHostName(r) == IF Name[r] # NoName THEN Name[r] ELSE InfoName[r]

\* Defect for TablesAgree: the entry of a host that already has one is kept.
UpdateScore_Emplace ==
  /\ step = "received" /\ ~ManagerGone
  /\ host_scores' = [host_scores EXCEPT ![ExtractHostName(task)] = IF @ = None THEN task ELSE @]
  /\ \/ Pool!Call(Worker) /\ step' = "acquiring"
     \/ init = "failed" /\ step' = "done" /\ UNCHANGED poolVars
  /\ UNCHANGED <<serverVars, inserted, stored, refused, phase, undefined, overlapped>>

\* Scores the report, replaces the host's entry and, if there is a pool, calls Acquire.
UpdateScore ==
  /\ step = "received" /\ ~ManagerGone
  /\ host_scores' = [host_scores EXCEPT ![ExtractHostName(task)] = task]
  /\ \/ Pool!Call(Worker) /\ step' = "acquiring"
     \/ init = "failed" /\ step' = "done" /\ UNCHANGED poolVars
  /\ UNCHANGED <<serverVars, inserted, stored, refused, phase, undefined, overlapped>>

Acquire ==
  /\ step = "acquiring" /\ ~PoolGone
  /\ \/ Pool!Acquire(Worker) /\ step' = "inserting"
     \/ Pool!AcquireFails(Worker) /\ step' = "done"
  /\ UNCHANGED <<serverVars, inserted, host_scores, stored, refused, phase, undefined, overlapped>>

\* Defect for LostFromTheEnd: each insert connects again by itself.
Insert_Reconnecting ==
  /\ step = "inserting" /\ inserted < Inserts
  /\ inserted' = inserted + 1
  /\ stored' = [stored EXCEPT ![inserted'] = IF db = "up" THEN @ \cup {task} ELSE @]
  /\ UNCHANGED <<serverVars, poolVars, step, host_scores, refused, phase, undefined, overlapped>>

\* The next INSERT.  It fails on a dead connection, and may on a live one: a value that is
\* no literal, a name with a quote, a lock's time-out, a full disk.  What mysql_query
\* returns is ignored.
Insert ==
  /\ step = "inserting" /\ inserted < Inserts
  /\ inserted' = inserted + 1
  /\ \/ borrower[Worker] = "dead" /\ UNCHANGED <<stored, refused>>
     \/ /\ borrower[Worker] = "live"
        /\ stored' = [stored EXCEPT ![inserted'] = @ \cup {task}]
        /\ UNCHANGED refused
     \/ /\ borrower[Worker] = "live" /\ Cardinality(refused) < MaxRefusals
        /\ refused' = refused \cup {<<inserted', task>>}
        /\ UNCHANGED stored
  /\ UNCHANGED <<serverVars, poolVars, step, host_scores, phase, undefined, overlapped>>

Release ==
  /\ step = "inserting" /\ inserted = Inserts /\ ~PoolGone
  /\ Pool!Release(Worker)
  /\ step' = "done"
  /\ UNCHANGED <<serverVars, inserted, host_scores, stored, refused, phase, undefined, overlapped>>

CallbackReturns ==
  /\ step = "done"
  /\ Server!CallbackReturns
  /\ step' = "idle"
  /\ UNCHANGED <<poolVars, inserted, host_scores, stored, refused, phase, undefined, overlapped>>

\* The callback goes on to an object main has destroyed.  It may crash the process, wait
\* for ever on a lock or a condition variable that is gone, or seem to work.
UseAfterDestroy ==
  /\ \/ step = "received" /\ ManagerGone
     \/ step = "acquiring" /\ PoolGone
     \/ step = "inserting" /\ inserted = Inserts /\ PoolGone
  /\ undefined' = TRUE
  /\ step' \in {"crashed", "hung", "done"}
  /\ UNCHANGED <<serverVars, poolVars, inserted, host_scores, stored, refused, phase, overlapped>>

WorkerReturns ==
  /\ Server!WorkerReturns
  /\ UNCHANGED <<poolVars, managerVars, phase, undefined, overlapped>>

-----------------------------------------------------------------------------
(* HostManager::ProcessLoop, its timing left open.                         *)

Expire(h) ==
  /\ ~ManagerGone
  /\ host_scores[h] # None
  /\ host_scores' = [host_scores EXCEPT ![h] = None]
  /\ UNCHANGED <<serverVars, poolVars, step, inserted, stored, refused, phase, undefined, overlapped>>

-----------------------------------------------------------------------------
(* The end of main.  Shutdown makes Wait return once the calls in progress *)
(* are answered; then main's locals are destroyed, the last one first:     *)
(* mysql_pool, mgr, service.                                               *)

Shutdown ==
  /\ phase = "serving"
  /\ Server!Shutdown
  /\ UNCHANGED <<poolVars, managerVars, phase, undefined, overlapped>>

\* ~MysqlPool closes the idle connections.
DestroyPool ==
  /\ phase = "serving" /\ ~accepting /\ Server!InProgress = {}
  /\ phase' = "pool_destroyed"
  /\ pool' = <<>>
  /\ UNCHANGED <<serverVars, init, borrower, lost, db, outages, managerVars, undefined,
                 overlapped>>

\* ~HostManager joins the ProcessLoop thread.
DestroyManager ==
  /\ phase = "pool_destroyed"
  /\ phase' = "manager_destroyed"
  /\ UNCHANGED <<serverVars, poolVars, managerVars, undefined, overlapped>>

DestroyService ==
  /\ ManagerGone
  /\ Server!Destroy
  /\ UNCHANGED <<poolVars, managerVars, phase, undefined, overlapped>>

-----------------------------------------------------------------------------
Database ==
  /\ Pool!DatabaseStops \/ Pool!DatabaseStarts \/ Pool!IdleTimeout
  /\ UNCHANGED <<serverVars, managerVars, phase, undefined, overlapped>>

WorkerThread ==
  \/ TakeTask \/ UpdateScore \/ Acquire \/ Insert \/ Release \/ CallbackReturns
  \/ UseAfterDestroy \/ WorkerReturns

Main == StartUp \/ Shutdown \/ DestroyPool \/ DestroyManager \/ DestroyService

Next ==
  /\ step # "crashed"
  /\ \/ \E r \in Requests : Receive(r) \/ Handle(r)
     \/ WorkerThread
     \/ \E h \in Hosts : Expire(h)
     \/ Main
     \/ Database

\* The handlers and WorkerThread run whenever they can.
Fairness ==
  /\ WF_vars(step # "crashed" /\ \E r \in Requests : Handle(r))
  /\ WF_vars(step # "crashed" /\ WorkerThread)

Spec == Init /\ [][Next]_vars /\ Fairness

-----------------------------------------------------------------------------
(* Properties.                                                             *)

\* The reports of host h that some thread is still at work on.
Underway(h) ==
  {r \in Server!InProgress \cup Range(Server!Hand) \cup Range(task_queue) :
     Server!HostName(r) = h}

\* Some report has host h for its key in one table and another host in the other: a report
\* without a name, which the receiver knows by its hostname and the score table by its
\* hostname and address.
TwoNames(h) ==
  \E r \in Range(accepted) : (Server!HostName(r) = h) # (ExtractHostName(r) = h)

\* The two tables the manager keeps agree: once nothing of a host is underway, the
\* receiver's cache and the score table hold the same report of it, if its calls never
\* overlapped and its reports go by the same name in both.  (If calls overlapped, the two
\* critical sections of SetMonitorInfo may have run in opposite orders, and the tables
\* differ until the host reports again.)
TablesAgree ==
  \A h \in Hosts \ overlapped :
    Underway(h) = {} /\ ~TwoNames(h) /\ ~undefined
      /\ host_data[h] # None /\ host_scores[h] # None
        => host_data[h] = host_scores[h]

Position(log, r) == CHOOSE i \in DOMAIN log : log[i] = r

\* The score of a host never goes back to a report queued before the one it shows.
ScoresMoveForward ==
  [][\A h \in Hosts :
       host_scores[h] # None /\ host_scores'[h] # None =>
         Position(accepted, host_scores[h]) <= Position(accepted, host_scores'[h])]_vars

Refused(k) == {r \in Requests : <<k, r>> \in refused}

\* A connection that is lost costs a report its last rows only: one that has a row has every
\* row before it, but for those whose INSERT failed on a live connection, although no INSERT
\* looks at what became of the one before.
LostFromTheEnd ==
  \A k \in 1..Inserts, j \in 1..Inserts : j < k => stored[k] \subseteq stored[j] \cup Refused(j)

\* The database misses a row of a processed report only if the row's own INSERT failed on a
\* live connection, or the database was down at some time or when the manager started.
StoredUnlessOutage ==
  outages = 0 /\ init = "ok" /\ ~undefined =>
    \A k \in 1..Inserts : Range(delivered) \subseteq stored[k] \cup Refused(k)

Acknowledged == {r \in Requests : call[r] = "ok"}

\* WorkerThread catches up with the acknowledged reports, unless every slot of the pool
\* is lost or an object was used that main had destroyed.  (There are finitely many
\* requests: catching up with all of them is catching up for good.)
CatchesUp ==
  <>[](Range(delivered) = Acknowledged \/ lost = PoolSize \/ undefined)

\* mysql_pool.h:87 says a lost connection is reconnected: once the database is up for
\* good, every acknowledged report is processed.
RecoversAfterOutage ==
  <>[](db = "up" /\ phase = "serving") => []<>(Range(delivered) = Acknowledged)

\* main.cpp:40 announces a graceful exit: no thread uses an object main has destroyed.
NoUseAfterDestroy == ~undefined
=============================================================================
