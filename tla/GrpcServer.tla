----------------------------- MODULE GrpcServer -----------------------------
(***************************************************************************)
(* GrpcServerImpl: the service that receives the workers' reports.         *)
(*                                                                         *)
(* gRPC runs SetMonitorInfo on threads of its own, so any number of calls  *)
(* are in progress at once.  A call caches the report under mtx_ and then, *)
(* in a second critical section under queue_mtx_, queues it; between the   *)
(* two other calls run.  WorkerThread takes the queued reports one by one  *)
(* and runs the registered callback on each.  The destructor clears        *)
(* running_ and joins WorkerThread, which first drains the queue.          *)
(***************************************************************************)
EXTENDS Naturals, Sequences, FiniteSets, SequencesExt

CONSTANTS
  Requests,      \* the SetMonitorInfo calls workers may make
  Hosts,         \* the host names they carry
  NoName,        \* the empty host name
  Name,          \* Name[r]: the name field of request r
  InfoHostname,  \* InfoHostname[r]: its host_info.hostname, NoName without host_info
  MaxHosts,      \* max_hosts_, the capacity of the cache
  None           \* no request

ASSUME GrpcServerAssumption ==
  /\ NoName \notin Hosts
  /\ None \notin Requests
  /\ Name \in [Requests -> Hosts \cup {NoName}]
  /\ InfoHostname \in [Requests -> Hosts \cup {NoName}]
  /\ MaxHosts \in Nat \ {0}

VARIABLES
  call,          \* how far the handler of each request has come
  host_data,     \* the cached report of each host, None if there is no entry
  lru_list,      \* the cached hosts, the latest to report first
  task_queue,    \* task_queue_
  task,          \* the report WorkerThread is processing, None if it has none
  accepting,     \* grpc::Server takes new calls: Shutdown has not been called
  running,       \* running_
  worker_thread, \* "loop", or "exited" once WorkerThread has returned
  cached,        \* history: the reports in the order they were cached
  accepted,      \* history: the reports in the order they were queued
  delivered      \* history: the reports whose callback has returned, in order

cache  == <<host_data, lru_list, cached>>          \* guarded by mtx_
queue  == <<task_queue, accepted>>                 \* guarded by queue_mtx_
worker == <<task, worker_thread, delivered>>       \* WorkerThread's own
server == <<accepting, running>>
vars   == <<call, cache, queue, worker, server>>

-----------------------------------------------------------------------------
\* The key of the cache: request->name(), or the reported hostname if it is empty.
HostName(r) == IF Name[r] # NoName THEN Name[r] ELSE InfoHostname[r]

HostsIn(data) == {h \in Hosts : data[h] # None}

\* A defect to test CacheMatchesLru against: it shortens the list and leaves the map alone.
EvictIfNeeded_ListOnly(data, lru) ==
  [data |-> data, lru |-> SubSeq(lru, 1, IF Len(lru) > MaxHosts THEN MaxHosts ELSE Len(lru))]

\* The map and the list as EvictIfNeeded leaves them: hosts go from the back of the
\* list, and from the map, until the map is small enough or the list is empty.
EvictIfNeeded(data, lru) ==
  LET Popped(k) == {lru[i] : i \in (Len(lru) - k + 1)..Len(lru)}
      Enough(k) == \/ Cardinality(HostsIn(data) \ Popped(k)) <= MaxHosts
                   \/ k = Len(lru)
      pops      == CHOOSE k \in 0..Len(lru) : Enough(k) /\ \A j \in 0..(k - 1) : ~Enough(j)
  IN  [data |-> [h \in Hosts |-> IF h \in Popped(pops) THEN None ELSE data[h]],
       lru  |-> SubSeq(lru, 1, Len(lru) - pops)]

Init ==
  /\ call = [r \in Requests |-> "idle"]
  /\ host_data = [h \in Hosts |-> None]
  /\ lru_list = <<>>
  /\ cached = <<>>
  /\ task_queue = <<>>
  /\ accepted = <<>>
  /\ task = None
  /\ worker_thread = "loop"
  /\ delivered = <<>>
  /\ accepting = TRUE
  /\ running = TRUE

-----------------------------------------------------------------------------
(* Defects the properties are tested against: each stands in for the       *)
(* definition below it is named after.                                     *)

\* The host stays in its old place of the list when it reports again.
CacheReport_KeepsPlace(r) ==
  LET h    == HostName(r)
      lru  == IF Contains(lru_list, h) THEN lru_list ELSE <<h>> \o lru_list
      kept == EvictIfNeeded([host_data EXCEPT ![h] = r], lru)
  IN  /\ call[r] = "received"
      /\ call' = [call EXCEPT ![r] = "cached"]
      /\ host_data' = kept.data
      /\ lru_list' = kept.lru
      /\ cached' = Append(cached, r)
      /\ UNCHANGED <<queue, worker, server>>

\* The latest report is taken first.
TakeTask_Latest ==
  /\ worker_thread = "loop"
  /\ task = None
  /\ task_queue # <<>>
  /\ task' = task_queue[Len(task_queue)]
  /\ task_queue' = SubSeq(task_queue, 1, Len(task_queue) - 1)
  /\ UNCHANGED <<call, cache, accepted, worker_thread, delivered, server>>

\* The callback runs on a wake-up without a task.
CallbackReturns_NoTask ==
  /\ worker_thread = "loop"
  /\ task' = None
  /\ delivered' = Append(delivered, task)
  /\ UNCHANGED <<call, cache, queue, worker_thread, server>>

\* WorkerThread leaves as soon as running_ is cleared.
WorkerReturns_Undrained ==
  /\ worker_thread = "loop"
  /\ task = None
  /\ ~running
  /\ worker_thread' = "exited"
  /\ UNCHANGED <<call, cache, queue, task, delivered, server>>

\* The service is destroyed without waiting for the calls in progress.
Destroy_CallsInProgress ==
  /\ ~accepting
  /\ running
  /\ running' = FALSE
  /\ UNCHANGED <<call, cache, queue, worker, accepting>>

-----------------------------------------------------------------------------
(* SetMonitorInfo, one action per critical section.                        *)

Receive(r) ==
  /\ accepting
  /\ call[r] = "idle"
  /\ call' = [call EXCEPT ![r] = IF HostName(r) = NoName THEN "invalid" ELSE "received"]
  /\ UNCHANGED <<cache, queue, worker, server>>

CacheReport(r) ==
  LET h    == HostName(r)
      kept == EvictIfNeeded([host_data EXCEPT ![h] = r], <<h>> \o RemoveFirst(lru_list, h))
  IN  /\ call[r] = "received"
      /\ call' = [call EXCEPT ![r] = "cached"]
      /\ host_data' = kept.data
      /\ lru_list' = kept.lru
      /\ cached' = Append(cached, r)
      /\ UNCHANGED <<queue, worker, server>>

\* Queues the report, wakes WorkerThread and returns OK.
QueueReport(r) ==
  /\ call[r] = "cached"
  /\ call' = [call EXCEPT ![r] = "ok"]
  /\ task_queue' = Append(task_queue, r)
  /\ accepted' = Append(accepted, r)
  /\ UNCHANGED <<cache, worker, server>>

-----------------------------------------------------------------------------
(* WorkerThread.                                                           *)

TakeTask ==
  /\ worker_thread = "loop"
  /\ task = None
  /\ task_queue # <<>>
  /\ task' = Head(task_queue)
  /\ task_queue' = Tail(task_queue)
  /\ UNCHANGED <<call, cache, accepted, worker_thread, delivered, server>>

\* The callback on the task in hand has returned.
CallbackReturns ==
  /\ task # None
  /\ task' = None
  /\ delivered' = Append(delivered, task)
  /\ UNCHANGED <<call, cache, queue, worker_thread, server>>

WorkerReturns ==
  /\ worker_thread = "loop"
  /\ task = None
  /\ ~running /\ task_queue = <<>>
  /\ worker_thread' = "exited"
  /\ UNCHANGED <<call, cache, queue, task, delivered, server>>

-----------------------------------------------------------------------------
(* The end of the service: grpc::Server::Shutdown refuses new calls and    *)
(* lets those in progress finish, and main destroys the service after the  *)
(* server that calls it.                                                   *)

InProgress == {r \in Requests : call[r] \in {"received", "cached"}}

Shutdown ==
  /\ accepting
  /\ accepting' = FALSE
  /\ UNCHANGED <<call, cache, queue, worker, running>>

\* ~GrpcServerImpl up to the join.
Destroy ==
  /\ ~accepting /\ InProgress = {}
  /\ running
  /\ running' = FALSE
  /\ UNCHANGED <<call, cache, queue, worker, accepting>>

\* The join has returned: nothing is left to happen.
Joined ==
  /\ worker_thread = "exited"
  /\ UNCHANGED vars

Next ==
  \/ \E r \in Requests : Receive(r) \/ CacheReport(r) \/ QueueReport(r)
  \/ TakeTask \/ CallbackReturns \/ WorkerReturns
  \/ Shutdown \/ Destroy
  \/ Joined

\* The threads the scheduler keeps running: the handlers and WorkerThread, with a
\* callback that returns.  Nothing forces a worker to call or main to shut down.
Fairness ==
  /\ \A r \in Requests : WF_vars(CacheReport(r)) /\ WF_vars(QueueReport(r))
  /\ WF_vars(TakeTask) /\ WF_vars(CallbackReturns) /\ WF_vars(WorkerReturns)

Safety == Init /\ [][Next]_vars

Spec == Safety /\ Fairness

-----------------------------------------------------------------------------
(* Properties.                                                             *)

\* The shape of the state of grpc_server.h.
TypeOK ==
  /\ call \in [Requests -> {"idle", "received", "cached", "ok", "invalid"}]
  /\ host_data \in [Hosts -> Requests \cup {None}]
  /\ lru_list \in Seq(Hosts)
  /\ task_queue \in Seq(Requests)
  /\ task \in Requests \cup {None}
  /\ accepting \in BOOLEAN /\ running \in BOOLEAN
  /\ worker_thread \in {"loop", "exited"}
  /\ cached \in Seq(Requests) /\ accepted \in Seq(Requests)
  /\ delivered \in Seq(Requests)

\* Whatever the interleaving of calls, the LRU list names each cached host once and no
\* other host, and never more than max_hosts_ of them: EvictIfNeeded relies on it to
\* free the entries it drops from the list.
CacheMatchesLru ==
  /\ IsInjective(lru_list)
  /\ Range(lru_list) = HostsIn(host_data)
  /\ Len(lru_list) <= MaxHosts

\* The position in "cached" of the latest report of host h, 0 if there is none.
LatestCached(h) ==
  LET at == {i \in DOMAIN cached : HostName(cached[i]) = h}
  IN  IF at = {} THEN 0 ELSE Max(at)

\* The cache holds the hosts that reported last, each with its latest report, in the
\* order of those reports: eviction never drops a host that reported after a host it
\* keeps, however often hosts are dropped and come back.
EvictsLongestSilent ==
  /\ \A h \in HostsIn(host_data) : host_data[h] = cached[LatestCached(h)]
  /\ \A i, j \in DOMAIN lru_list :
        i < j => LatestCached(lru_list[i]) > LatestCached(lru_list[j])
  /\ \A h \in Hosts \ HostsIn(host_data), g \in HostsIn(host_data) :
        LatestCached(h) < LatestCached(g)
  /\ (\E h \in Hosts \ HostsIn(host_data) : LatestCached(h) # 0) => Len(lru_list) = MaxHosts

\* The task WorkerThread has in hand.
Hand == IF task = None THEN <<>> ELSE <<task>>

\* A report answered OK is in exactly one place, the queue, WorkerThread's hand or the
\* processed ones, once, and reports keep their order from one to the next; a report
\* not answered OK is in none.
AcknowledgedOnce ==
  /\ accepted = delivered \o Hand \o task_queue
  /\ IsInjective(accepted)
  /\ Range(accepted) = {r \in Requests : call[r] = "ok"}

\* ~GrpcServerImpl loses nothing: when WorkerThread has returned no call is in progress
\* and the callback has run on every report that was answered OK.
DrainedOnExit ==
  worker_thread = "exited" =>
    /\ InProgress = {}
    /\ Range(delivered) = {r \in Requests : call[r] = "ok"}

\* The service keeps ReportDelivery's promise, its liveness included: a report once
\* accepted is processed, whatever the other calls do.
Delivery == INSTANCE ReportDelivery
              WITH handed <- Len(delivered), finished <- (worker_thread = "exited")

DeliverySpec == Delivery!Spec
DeliverySafety == Delivery!Safety
=============================================================================
