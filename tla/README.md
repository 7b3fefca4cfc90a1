# A TLA+ verification of perf_monitor

perf_monitor watches Linux hosts.  A *worker* on each host collects metrics and pushes
them over gRPC to the *manager*, which caches them, scores the host, writes them to MySQL
and serves them over gRPC queries and an HTTP API to a Qt *dashboard*.  This directory holds
TLA+ modules translated from the source, the TLC configurations that check them on small
instances, and proofs of the main results for instances of any size.

    tlc -config grpc_server.cfg MCGrpcServer.tla        # one of the runs below
    tlapm GrpcServer_proofs.tla                         # a module of proofs

`PROJECT.json` maps every definition to the lines it models, lists the runs with their
properties, a defect for every property that makes its run fail, the disagreements found
between code and documents, the hazards of the code, and the theorems.

## 1. The system

### Components, their state and their operations

| Component | Source | State | Operations | Threads |
|---|---|---|---|---|
| Report receiver `GrpcServerImpl` | `manager/src/rpc/grpc_server.cpp`, `.h` | `host_data_` and `lru_list_` under `mtx_`; `task_queue_` under `queue_mtx_`; `callback_`; `running_` | `SetMonitorInfo`, `WorkerThread`, `EvictIfNeeded`, constructor, destructor; read-only getters | gRPC's handler threads, `WorkerThread` |
| Processing core `HostManager` | `manager/src/host_manager.cpp`, `.h` | `host_scores_` under `mtx_`; static maps of last samples under `static_mtx_`; `running_` | `OnDataReceived`, `WriteToMysql`, `CalcScore`, `ComputeRates`, `ProcessLoop`, `Start`, `Stop`, `GetAllHostScores`, `GetBestHost` | `WorkerThread` (the callback), `ProcessLoop`'s thread, HTTP threads |
| Connection pool `MysqlPool` | `manager/include/mysql_pool.h` | `pool_` under `mtx_`, `cv_` | `Init`, `Acquire`, `Release`, destructor | `WorkerThread` |
| Manager's `main` | `manager/src/main.cpp` | its locals; `g_grpc_server`, `g_http_server` | start-up, `SignalHandler`, shutdown, `/api/latest` | main, `http_thread`, whatever thread a signal reaches |
| HTTP server (vendored) | `manager/include/httplib.h` | `svr_sock_`, `is_running_`, its task queue | `bind_to_port`, `listen`, `stop` | `http_thread`, connection threads |
| Query engine and service | `manager/src/query_manager.cpp`, `manager/src/rpc/query_service.cpp` | one MySQL connection under a mutex | nine paged or aggregated queries | gRPC's handler threads |
| Worker `main`, `MonitorPusher` | `worker/src/main.cpp`, `worker/src/rpc/monitor_pusher.cpp` | `running`; `running_`, the thread | `SignalHandler`, `Start`, `Stop`, `PushLoop`, `PushOnce` | main, the pushing thread |
| Collector and monitors | `worker/src/monitor/*.cpp` | the last sample of each counter | `CollectAll`, `UpdateOnce` of each | the pushing thread |
| Kernel modules | `worker/src/kmod/*.c` | a page shared with the worker | a delayed work, once a second; `mmap` | a kernel worker |
| eBPF programs | `worker/src/ebpf/net_stats.bpf.c` | `net_stats_map` | `tc_ingress`, `tc_egress` | every CPU |
| Dashboard | `monitor_UI/mainwindow.cpp` | `latestArray`, `historyMap`, `currentHost`, `hostPage`, previous values | timer, replies, selection, pages, range | Qt's event loop |

### How they interact

    worker main --Start/Stop--> PushLoop --SetMonitorInfo (gRPC, no deadline)--> handler threads
    handler --mtx_--> host_data_, lru_list_      (cache, evicted at max_hosts_)
    handler --queue_mtx_--> task_queue_ --WorkerThread--> HostManager::OnDataReceived
    OnDataReceived --mtx_--> host_scores_ ;  --Acquire/Release--> MysqlPool --> MySQL
    ProcessLoop --mtx_--> host_scores_           (erases entries that are too old)
    dashboard --HTTP /api/latest--> copy of host_scores_ ;  queries --> QueryManager --> MySQL
    signal --> SignalHandler --> httplib::Server::stop, grpc::Server::Shutdown --> main goes on

### What is hard, and what makes each part correct

* **Receiver.**  Calls interleave between the two critical sections of `SetMonitorInfo`; two
  structures (map, list) must agree at the limit `max_hosts_`; the destructor runs while
  reports are queued.  Correct: cache and list name the same hosts; the longest silent host
  is evicted; every acknowledged report is processed once, in order, before the destructor
  returns, and eventually.
* **Pool.**  Connections die while idle or lent, and reconnecting fails.  Correct: slots are
  conserved, no dead connection is handed out, a thread does not wait without end for a
  database that is up.
* **Processing core.**  It depends on the order of reports, ignores the results of its
  inserts, names hosts otherwise than the receiver does, and is destroyed by another thread.
  Correct: the score table and the cache agree, scores never go back, a lost connection costs
  a report its last rows only, nothing is used after it was destroyed.
* **Sweep.**  Its period is as long as the age it looks for, and it is stopped at any time.
  Correct: the living stay listed, the silent go in bounded time, `Stop` returns.
* **Manager's shutdown.**  The handlers of two signals, which may overlap, main and
  `http_thread` share the HTTP server.  Correct: main returns, nothing outlives it, no assert
  fails.
* **Worker.**  Calls take time and fail, reports wait in the manager's queue before they are
  time-stamped, the signal comes at any point of two nested sleeps.  Correct: a live worker
  stays listed, a signalled one returns in bounded time.
* **Traffic counters.**  Every CPU updates them, several may create an entry at once, which
  moves it in its bucket, and the monitor walks the buckets meanwhile.  Correct: no packet is
  reported twice, each is counted once as soon as the entry exists for every CPU, and all
  differences of a round cover the same time, but for buckets whose entries changed places.
* **Rows and samples.**  A report is compared with samples kept in static maps, which are
  replaced at three points of the callback, those of the detail tables only for what the report
  lists; any of the inserts may fail, and the process may restart between two of them.
  Correct: the rates stored for one report agree on what they are compared with.
* **Queries.**  A page is two statements, a walk many, and rows are inserted between any two of
  them; time stamps have whole seconds of a local time that is read as standard time.  Correct: a walk misses no row that was there when it
  began and repeats no more than were inserted; the queries and `/api/latest` agree on who is
  online.
* **Dashboard.**  Requests leave on a timer and answers overtake each other, list the hosts in
  any order, or are empty, while the user selects and turns pages.  Correct: all views show
  one answer, the choice survives, and the views come to show what the manager knows.
* **CPU page.**  The kernel module rewrites it while it is read, three times for each CPU; its
  idle times start again every 71.6 minutes, the totals are subtracted as floats, the module
  may come and go, and `/proc/stat` stands in with other units.  Correct: nothing is negative,
  the shares make up the time but for what the floats lose, no time is reported twice.

## 2. The modules

| Module | Models | Built on |
|---|---|---|
| `ReportDelivery` | the abstract promise: accept, hand over in order, finish | |
| `GrpcServer`, `MCGrpcServer` | the receiver | `ReportDelivery` (implements it) |
| `GrpcServer_proofs` | theorems about the receiver | `GrpcServer` |
| `MysqlPool` | the pool and the database it connects to | |
| `MysqlPool_proofs` | theorems about the pool | `MysqlPool` |
| `Manager`, `MCManager` | a report's way through receiver, score table and database; main's destructors | `GrpcServer`, `MysqlPool` |
| `Manager_proofs` | theorems about receiver, pool, score table, cache and rows together, and about how the process ends | `Manager`, `GrpcServer_proofs`, `MysqlPool_proofs`, `Lifecycle` |
| `Lifecycle` | main, signal handler and HTTP server | |
| `HostScores` | the score table and the sweep in time | |
| `HostScores_proofs` | theorems about the sweep | `HostScores` |
| `MonitorPusher` | worker main and push loop in time | |
| `NetStats`, `MCNetStats` | the eBPF counters and `NetEbpfMonitor` | |
| `NetStats_proofs` | theorems about the counters of the traffic and of the CPUs | `NetStats`, `CpuSampling` |
| `Heartbeat` | a worker and the manager's table in common time | `HostScores`, `MonitorPusher` |
| `Heartbeat_proofs` | theorems about a worker on the list | `Heartbeat`, `HostScores_proofs` |
| `ReportRows` | the rows a report leaves and the samples it is compared with; sweep and restart | |
| `QueryManager`, `MCQueryManager` | the paged queries and their service beside `WorkerThread` | `ReportRows` |
| `QueryManager_proofs` | theorems about rows, rates, who is online, and walks through pages | `QueryManager` |
| `Dashboard` | the Qt dashboard before `/api/latest` | |
| `Dashboard_proofs` | theorems about its views | `Dashboard` |
| `CpuSampling`, `MCCpuSampling` | `CpuStatMonitor` and the kernel module whose page it reads | |

### Correspondence of state and actions

**GrpcServer.**  `host_data`, `lru_list`, `task_queue`, `running` are the members of the same
names; a report is the request that carries it.  `call[r]` is the position of the handler of
request `r`, `task` and `worker_thread` that of `WorkerThread`, `accepting` whether
`grpc::Server::Shutdown` has been called.  `Receive` is `SetMonitorInfo` up to the first lock
(with the early return for a nameless report), `CacheReport` the section under `mtx_` with
`EvictIfNeeded`, `QueueReport` the section under `queue_mtx_` and the return.  `TakeTask`,
`CallbackReturns`, `WorkerReturns` are `WorkerThread`; the condition variable is the guard
(`notify_one` follows every change of the condition, so no wake-up is lost).  `Destroy` is the
destructor, which main reaches only after `Wait` has seen the calls end.  `cached`,
`accepted`, `delivered` are history variables.

**MysqlPool.**  `pool` is `pool_` with each connection reduced to "live" or "dead";
`borrower[b]` is what a thread is doing with the pool.  `Acquire` and `AcquireFails` are the
two outcomes of `Acquire` from the moment the wait ends (it holds the mutex through the ping
and both attempts to reconnect); `Release` is `Release`; the three actions of the database
are external.

**Manager.**  `step` is `WorkerThread`'s position in the callback: `UpdateScore` is
`OnDataReceived` up to the pool (with the early return of `WriteToMysql` when there is none),
`Acquire` and `Release` the pool's, `Insert` one `mysql_query`, whose failure is ignored as in
the code: it fails on a dead connection, and on a live one it may be refused (`refused`, at most
`MaxRefusals`).  `Inserts` counts the kinds of rows; two are enough to see one fail after
another succeeded.  The receiver's tables are keyed by `HostName`, the score table by
`ExtractHostName`: a report without a name goes by its hostname in the first and by hostname
and address in the second.  `phase` follows main: `StartUp`, then the destruction of `mysql_pool`, `mgr` and
`service` in the reverse order of their declaration.  `UseAfterDestroy` is undefined
behaviour: the callback reaches a destroyed object and crashes, hangs or seems to work.
`Expire` abstracts the sweep to "an entry may go at any time".

**Lifecycle.**  `main`, `handler[s]`, `http` are the positions of main, of the handler of each
signal and of `http_thread`; `svr_sock` and `is_running` are httplib's.  `stop` is two steps,
its test with the assert and the `exchange`, because another caller may come between.  A
handler tests each pointer in one step and uses it in another; once its `Shutdown` has taken
effect main may go on while the handler is still inside the call (`HandlerShutsDown`,
`HandlerReturns`).  Main clears the two pointers one after the other (`WaitReturns`,
`ClearGrpc`), and a handler that goes on to a server after main has returned has strayed
(`HandlerStrays`).  The accept loop ends on a closed socket (`LeaveLoop`) or because `accept`
failed otherwise (`AcceptFails`).  `late` is history: the signals that came once both pointers
were cleared.

**HostScores, MonitorPusher, Heartbeat.**  Time is in seconds.  An entry's age stands for its
time stamp, so that no clock grows.  `Tick` lets a second pass when no thread is due; a thread
that wakes up acts before the next `Tick`.  `Score` takes the time stamp, `UpdateEntry` enters
it up to `Lag` seconds later.  In `Heartbeat` a report travels from `Push` to `Receive`, which
puts it in the queue `waiting`, to `Stamp`, which is `WorkerThread` taking it and
`OnDataReceived` stamping it, to `UpdateEntry`; how long each report has waited is kept with
it.  `EndCall` may fail before or after the report was received (a lost request or a lost
answer).

**NetStats.**  `LookUp`, then `Add` or `Create`, are `update_stats` on one CPU.  The hash map is
the kernel's and modelled from outside: an entry points to an element, `bpf_map_update_elem`
on an existing entry writes the CPU's spare element, links it, and keeps the old one as spare;
a pointer another CPU has looked up stays what it was.  So an add may reach an element that is
no longer an entry, or is another interface's by now.  `BeginRound`, `Visit`, `EndRound` are
`UpdateOnce`: `bpf_map_get_next_key` and the copy of the entry are one step, because an entry
is never deleted.  Keys are handed out bucket by bucket (`Bucket`) and within a bucket from the
head of its chain (`behind`): `bpf_map_update_elem` with `BPF_ANY` links the new element at the
head, also when it replaces one, so that the key of a moved entry may be skipped in this round
or handed out again, and so may its neighbours'.  `again` holds the keys a round has handed out
twice, `relinked` the buckets in which an entry was replaced during it.

**ReportRows.**  A report is known by its number in the order of processing (`id`), a rate in a
row by the report it was compared with: `base` for the rates `OnDataReceived` computes,
`util_base` for the disk rates of the main row, `base` of a detail row.  `last_perf_samples`,
`last_disk_util` and `last_net_samples` are the static maps, the last with a sample for each
host and item, which only a report that lists the item replaces.  `OnDataReceived`,
`NoConnection`, `InsertMain`, `InsertDetail` for each item the report lists, and `Release` are
the callback from one of their replacements to the next.  Each INSERT stores its row or not
(`AddRow`), whatever became of the others.  Of the four detail tables, which are written alike,
one stands for all; `Items` are what it has rows of.  Of a report's content the model keeps how
many of `QueryAnomaly`'s conditions it meets in the statement (`load`), how many records the
loop makes of it (`records`) and what it lists (`items`).  `RestartRows` keeps the tables and
nothing else.

A time that is written down is known by the moment at which the clocks show it in standard
time: `FormatTime(t) == t + Shift[t]`, with `Shift` 3600 in summer and 0 in winter.  So
`ParseTime`, which reads with `tm_isdst` 0, gives that moment, and rows written in summer look
an hour younger; where the clocks are set back the order of the rows is not that of time.

**QueryManager.**  `conn` is `conn_`: null when `Init` failed, dead once lost, for nothing opens
it again.  `walk` is one client asking for page after page; `Ask` is the service's checks and
defaults, `Count` and `Select` the two statements, between which `WorkerThread` may run.  One
client is enough: `mtx_` lets one query run at a time, and queries change nothing.  `Pages` is
ORDER BY, LIMIT and OFFSET as a set of possible pages, because rows with equal keys come in any
order, another one for each statement.  `Records` is how many records the client gets of a
page; for `QueryAnomaly` a row may give none, because the loop tests the thresholds again in
`float`.  `Matching` is the WHERE clause, which compares written times (`InRange`), `LatestRows` the join
that finds each server's newest rows, and `Status` the test that calls a server online.

**Dashboard.**  A slot is a request under way; `Serve` is the manager's handler, whose array has
the order of an `unordered_map`, any order.  `OnReplyFinished` is the whole slot: history,
selector, table, then cards and charts, in the code's order.  `shown` is the element behind the
cards, and so also the previous values behind the trend badges.  `enabled` is which page
buttons the last call left clickable.  A double click on a row of the table is `OnHostSelected`.

**CpuSampling.**  `WriteField` is one store of `update_cpu_stats`, `ReadBusy` followed by
`ReadTotal`, `ReadParts` or `ReadCopy` one of the three times an entry is read: for the time
that passed, for the shares, for the copy.  The compiler may reuse a value it has read or read
it again, so that each read gives what is there or what was read last (`MayRead`).  "busy"
stands for the fields before idle, which the module converts from nanoseconds, "idle" for idle
and iowait, whose 64 bits of microseconds pass through the 32 of `usecs_to_jiffies`.  The model
keeps whole values on the page and takes the idle time modulo `Wrap` wherever the code computes
with it (`Stored`), so that the properties can compare what is reported with what passed;
`/proc/stat` does not wrap.  `Float` is the conversion of a total to `float`: any rounding that
keeps the order and is off by no more than one in `Precision` (2^24 in the code).  `TimePassed`
is the code's test of the difference of two floats.  The code's differences of shares are
unsigned; a negative share in the model is a huge one in the code.  `source` is the load of the module a sample came from, 0
for `/proc/stat`, which the kernel writes at once and in clock ticks (`Ratio`).

## 3. The runs

| Run | Instance | Shows |
|---|---|---|
| `grpc_server` | 5 calls, 3 hosts, cache of 2 | `CacheMatchesLru`, `EvictsLongestSilent`, `AcknowledgedOnce`, `DrainedOnExit`; refinement of `ReportDelivery` with its liveness |
| `mysql_pool` | 3 slots, 2 threads, 3 outages | `SlotsAccounted`, `HandsOutLive` |
| `manager` | 3 reports of a host, 1 of them nameless and so scored under another key, cache of 1, 1 slot, 1 outage, 2 inserts, 1 refused | `TablesAgree`, `LostFromTheEnd`, `StoredUnlessOutage`, `ScoresMoveForward`, `CatchesUp` |
| `lifecycle` | 2 signals, 2 HTTP connections | `NothingOutlivesMain`, `StrayNeedsOverlap`, `AssertSparesFirst`, `StopsWhenRunning` |
| `host_scores` | 2 hosts, age 3, period 3, lag 1 | `ListsTheLivingOnly`, `StopsWithinASecond`, `StopReturns` |
| `heartbeat` | 1 worker, age 8, period 2, interval 2, main's sleep 2, calls of 1, 1 failure in a row, waits of 1, a queue of 2 | `StaysListed`, `WorkerReturnsInTime`, `WorkerReturns` |
| `net_stats` | 3 CPUs, 3 interfaces, 2 of them in one bucket, 2 entries, 5 packets | `NeverOverstates`, `SharesOneInterval`, `ExactOnceSettled` |
| `query` | 2 hosts, 3 reports, 1 item, clocks set forward and back, 1 row or connection refused, 1 restart, pages of 2 | `RatesAgree`, `OnlineIsListed`, `WalkMissesNothing`, `WalkRepeatsOnlyShifted` |
| `dashboard` | 2 hosts, 3 reports, 2 requests at once, 1 failure, pages of 1, history of 2 | `ViewsAgree`, `ChoiceKept`, `Converges` |
| `cpu_sampling` | 1 CPU, 5 jiffies, idle times that start again after 3, floats of one bit, 2 loads of the module, 4 samples | `NoneNegative`, `PartsAddUp`, `NothingTwice` |
| `manager_outage` | 2 reports, 1 slot, 1 outage | violated: `RecoversAfterOutage` |
| `manager_teardown` | 2 reports, 1 slot | violated: `NoUseAfterDestroy` |

**Why the bounds are enough.**  Five calls on a cache of two make every case of the LRU list
happen: a host that reports again from the front, the middle and the back, two evictions, a
host that comes back after its eviction, a nameless call; two calls of one host overlap.  The
proofs remove these bounds.  Three slots and three outages let every slot be lost, one by one
and interleaved with loans; nothing in the pool depends on a larger number.  In `manager` three
reports give one in the callback, one queued and one between its critical sections, two of
them with a name and one without, so that the host goes by one key in the cache and by two in
the score table; the cache of one evicts.  One slot is enough there, since only `WorkerThread`
takes from the pool.  One refused INSERT, before or after another one and beside an outage, is
what a torn report needs.  `lifecycle` has two signals, whose handlers may both run beside
main; a third adds no pair.  In `net_stats` five packets on three CPUs are the fewest with
which an add reaches an element that has become another interface's, and the third interface
finds the map full; two interfaces in one bucket change places, the third has a bucket of its
own, and which two find room is open.  CPUs and directions are symmetric.  In
`query` three reports over three seconds give a server with two rows, in the same second or
not, a row inserted between any two statements of a walk, and a walk of two pages; the page size
asked for is the missing one, so that the default applies; the first report meets two of
`QueryAnomaly`'s conditions, which makes a page of fewer rows than records, and the second may
give none although it meets one.  The clocks show 1, 3, 2 at the three seconds: they are set
forward and back, and a row written in summer outlives its entry.  The second report may leave
out the interface the others list.  One restart, after the first report, and one lost row are
where the samples and the tables part.  In `dashboard`
two hosts on pages of one give a last page that vanishes; two slots let an answer overtake
another; three reports do not fit a history of two.  `cpu_sampling` has one CPU because entries
are written and read without regard to each other; two loads and four samples give two samples
of each load and samples from `/proc/stat` before, between and after.  The monitor samples every
five seconds and the module writes every second: between two samples the page has been written
whole at least once, which `updates` enforces; how long reading and writing take is left open.
With five jiffies, an idle time that starts again after three and floats of one bit, an entry
starts again between samples and between the readings of one, and totals are rounded both ways.
The times of
`host_scores` and `heartbeat` keep the code's order relations (sweep period at least one second,
age no smaller than the lag, room for `MaxFailures` failing calls and a wait of `MaxDelay`) in
small numbers; the code has age 60, period 60, interval 5, sleep 10.  `MaxDelay` is not a bound
of the model: reports may wait longer, and `StaysListed` says what holds while they do not.  `MaxSilence`, `MaxFailures`, `MaxOutages`, `MaxPackets`,
`MaxQueue`, `MaxConnections`, `MaxTime`, `MaxReports`, `MaxRefusals`, `LastRestart`, `MaxLoads`, `MaxRounds`
and the number of `Slots` are the only caps; the first stops counting where no property looks
further.

**Fairness.**  A handler thread, `WorkerThread`, the pushing thread, `ProcessLoop` and main run
when they can (weak fairness on each thread): they block on nothing but the locks and queues
the models contain.  In `GrpcServer` the callback is assumed to return; `Manager` drops that
assumption and shows when it is wrong.  Workers, signals and the database owe nothing: no
fairness on `Receive` (in `GrpcServer`), `Shutdown`, `DatabaseStarts`.  In `Lifecycle` a
connection closes in the end because `keep_alive` gives up.  In `Heartbeat` a call ends within
`MaxCall`; the code sets no deadline, so this is an assumption on the network, and without it
the worker does not return.  There `WorkerThread` is fair as well (`Stamp`), which matters only
to the cap `MaxQueue`: the code's queue takes a report at any length.
In `Dashboard` the timer fires every three seconds and a request
that does not fail is answered; at most `MaxFailures` fail, without which nothing would ever be
shown.  Nothing is assumed of reports and users: `Converges` speaks of the time after the last
report, whatever the user clicks.

**The two violations** are disagreements between code and documents:

* `manager_outage`: a slot whose reconnection failed is never returned to the pool
  (`mysql_pool.h:110`).  After as many failures as there are slots `Acquire` waits for ever,
  although the database is back; the queue then grows and shutdown hangs in the join.
* `manager_teardown`: `service` is declared first and destroyed last, so its thread runs the
  callback on the destroyed `mysql_pool` and `mgr` (`main.cpp:55`-`61`).

Other runs pass because their property says what remains true of a claim.

* `lifecycle`: a handler and main, or two handlers, stop the HTTP server; the later call may
  find `is_running_` still set and the socket gone, and the assert at `httplib.h:11617` then
  ends the process.  `AssertSparesFirst` shows that the first call is spared.
* `lifecycle`: a handler that has tested the pointers may go on to a server main has destroyed
  (`main.cpp:264`).  `StrayNeedsOverlap` shows that this takes two signals whose handlers
  overlap: one alone does no such harm, nor does one that comes after main cleared the pointers.
* `query`: a server whose newest two reports fall in one second is listed and counted twice by
  what is documented as the latest of each server; the walk properties exempt such rows
  (`Tied`), and `OnlineIsListed` holds of both.
* `query`: a server that fell silent in summer time is ONLINE for an hour longer than the
  60 seconds of the code's comment, long after the sweep has dropped it (`query_manager.cpp:92`).
  `OnlineIsListed` excepts stale rows written in summer time and nothing else of this run.
* `cpu_sampling`: idle time, truncated to 32 bits of microseconds (`cpu_stat_collector.c:73`),
  starts again every 71.6 minutes; a difference across that point has no positive total and is
  not reported, unless the entry was rewritten between the readings for the total and for the
  shares: then a huge idle share is.  `Sound` exempts that case, and gaps as long as `Wrap`.
* `cpu_sampling`: the totals are floats (`cpu_stat_monitor.cpp:30`) and lose jiffies from 2^24
  on, 46 hours of one CPU at 100 Hz.  `PartsAddUp` holds up to what they lose (`lost`).

`net_stats` passes and still contradicts a comment: `net_stats.bpf.c:54` calls the counters safe
on several CPUs because their adds are atomic.  The creation of an entry is not; packets of
the first moments may be lost or counted for another interface.  `ExactOnceSettled` says from
when on the comment is right.

Disagreements met in mapping, which no run shows because the models leave out the values they
concern: rates are in B/s with eBPF and in kB/s everywhere else; no fallback to `/proc/net/dev`
exists when loading fails; the changes of the sending and receiving rates are stored in each
other's columns (`host_manager.cpp:565`); an empty `server_name` finds nothing in
`QueryPerformance`, although the interface says it means all servers; the query service that
"will not be available" is registered all the same and answers with empty lists; "Data saved" is
printed also when nothing was; a change of host in the dashboard does not clear the history;
after an empty answer the dashboard goes on showing hosts and forgets the user's choice; and the
`/proc/softirqs` fallback never clears its words between lines and so reports nothing.

More behaviours of the models contradict no document and have no run of their own.  A
signal between the launch of `http_thread` and `is_running_ = true` stops nothing, and main then
joins a thread that listens for ever: for this reason `StopsWhenRunning` starts from a running
server.  A report that waits in the queue is stamped late: a live worker may be dropped
meanwhile, and a silent one stays listed until the queue is empty; `StaysListed` therefore has
the condition `InTime`.  After a restart the rows of the last run call servers online that the
new score table does not list yet; `OnlineIsListed` speaks of rows of this run.  A row close to
an anomaly threshold is counted and fills its page but may give no record, and a client that
takes a page without records for the last one stops too early; the walk properties exempt it
(`Silent`).  While an entry is created again a round may miss its interface or list it twice;
`SharesOneInterval` exempts the buckets this happened in.  An entry may stay listed for `StaleAge + SweepPeriod`, twice the
60 seconds the code's README names as the offline threshold.  And when the kernel module comes
or goes, a sample of the page is compared with one of `/proc/stat`, whose unit and idle time
differ, or with one of an earlier load, or with a page that was still being written for the
first time: a share can then be negative, which the code stores as a huge percentage.  The
three properties of `CpuSampling` therefore speak of samples of one source.

## 4. The proofs

| Theorem | States |
|---|---|
| `GrpcServer_proofs!TypeCorrect` | `Spec => []TypeOK` |
| `GrpcServer_proofs!CacheCorrect` | `Spec => []CacheMatchesLru` |
| `GrpcServer_proofs!QueueCorrect` | `Spec => []AcknowledgedOnce` |
| `GrpcServer_proofs!EvictionCorrect` | `Spec => []EvictsLongestSilent` |
| `GrpcServer_proofs!DestructorDrains` | `Spec => []DrainedOnExit` |
| `GrpcServer_proofs!KeepsPromise` | `Spec => DeliverySafety`, the safety part of `ReportDelivery` |
| `MysqlPool_proofs!TypeCorrect` | `Spec => []TypeOK` |
| `MysqlPool_proofs!NoSlotUnaccounted` | `Spec => []SlotsAccounted` |
| `MysqlPool_proofs!AcquireChecks` | `Spec => HandsOutLive` |
| `NetStats_proofs!TypeCorrect` | `Spec => []TypeOK` |
| `NetStats_proofs!CountsExactly` | `Spec => ExactOnceSettled` |
| `NetStats_proofs!OneIntervalForAll` | `Spec => []SharesOneInterval` |
| `NetStats_proofs!NeverMoreThanCame` | `Spec => []NeverOverstates` |
| `NetStats_proofs!SharesNotNegative` | `CpuSpec => []NoneNegative` |
| `NetStats_proofs!SharesAddUp` | `CpuSpec => []PartsAddUp` |
| `NetStats_proofs!NoTimeTwice` | `CpuSpec => []NothingTwice` |
| `HostScores_proofs!TypeCorrect` | `Spec => []TypeOK` |
| `HostScores_proofs!SweepCorrect` | `Spec => []ListsTheLivingOnly` |
| `HostScores_proofs!AnswersStop` | `Spec => []StopsWithinASecond` |
| `QueryManager_proofs!RowsTypeCorrect` | `Spec => []RowsTypeOK` |
| `QueryManager_proofs!OnlineCorrect` | `Spec => []OnlineIsListed` |
| `QueryManager_proofs!RatesCorrect` | `Spec => []RatesAgree` |
| `QueryManager_proofs!WalkComplete` | `Spec => []WalkMissesNothing` |
| `QueryManager_proofs!WalkExact` | `Spec => []WalkRepeatsOnlyShifted` |
| `Dashboard_proofs!TypeCorrect` | `Spec => []TypeOK` |
| `Dashboard_proofs!ViewsCorrect` | `Spec => []ViewsAgree` |
| `Dashboard_proofs!ChoiceCorrect` | `Spec => ChoiceKept` |
| `Heartbeat_proofs!NeverDropped` | `Spec => []StaysListed` |
| `Heartbeat_proofs!ReturnsInTime` | `Spec => []WorkerReturnsInTime` |
| `Heartbeat_proofs!RunsSweep` | `Spec => Sweeping!Init /\ [][Sweeping!Next]_(Sweeping!vars)`: `Heartbeat`'s steps are steps of `HostScores` |
| `Heartbeat_proofs!RunsPusher` | `Spec => Pusher!Init /\ [][Pusher!Next]_pusherVars`: and of `MonitorPusher` |
| `Heartbeat_proofs!SilentDropped` | `Spec => []Sweeping!ListsTheLivingOnly` |
| `Manager_proofs!RunsService` | `Spec => Service!Safety`: the manager's steps are steps of `GrpcServer` |
| `Manager_proofs!DeliversInOrder` | `Spec => Service!DeliverySafety`: `ReportDelivery`'s promise, kept by the whole manager |
| `Manager_proofs!DrainedAtTheEnd` | `Spec => []Service!DrainedOnExit` |
| `Manager_proofs!RunsPool` | `Spec => Lending!Start /\ [][DestroyPool \/ Lending!Next]_(Lending!vars)`: and of `MysqlPool` |
| `Manager_proofs!SlotsInUse` | `Spec => [](~PoolGone => Lending!SlotsAccounted)` |
| `Manager_proofs!WaitsOnlyWhenSpent` | `Spec => [](step = "acquiring" /\ pool = <<>> /\ ~PoolGone => lost = PoolSize)` |
| `Manager_proofs!WriterGetsLive` | `Spec => Lending!HandsOutLive` |
| `Manager_proofs!HarmlessWhenDrained` | `Spec => [](Quiet /\ ~undefined => []~undefined)` |
| `Manager_proofs!RowsInOrder` | `Spec => []LostFromTheEnd` |
| `Manager_proofs!RowsComplete` | `Spec => []StoredUnlessOutage` |
| `Manager_proofs!OneViewOfAHost` | `Spec => []TablesAgree` |
| `Manager_proofs!ScoresFollowQueue` | `Spec => ScoresMoveForward` |
| `Manager_proofs!NothingLeft` | `ProcessSpec => []NothingOutlivesMain` |
| `Manager_proofs!StraysOverlap` | `ProcessSpec => []StrayNeedsOverlap` |
| `Manager_proofs!AssertSparesOne` | `ProcessSpec => []AssertSparesFirst` |

They hold for every value of the constants that satisfies the module's assumption
(`GrpcServerAssumption`, `MysqlPoolAssumption`, `HostScoresAssumption`, `NetStatsAssumption`,
`ReportRowsAssumption`, `QueryManagerAssumption`, `DashboardAssumption`, `HeartbeatAssumption`,
`ManagerAssumption`, `CpuSamplingAssumption`, `FloatAssumption`, `LifecycleAssumption`), which TLC
evaluates in the runs.  `NetStats_proofs` and `Manager_proofs` extend two components each, so that the
specifications of `CpuSampling` and `Lifecycle` have names of their own (`CpuSpec`,
`ProcessSpec`).  `Service`, `Lending` and `Sweeping` are `GrpcServer`, `MysqlPool` and
`HostScores` with their theorems, taken as instances.

**Receiver.**  `TypeInv` adds to `TypeOK` that every call past the first check has a host name
(`Named`): without it a report could be cached under the empty name.  The cache is a matter of
one critical section: `EvictIfNeededProperties` shows that popping from a list without
repetitions that names exactly the map's hosts leaves such a list, of length at most
`MaxHosts`; `CHOOSE` of the least number of pops is discharged by `LeastExists`.
`RemoveFirstProperties` and `PrependNewProperties` cover the move to the front.  The queue
needs `QueueInv == TypeInv /\ AcknowledgedOnce /\ Drained`: that the accepted reports are the
processed ones, the one in hand and the queue, in this order, is preserved by each of the three
moves, and `Drained` (a destroyed service has no call in progress, an ended thread nothing
queued) is what makes the destructor's promise inductive.  `KeepsPromise` maps `handed` to
`Len(delivered)` and each step to `Accept`, `HandOver`, `Finish` or a stutter.

The order of eviction is `EvictInv == TypeInv /\ CacheMatchesLru /\ HostsReported /\
EvictsLongestSilent`: the list is in the order of the hosts' last calls, and `HostsReported`
says that whoever is on it has such a call.  A report goes to the front and leaves the others in
their order, so that what is cut off at the back reported first.

**Pool.**  `IInv == TypeOK /\ Unused /\ SlotsAccounted`, where `Unused` says that before `Init`
succeeds the pool is empty and nobody holds a connection.  `HoldersChange` computes the
cardinality of the holders after one thread's state changed.

**Sweep.**  `IInv == TypeOK /\ ThreadInv /\ \A h : EntryInv(h)`.  An entry is as old as its
host's silence; how old it may get follows from the count of the sleeps: the sweep leaves
nothing older than `StaleAge` and starts the count again, and from then on age and count grow
together, so that a running thread never sees an entry older than `StaleAge + slept`.
`ThreadInv` says which position of the thread goes with which second of `Stop`; a sleeping
thread has less than a second left, which is what makes `StopsWithinASecond` inductive.

**Counters.**  `IInv == KernelTypeOK /\ Distinct`: no element is the entry of two interfaces, the
spare of two CPUs, or both.  This is why whoever still creates an entry cannot reach a settled
one.  `PendingChange` keeps the balance of packets between look-up and count, and
`SettledLookUp`, `SettledAdd`, `SettledCreate` are the three steps of a CPU.

`SharesOneInterval` needs two invariants.  `ChainInv` says that `behind` orders the entries of
each bucket and relates no others, so that there is always at most one next key and the walk
comes to an end.  `RoundInv` says that what was sampled before has an entry, which may be
replaced but is never removed (`EntriesStay`), and that of every bucket whose entries have not
changed places the round has listed, each once, exactly what it has passed (`Passed`).  So at its
end every interface of such a bucket has a sample of this round or none at all, and no
difference reaches back further than the last round, whatever was replaced in other buckets.

`NeverOverstates` is a sum over the interfaces and needs a balance over all of them, `DueInv`: for
each direction, what has been reported, what the next visit of every interface would report
(`Due`), and the packets that a CPU has not counted yet (`Uncounted`) are together no more than
the packets that came.  A packet enters the balance on both sides; counting it moves it from
`Uncounted` to the `Due` of the one interface whose entry it is counted in (`Distinct`: of no
second one); a visit moves `Due` to the reported sum.  An entry that is replaced in the race goes
with what was counted in it, and the new one holds only the packet that made it, so that the
`Due` of its interface rises by no more than that packet.  Hence an inequality: what the race
in `update_stats` loses is lost for good, and nothing is ever reported twice.  `SumChange` says how a sum of any finite set of integers changes with one of
its terms.  The sum is a recursive function on subsets, and the argument takes a smallest set
for which the formula fails (`LeastNat`), since no induction theorem can be applied.

**CPU time.**  `CpuInv == PageInv /\ SampleInv /\ SamplerInv /\ ReportInv /\ ShownInv`.  It
speaks of whole values, before they wrap.  The page never runs ahead of the counters, nor a
sample ahead of its source as long as that is there (a load of the module, or `/proc/stat`).
`Readable` bounds what a read may give from both sides: no less than the last sample of this
source, no more than the page says now.  Every rewriting of the page keeps these bounds
(`Forward`), so the reads for the total, the shares and the copy are in this order, whatever was
written between them.  What is computed from them is modulo `Wrap`: less than `Wrap` having
passed, a difference of stored values is the true one or `Wrap` less, and less than `Wrap` is
what it is short of (`Wrapping`, `Storing`).  If the idle time started again between two samples
of an entry that was not rewritten meanwhile, its total is smaller than the last, and so is its
float, because floats keep the order: `TimePassed` is false and nothing is reported.  Every
other sound report has shares that are not negative, that make up at least the total but for
what the two floats are off by (`Floats`), and that end where the next sample begins.

**Who is online.**  `OnlineInv` says of every row of this run, and of the report in hand, that its
host has an entry no older, or the row is older than `StaleAge` (`Listed`).  The report in hand
is needed because its row is written after its entry, and the sweep may come between: it
removes only what is too old.  `Listed` speaks of the true time of a row, `Status` of the
written one, which is `FormatTime` of it; where the clocks were not advanced the two are equal,
and what is left is the exception `OnlineIsListed` makes (`OnlineSuffices`).

**Rates.**  `RateInv == OrderInv /\ SampleInv /\ GapInv /\ RatesAgree`.  `OrderInv` orders reports,
samples and rows by their numbers.  `SampleInv` says of each item that its sample `Belongs` to
that of the host's disks: it is from the same report, or from an older one that lists the item
while the disks' does not (`listed`), except for the items of the report in hand that are still to
be inserted.  `GapInv` says of the samples what `RatesAgree` says of a row, so that the next row
inherits it.  Refused rows do not disturb it: the samples are replaced whether a row was stored
or not.

**Walks.**  The place of a row is the number of rows before it in the order of the query; a page
is the rows whose places are in a window.  `Kept` says of a walk under way that each row it
began with has been shown or has a place not yet passed, and counts the shown ones against the
rows inserted since.  An inserted row comes before some rows and after others: it never lowers
a place and raises it by at most one.  So nothing that is still to come is skipped, and each
insert sends at most one shown row back over the edge between pages.  Rows that share their
time stamp have no place of their own, which is why the properties exempt them.  None of this
needs the inserted rows to be the newest: where the clocks are set back a row comes anywhere in
the order.  That the walk does not end early is the hypothesis `NoneSilent`, that every row
gives a record.  Rows are never deleted, and a restart ends the walk.

**A worker on the list.**  The sweep's invariant is taken from `HostScores_proofs`.  What has to
be found is `GapInv`: how old the last time stamp may get.  Reports come to the service no
further apart than `MaxGap`; how long ago the last one came follows from the calls that failed
since and the position of the pushing thread (`MaxAge`).  A stamp is taken when its report has
waited, so its age is bounded by the report that follows it: by `MaxAge` if there is none, else by
that report's wait and `MaxGap` (`Within`).  As long as the first report in the queue has waited
no longer than `MaxDelay`, the last stamp is no older than `MaxGap + MaxDelay`, which is no more
than `StaleAge` by `HeartbeatAssumption`, and an entry no older is not swept.  `QueueInv` says that
only a report of the queue is stamped.
`SignalInv` measures the time since the signal by what main waits for: the rest of its sleep,
then the join, which takes as long as a call and the second that the thread sleeps at a time.
The other direction, that a worker is dropped once its last time stamp is older than the age and
a period, is the sweep's own theorem and holds of the composition by `RunsSweep`
(`SilentDropped`).  It counts from the stamp, as the code does: reports that still wait when a
worker falls silent keep it listed until the last of them has been stamped and that stamp is
too old.

**The manager's tables.**  `RunsService` maps every step of `Manager` to one of `GrpcServer` or to a
stutter, so that the receiver's theorems hold inside it.  The accepted reports are then the
processed ones, the one in hand and the queued ones, each once, and a report is known by its
position among them (`Positions`).  `ScoreInv` puts the score of a key at the last position
that has got past the score table and whose report is scored under that key (`LatestScored`),
`CacheInv` the cached report at the last position of its host name, unless a call is between its
two critical sections.  When nothing of the host is underway and every report has one key for
both tables (`~TwoNames`), the two positions are the same.  Calls of one host that overlap may
be cached in one order and queued in the other, so such hosts are exempt.  `RowsInv` follows one
report through its inserts: none is issued without a connection, and a row is lost only because
its connection is dead, in which case all later rows of the report are lost too, or because it
was itself refused (`Refused`).

**The pool in the manager.**  `RunsPool` does for `MysqlPool` what `RunsService` does for the
receiver, but for one step: `~MysqlPool` empties the pool, which is no operation of it.
`LendingInv` is therefore the pool's invariant until then, and that `WorkerThread` waits in the
pool where the callback calls `Acquire`.  It has no rival: an empty pool means that no
connection is idle and none is lent, so that all of them are lost (`WaitsOnlyWhenSpent`).  This
is why `CatchesUp` excepts `lost = PoolSize` and nothing else of the pool, and what
`manager_outage` then shows is the one way to block it.

**The destructors.**  `manager_teardown` shows that the order of main's locals lets `WorkerThread`
use what is destroyed.  `HarmlessWhenDrained` says how far that goes: if every report answered
OK has been processed by the time the pool is destroyed, or at any time after, without harm so
far, there is none any more (`Quiet`).  It rests on `EndInv`: main goes on from `Wait` with no call
in progress and none to come, so that an empty queue stays empty and the callback is not
entered again.

**How the process ends.**  For any number of signals.  `HttpInv` says when there is an HTTP
server with connections, and that main returns after it.  `ShutdownInv` says that the gRPC
server is shut down only by a handler that is past its call, for which main waits before it
clears the pointers, and that a handler that comes after that (`late`) finds nothing to use.
`SocketInv` says that as long as every handler is at or before its own call of `stop` the
listening socket of a running server is open, so that the first call passes the assert.

**Views.**  `IInv == TypeOK /\ Slotted /\ HistoryInv /\ ViewsAgree`.  The user may select any host of
the last answer, so that the history of each of them must end with its report (`HistoryInv`);
and an answer names no host twice (`IsAnswer`, from `EntriesAnswer`), or the selector could find
the chosen name at another element than the cards.  `PageShown` is the arithmetic of pages.

**Only model-checked:** liveness (`DeliverySpec`'s, `CatchesUp`, `StopsWhenRunning`,
`StopReturns`, `WorkerReturns`, `Converges`), which needs fairness and ENABLED.  Every other
property of the passing runs is a theorem.

## 5. What is not modelled, and the plan

Not modelled: message texts, JSON and SQL wording, layout of the dashboard, CMake files, the
formulas of scores and rates (no property tells their values apart), `QueryTrend` and the
averages of `QueryLatestScore` (one SELECT each, which the database answers from one state),
the soft interrupt monitor and its kernel module (the same page, each counter read once),
the other monitors (sequential parsing of `/proc` on the pushing thread), `MetricCollector`
(a loop over the monitors, part of `Push`), generated and vendored code apart from what
`Lifecycle` uses of httplib, gRPC's own threads (external: any number of calls at once,
`Shutdown` lets them finish), authentication (there is none).

Where the models are coarser than the code: a callback that never returns for another reason
than the pool, and a call that never ends, are not among their steps (`MaxCall`).
`bpf_map_get_next_key` and the copy of the entry are one step, so that an entry does not change
places between the two.  In `CpuSampling` the idle time starts again on a whole jiffy, the
difference of two floats is exact, and the rounding of the quotients is left out; nothing is
said of samples as far apart as the idle time takes to start again.  No report lists an item
twice.  The product of page and page size does not overflow.

In order:

1. *(done)* Receiver, pool, their composition with the processing core and main's destructors;
   signal handling; sweep; worker loop; the composition of the last two.
2. *(done)* `NetStats`: the eBPF counters on several CPUs with the racing creation of an entry,
   the reader's differences and its treatment of decreasing counters.
3. *(done)* `ReportRows` and `QueryManager`: rows, samples, filters, count and page beside the
   writer.
4. *(done)* `Dashboard`: timer, replies out of order, selection, history, pages.
5. *(done)* `CpuSampling`: the kernel module's page read while it is rewritten.
6. *(done)* Proofs of the safety properties the runs check.
7. *(done)* Proofs beyond the runs: the compositions run their parts (`RunsService`, `RunsPool`,
   `RunsSweep`, `RunsPusher`), which carries the parts' theorems over; when the order of the
   destructors is harmless (`HarmlessWhenDrained`).
