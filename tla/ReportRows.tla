------------------------------ MODULE ReportRows ------------------------------
(***************************************************************************)
(* What WorkerThread leaves behind of a report: an entry of the score      *)
(* table, a row of server_performance, a row of a detail table, and the    *)
(* samples the next report of the host is compared with.  Those samples    *)
(* are replaced at three points of the callback: the report may get past   *)
(* one of them and not past the next.  A report is known by its number in  *)
(* the order of processing, and the rate in a row by the report it was     *)
(* compared with (None: no sample, the rate is 0).                         *)
(*                                                                         *)
(* A time that is written down is what the clocks of the manager's zone    *)
(* show.  It is known here by the moment at which they show it in standard *)
(* time.                                                                   *)
(***************************************************************************)
EXTENDS Integers, Sequences

CONSTANTS
  Hosts,         \* the hosts that report
  Items,         \* what a detail table has rows of: interfaces, disks, CPUs, memory
  Contents,      \* what the n-th report may say
  Shift,         \* how far the clocks are advanced at a time: 3600 in summer, 0 in winter
  StaleAge,      \* the age an entry may have, and the age of an offline server: 60
  MaxTime,       \* bound: the last second of the clock
  MaxReports,    \* bound: how many reports are processed
  MaxRefusals,   \* bound: how many rows or connections are refused
  LastRestart,   \* bound: the last report after which the manager is restarted
  None           \* no entry, no report, no sample

Time == 0..MaxTime

\* Of a report only this matters: how many of the conditions in QueryAnomaly's statement it
\* meets, how many records QueryAnomaly makes of its row, and what it lists.
Content == [load : Nat, records : Nat, items : SUBSET Items]

ASSUME ReportRowsAssumption ==
  /\ StaleAge \in Nat /\ MaxTime \in Nat
  /\ Contents \in [1..MaxReports -> SUBSET Content]
  /\ Shift \in [Time -> Nat]
  /\ MaxReports \in Nat /\ MaxRefusals \in Nat /\ LastRestart \in Nat
  /\ None \notin Nat

VARIABLES
  now,                  \* the clock, in the seconds a DATETIME keeps
  processed,            \* how many reports have been processed or begun
  step,                 \* where WorkerThread is in OnDataReceived
  report,               \* the report it is processing
  host_scores,          \* host_scores_: the time stamp of each host's entry
  last_perf_samples,    \* the report each of the three static maps has of a host:
  last_disk_util,       \*   of OnDataReceived, and in WriteToMysql
  last_net_samples,     \*   of the first insert and, of each item, of the detail inserts
  server_performance,   \* the rows of the main table, in the order of their ids
  server_net_detail,    \* the rows of a detail table
  refusals,             \* how many rows or connections have been refused
  started,              \* history: how many reports earlier processes had processed
  listed                \* history: the items of each report

samples == <<last_perf_samples, last_disk_util, last_net_samples>>
tables == <<server_performance, server_net_detail>>
rowVars == <<now, processed, step, report, host_scores, samples, tables, refusals,
             started, listed>>

\* FormatTime and the strftime of WriteToMysql.
FormatTime(t) == t + Shift[t]

Empty == [h \in Hosts |-> None]
EmptyOfItems == [h \in Hosts |-> [item \in Items |-> None]]

RowsInit ==
  /\ now = 0
  /\ processed = 0
  /\ step = "idle"
  /\ report = None
  /\ host_scores = Empty
  /\ last_perf_samples = Empty /\ last_disk_util = Empty /\ last_net_samples = EmptyOfItems
  /\ server_performance = <<>> /\ server_net_detail = <<>>
  /\ refusals = 0 /\ started = 0 /\ listed = <<>>

-----------------------------------------------------------------------------
(* WorkerThread in OnDataReceived and WriteToMysql.                        *)

\* The report is scored, time-stamped, changes places with the last sample and is entered
\* into the score table, under mtx_; then WriteToMysql asks for a connection.  (How long a
\* report may wait between time stamp and table is HostScores' question.)
OnDataReceived(h, content) ==
  /\ step = "idle" /\ processed < MaxReports
  /\ processed' = processed + 1 /\ content \in Contents[processed']
  /\ report' = [id |-> processed', server_name |-> h, timestamp |-> now, content |-> content,
                left |-> content.items, base |-> last_perf_samples[h]]
  /\ listed' = Append(listed, content.items)
  /\ last_perf_samples' = [last_perf_samples EXCEPT ![h] = processed']
  /\ host_scores' = [host_scores EXCEPT ![h] = now]
  /\ step' = "acquiring"
  /\ UNCHANGED <<now, last_disk_util, last_net_samples, tables, refusals, started>>

\* A statement that adds a row, or fails and adds none: its connection is dead, or the server
\* refuses just this one.  Nobody looks.
AddRow(table, row, new) ==
  \/ new = Append(table, row) /\ UNCHANGED refusals
  \/ new = table /\ refusals < MaxRefusals /\ refusals' = refusals + 1

\* Defect for RatesAgree: the report without a connection becomes the detail sample.
NoConnection_TakesSample ==
  /\ step = "acquiring"
  /\ refusals < MaxRefusals /\ refusals' = refusals + 1
  /\ step' = "idle" /\ report' = None
  /\ last_net_samples' = [last_net_samples EXCEPT ![report.server_name] =
                            [item \in Items |-> IF item \in report.left THEN report.id ELSE @[item]]]
  /\ UNCHANGED <<now, processed, host_scores, last_perf_samples, last_disk_util, tables,
                 started, listed>>

\* There is no pool, or Acquire returns nullptr: nothing more is done.
NoConnection ==
  /\ step = "acquiring"
  /\ refusals < MaxRefusals /\ refusals' = refusals + 1
  /\ step' = "idle" /\ report' = None
  /\ UNCHANGED <<now, processed, host_scores, samples, tables, started, listed>>

\* The row of server_performance.  Its time itself is kept for the properties.
MainRowOf(r, time) ==
  [id |-> r.id, server_name |-> r.server_name, timestamp |-> FormatTime(time), time |-> time,
   load |-> r.content.load, records |-> r.content.records,
   base |-> r.base, util_base |-> last_disk_util[r.server_name]]

\* Defect for OnlineIsListed: the row gets the time of its insert.
InsertMain_Restamped ==
  /\ step = "acquiring"
  /\ step' = "details"
  /\ last_disk_util' = [last_disk_util EXCEPT ![report.server_name] = report.id]
  /\ AddRow(server_performance, MainRowOf(report, now), server_performance')
  /\ UNCHANGED <<now, processed, report, host_scores, last_perf_samples, last_net_samples,
                 server_net_detail, started, listed>>

\* The INSERT into server_performance.
InsertMain ==
  /\ step = "acquiring"
  /\ step' = "details"
  /\ last_disk_util' = [last_disk_util EXCEPT ![report.server_name] = report.id]
  /\ AddRow(server_performance, MainRowOf(report, report.timestamp), server_performance')
  /\ UNCHANGED <<now, processed, report, host_scores, last_perf_samples, last_net_samples,
                 server_net_detail, started, listed>>

\* The row of a detail table.
DetailRowOf(r, item) ==
  [id |-> r.id, server_name |-> r.server_name, timestamp |-> FormatTime(r.timestamp),
   item |-> item, base |-> last_net_samples[r.server_name][item]]

\* The INSERT of one of the items the report lists.  Of these the samples are replaced,
\* whether the rows are stored or not, of the others not.
InsertDetail(item) ==
  /\ step = "details" /\ item \in report.left
  /\ report' = [report EXCEPT !.left = @ \ {item}]
  /\ last_net_samples' = [last_net_samples EXCEPT ![report.server_name][item] = report.id]
  /\ AddRow(server_net_detail, DetailRowOf(report, item), server_net_detail')
  /\ UNCHANGED <<now, processed, step, host_scores, last_perf_samples, last_disk_util,
                 server_performance, started, listed>>

\* All items are inserted: the connection goes back.
Release ==
  /\ step = "details" /\ report.left = {}
  /\ step' = "idle" /\ report' = None
  /\ UNCHANGED <<now, processed, host_scores, samples, tables, refusals, started, listed>>

-----------------------------------------------------------------------------
(* The sweep, its timing left open; the clock; a new process.              *)

Sweep ==
  /\ host_scores' = [h \in Hosts |-> IF host_scores[h] # None /\ now - host_scores[h] > StaleAge
                                     THEN None ELSE host_scores[h]]
  /\ host_scores' # host_scores
  /\ UNCHANGED <<now, processed, step, report, samples, tables, refusals, started, listed>>

Tick ==
  /\ now < MaxTime
  /\ now' = now + 1
  /\ UNCHANGED <<processed, step, report, host_scores, samples, tables, refusals, started, listed>>

\* The manager ends anywhere and starts again: only the tables of the database remain.
RestartRows ==
  /\ started < processed /\ processed <= LastRestart
  /\ started' = processed
  /\ step' = "idle" /\ report' = None
  /\ host_scores' = Empty
  /\ last_perf_samples' = Empty /\ last_disk_util' = Empty
  /\ last_net_samples' = EmptyOfItems
  /\ UNCHANGED <<now, processed, tables, refusals, listed>>

WorkerThread ==
  \/ \E h \in Hosts, content \in UNION {Contents[n] : n \in 1..MaxReports} :
       OnDataReceived(h, content)
  \/ NoConnection \/ InsertMain \/ Release
  \/ \E item \in Items : InsertDetail(item)

-----------------------------------------------------------------------------
(* Properties.                                                             *)

ReportId == 1..MaxReports \cup {None}
Report == [id : 1..MaxReports, server_name : Hosts, timestamp : Time, content : Content,
           left : SUBSET Items, base : ReportId]
MainRow == [id : 1..MaxReports, server_name : Hosts, timestamp : Nat, time : Time,
            load : Nat, records : Nat, base : ReportId, util_base : ReportId]
DetailRow == [id : 1..MaxReports, server_name : Hosts, timestamp : Nat, item : Items,
              base : ReportId]

RowsTypeOK ==
  /\ now \in Time /\ processed \in 0..MaxReports
  /\ step \in {"idle", "acquiring", "details"}
  /\ IF step = "idle" THEN report = None ELSE report \in Report
  /\ host_scores \in [Hosts -> Time \cup {None}]
  /\ last_perf_samples \in [Hosts -> ReportId] /\ last_disk_util \in [Hosts -> ReportId]
  /\ last_net_samples \in [Hosts -> [Items -> ReportId]]
  /\ server_performance \in Seq(MainRow) /\ server_net_detail \in Seq(DetailRow)
  /\ refusals \in 0..MaxRefusals /\ started \in 0..processed
  /\ listed \in Seq(SUBSET Items) /\ Len(listed) = processed

Stored(id) ==
  \/ \E i \in DOMAIN server_performance : server_performance[i].id = id
  \/ \E i \in DOMAIN server_net_detail : server_net_detail[i].id = id

\* Of an item, base is the sample that belongs to the disk sample util_base: the same report
\* or, if that did not list the item, an older one that did, or none.
Belongs(item, base, util_base) ==
  base # util_base =>
    /\ util_base # None /\ item \notin listed[util_base]
    /\ base # None => base < util_base /\ item \in listed[base]

\* The rates of one report agree on what they are compared with, although their samples are
\* replaced at three points of the callback, whatever the reports list and whichever
\* statements fail.  The two samples of a main row differ only if a report in between got no
\* connection and so left no row at all.  A detail row compares with the report its main
\* row's disk rate does, unless that one did not list its item: then with an older one.
RatesAgree ==
  /\ \A i \in DOMAIN server_performance :
       LET row == server_performance[i]
       IN row.util_base # row.base =>
            /\ row.base # None /\ ~Stored(row.base)
            /\ row.util_base # None => row.util_base < row.base
  /\ \A i \in DOMAIN server_performance, j \in DOMAIN server_net_detail :
       server_performance[i].id = server_net_detail[j].id =>
         Belongs(server_net_detail[j].item, server_net_detail[j].base,
                 server_performance[i].util_base)
=============================================================================
