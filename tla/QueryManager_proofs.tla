------------------------- MODULE QueryManager_proofs -------------------------
(***************************************************************************)
(* What holds of the rows of the database, the samples and the score table *)
(* for any hosts, any number of reports and any age.                       *)
(*                                                                         *)
(* The first two arguments concern the report in hand.  A report is        *)
(* entered into the score table before it becomes a row, with the same     *)
(* time stamp: what OnlineIsListed says of a row already holds of the      *)
(* report.  And from a report to the next the samples of a host differ     *)
(* only by reports that are in no table, and those of an item by reports   *)
(* that did not list it, so that what RatesAgree says of a row holds of    *)
(* the samples it will be made from.                                       *)
(*                                                                         *)
(* The third is about the place of a row in the answer to a query, the     *)
(* number of rows that come before it.  An inserted row never lowers a     *)
(* place, and raises it by at most one.  So a row that has not been shown  *)
(* is still to come, and each inserted row sends at most one that has been *)
(* shown back over the edge between the pages.                             *)
(***************************************************************************)
EXTENDS QueryManager, NaturalsInduction, WellFoundedInduction, FunctionTheorems,
        FiniteSetTheorems, TLAPS

\* The steps that leave rows, samples and score table alone.
QueryStep == (\E q \in Requests : Ask(q)) \/ Count \/ Select \/ Forget \/ LoseConnection

LEMMA QueryStepKeeps == QueryStep => UNCHANGED rowVars
BY DEF QueryStep, Ask, Count, Select, Forget, LoseConnection

\* What a step does to a table that AddRow is applied to.
LEMMA AddedRow ==
  ASSUME NEW S, NEW s \in Seq(S), NEW e \in S, NEW t, AddRow(s, e, t)
  PROVE  /\ t \in Seq(S)
         /\ DOMAIN s \subseteq DOMAIN t
         /\ \A i \in DOMAIN t : (i \in DOMAIN s /\ t[i] = s[i]) \/ t[i] = e
<1>1. t = s \/ t = Append(s, e)
  BY DEF AddRow
<1>. QED  BY <1>1

-----------------------------------------------------------------------------
(* The rows keep their types.                                              *)

Any == UNION {Contents[n] : n \in 1..MaxReports}

LEMMA AnyIsContent == Any \subseteq Content
BY ReportRowsAssumption DEF Any

LEMMA EmptyType ==
  /\ Empty \in [Hosts -> ReportId] /\ Empty \in [Hosts -> Time \cup {None}]
  /\ EmptyOfItems \in [Hosts -> [Items -> ReportId]]
BY DEF Empty, EmptyOfItems, ReportId

LEMMA RowsTypeInit == Init => RowsTypeOK
<1>. SUFFICES ASSUME Init PROVE RowsTypeOK
  OBVIOUS
<1>1. 0 \in Time
  BY ReportRowsAssumption DEF Time
<1>2. <<>> \in Seq(MainRow) /\ <<>> \in Seq(DetailRow) /\ <<>> \in Seq(SUBSET Items) /\ Len(<<>>) = 0
  OBVIOUS
<1>. QED
  BY <1>1, <1>2, EmptyType, ReportRowsAssumption DEF Init, RowsInit, RowsTypeOK

\* A report is taken up.
LEMMA OnDataReceivedType ==
  ASSUME RowsTypeOK, NEW h \in Hosts, NEW content \in Any, OnDataReceived(h, content)
  PROVE  RowsTypeOK'
<1>. USE ReportRowsAssumption DEF OnDataReceived, RowsTypeOK, tables
<1>1. processed' \in 1..MaxReports /\ processed' \in ReportId
  BY DEF ReportId
<1>2. content \in Content /\ content.items \in SUBSET Items
  BY AnyIsContent DEF Content
<1>3. report' \in Report
  BY <1>1, <1>2 DEF Report
<1>4. last_perf_samples' \in [Hosts -> ReportId]
  BY <1>1
<1>5. host_scores' \in [Hosts -> Time \cup {None}]
  OBVIOUS
<1>6. listed' \in Seq(SUBSET Items) /\ Len(listed') = processed'
  BY <1>2
<1>. QED  BY <1>1, <1>3, <1>4, <1>5, <1>6

\* It finds no connection.
LEMMA NoConnectionType ==
  ASSUME RowsTypeOK, NoConnection
  PROVE  RowsTypeOK'
BY ReportRowsAssumption DEF NoConnection, RowsTypeOK, tables, samples

\* It becomes a row of the main table.
LEMMA MainRowType ==
  ASSUME RowsTypeOK, step # "idle"
  PROVE  MainRowOf(report, report.timestamp) \in MainRow
<1>1. report \in Report
  BY DEF RowsTypeOK
<1>2. /\ report.timestamp \in Time /\ report.id \in 1..MaxReports /\ report.server_name \in Hosts
      /\ report.base \in ReportId /\ report.content \in Content
  BY <1>1 DEF Report
<1>3. FormatTime(report.timestamp) \in Nat
  BY <1>2, ReportRowsAssumption DEF FormatTime, Time
<1>4. report.content.load \in Nat /\ report.content.records \in Nat
  BY <1>2 DEF Content
<1>5. last_disk_util[report.server_name] \in ReportId
  BY <1>2 DEF RowsTypeOK
<1>. QED  BY <1>2, <1>3, <1>4, <1>5 DEF MainRow, MainRowOf

LEMMA InsertMainType ==
  ASSUME RowsTypeOK, InsertMain
  PROVE  RowsTypeOK'
<1>. USE ReportRowsAssumption DEF InsertMain, RowsTypeOK
<1>1. report \in Report /\ report.id \in ReportId /\ report.server_name \in Hosts
  BY DEF Report, ReportId
<1>2. server_performance' \in Seq(MainRow)
  <2>. DEFINE row == MainRowOf(report, report.timestamp)
  <2>1. row \in MainRow
    BY MainRowType
  <2>2. server_performance \in Seq(MainRow) /\ AddRow(server_performance, row, server_performance')
    OBVIOUS
  <2>. HIDE DEF row
  <2>. QED  BY ONLY <2>1, <2>2, AddedRow
<1>3. last_disk_util' \in [Hosts -> ReportId]
  BY <1>1
<1>4. refusals' \in 0..MaxRefusals
  BY DEF AddRow
<1>. QED  BY <1>1, <1>2, <1>3, <1>4

\* It becomes rows of the detail table.
LEMMA DetailRowType ==
  ASSUME RowsTypeOK, step # "idle", NEW item \in Items
  PROVE  DetailRowOf(report, item) \in DetailRow
<1>1. report \in Report
  BY DEF RowsTypeOK
<1>2. report.timestamp \in Time /\ report.id \in 1..MaxReports /\ report.server_name \in Hosts
  BY <1>1 DEF Report
<1>3. FormatTime(report.timestamp) \in Nat
  BY <1>2, ReportRowsAssumption DEF FormatTime, Time
<1>4. last_net_samples[report.server_name][item] \in ReportId
  BY <1>2 DEF RowsTypeOK
<1>. QED  BY <1>2, <1>3, <1>4 DEF DetailRow, DetailRowOf

LEMMA InsertDetailType ==
  ASSUME RowsTypeOK, NEW item \in Items, InsertDetail(item)
  PROVE  RowsTypeOK'
<1>. USE ReportRowsAssumption DEF InsertDetail, RowsTypeOK
<1>1. report \in Report /\ report.id \in ReportId /\ report.server_name \in Hosts
  BY DEF Report, ReportId
<1>2. report' \in Report
  BY <1>1 DEF Report
<1>3. server_net_detail' \in Seq(DetailRow)
  <2>. DEFINE row == DetailRowOf(report, item)
  <2>1. row \in DetailRow
    BY DetailRowType
  <2>2. server_net_detail \in Seq(DetailRow) /\ AddRow(server_net_detail, row, server_net_detail')
    OBVIOUS
  <2>. HIDE DEF row
  <2>. QED  BY ONLY <2>1, <2>2, AddedRow
<1>4. last_net_samples' \in [Hosts -> [Items -> ReportId]]
  BY <1>1
<1>5. refusals' \in 0..MaxRefusals
  BY DEF AddRow
<1>. QED  BY <1>1, <1>2, <1>3, <1>4, <1>5

\* The end of a report, the sweep, the clock, a new process, and the queries.
LEMMA OtherType ==
  ASSUME RowsTypeOK, Release \/ Sweep \/ Tick \/ Restart \/ UNCHANGED rowVars
  PROVE  RowsTypeOK'
<1>. USE ReportRowsAssumption DEF RowsTypeOK, samples, tables
<1>1. CASE Sweep
  BY <1>1 DEF Sweep, Time
<1>2. CASE Tick
  BY <1>2 DEF Tick, Time
<1>3. CASE Restart
  BY <1>3, EmptyType DEF Restart, RestartRows
<1>4. CASE UNCHANGED rowVars
  BY <1>4 DEF rowVars
<1>5. CASE Release
  BY <1>5 DEF Release
<1>. QED  BY <1>1, <1>2, <1>3, <1>4, <1>5

\* A step is one of WorkerThread, of the sweep, the clock or a restart, or a query's.
LEMMA Steps ==
  ASSUME [Next]_vars
  PROVE  \/ \E h \in Hosts, content \in Any : OnDataReceived(h, content)
         \/ NoConnection \/ InsertMain \/ (\E item \in Items : InsertDetail(item)) \/ Release
         \/ Sweep \/ Tick \/ Restart \/ UNCHANGED rowVars
BY QueryStepKeeps DEF Next, QueryStep, WorkerThread, vars, Any

LEMMA RowsTypeStep == RowsTypeOK /\ [Next]_vars => RowsTypeOK'
BY Steps, OnDataReceivedType, NoConnectionType, InsertMainType, InsertDetailType, OtherType

\* Rows, samples and score table keep their types.
THEOREM RowsTypeCorrect == Spec => []RowsTypeOK
BY RowsTypeInit, RowsTypeStep, PTL DEF Spec

-----------------------------------------------------------------------------
(* Who is online.                                                          *)

\* A report of this process that is not stale has an entry that is no older; and no report
\* comes from the future.
Listed(id, server_name, timestamp) ==
  /\ id <= processed /\ timestamp <= now
  /\ id > started /\ now - timestamp <= StaleAge =>
       host_scores[server_name] # None /\ host_scores[server_name] >= timestamp

OnlineInv ==
  /\ step # "idle" => Listed(report.id, report.server_name, report.timestamp)
  /\ \A i \in DOMAIN server_performance :
       LET row == server_performance[i]
       IN Listed(row.id, row.server_name, row.time) /\ row.timestamp = FormatTime(row.time)

\* If a step keeps Listed, it keeps it of the report in hand and of all rows.
LEMMA OnlineKept ==
  ASSUME RowsTypeOK, OnlineInv, UNCHANGED server_performance,
         step' # "idle" =>
           /\ step # "idle" /\ report'.id = report.id
           /\ report'.server_name = report.server_name /\ report'.timestamp = report.timestamp,
         \A id \in 1..MaxReports, h \in Hosts, t \in Time : Listed(id, h, t) => Listed(id, h, t)'
  PROVE  OnlineInv'
<1>1. step # "idle" => report \in Report
  BY DEF RowsTypeOK
<1>2. \A i \in DOMAIN server_performance : server_performance[i] \in MainRow
  BY DEF RowsTypeOK
<1>. QED  BY <1>1, <1>2 DEF OnlineInv, Report, MainRow, FormatTime

LEMMA OnlineStep == RowsTypeOK /\ OnlineInv /\ [Next]_vars => OnlineInv'
<1>. SUFFICES ASSUME RowsTypeOK, OnlineInv, [Next]_vars PROVE OnlineInv'
  OBVIOUS
<1>. USE ReportRowsAssumption
<1>0. now \in Nat /\ started \in Nat /\ processed \in Nat /\ host_scores \in [Hosts -> Time \cup {None}] /\ Time \subseteq Nat
  BY DEF RowsTypeOK, Time
<1>1. ASSUME NEW h \in Hosts, NEW content \in Any, OnDataReceived(h, content) PROVE OnlineInv'
  <2>1. ASSUME NEW id \in 1..MaxReports, NEW g \in Hosts, NEW t \in Time, Listed(id, g, t)
        PROVE  Listed(id, g, t)'
    BY <1>0, <1>1, <2>1 DEF OnDataReceived, Listed
  <2>2. Listed(report.id, report.server_name, report.timestamp)'
    BY <1>0, <1>1 DEF OnDataReceived, Listed
  <2>3. \A i \in DOMAIN server_performance : server_performance[i] \in MainRow
    BY DEF RowsTypeOK
  <2>4. UNCHANGED server_performance
    BY <1>1 DEF OnDataReceived, tables
  <2>. QED  BY <2>1, <2>2, <2>3, <2>4 DEF OnlineInv, MainRow, FormatTime
<1>2. CASE NoConnection
  BY <1>2, OnlineKept DEF NoConnection, tables, Listed
<1>3. CASE InsertMain
  <2>1. report \in Report /\ Listed(report.id, report.server_name, report.timestamp)
    BY <1>3 DEF InsertMain, RowsTypeOK, OnlineInv
  <2>2. PICK row : row = MainRowOf(report, report.timestamp)
    OBVIOUS
  <2>3. /\ row.id = report.id /\ row.server_name = report.server_name
        /\ row.time = report.timestamp /\ row.timestamp = FormatTime(row.time)
    BY <2>2 DEF MainRowOf
  <2>4. \A id, h, t : Listed(id, h, t)' <=> Listed(id, h, t)
    BY <1>3 DEF InsertMain, Listed
  <2>5. \A i \in DOMAIN server_performance' :
          \/ i \in DOMAIN server_performance /\ server_performance'[i] = server_performance[i]
          \/ server_performance'[i] = row
    <3>1. row \in MainRow /\ server_performance \in Seq(MainRow)
      BY <1>3, <2>2, MainRowType DEF InsertMain, RowsTypeOK
    <3>2. AddRow(server_performance, row, server_performance')
      BY <1>3, <2>2 DEF InsertMain
    <3>. QED  BY ONLY <3>1, <3>2, AddedRow
  <2>6. report' = report
    BY <1>3 DEF InsertMain
  <2>. QED  BY <2>1, <2>3, <2>4, <2>5, <2>6 DEF OnlineInv, FormatTime
<1>4. ASSUME NEW item \in Items, InsertDetail(item) PROVE OnlineInv'
  <2>1. report'.id = report.id /\ report'.server_name = report.server_name
        /\ report'.timestamp = report.timestamp
    BY <1>4 DEF InsertDetail, RowsTypeOK, Report
  <2>2. /\ step # "idle" /\ UNCHANGED <<server_performance, now, processed, started, host_scores>>
    BY <1>4 DEF InsertDetail
  <2>. QED  BY <2>1, <2>2, OnlineKept DEF Listed
<1>5. CASE Sweep
  <2>1. ASSUME NEW id \in 1..MaxReports, NEW g \in Hosts, NEW t \in Time, Listed(id, g, t)
        PROVE  Listed(id, g, t)'
    <3>1. /\ host_scores[g] # None => host_scores[g] \in Nat
          /\ host_scores'[g] = IF host_scores[g] # None /\ now - host_scores[g] > StaleAge
                               THEN None ELSE host_scores[g]
          /\ UNCHANGED <<now, processed, started>>
      BY <1>0, <1>5 DEF Sweep
    <3>2. id \in Nat /\ t \in Nat
      BY <1>0
    <3>. QED  BY <1>0, <2>1, <3>1, <3>2 DEF Listed
  <2>. QED  BY <1>5, <2>1, OnlineKept DEF Sweep, tables
<1>6. CASE Tick
  <2>1. ASSUME NEW id \in 1..MaxReports, NEW g \in Hosts, NEW t \in Time, Listed(id, g, t)
        PROVE  Listed(id, g, t)'
    BY <1>0, <1>6, <2>1 DEF Tick, Listed
  <2>. QED  BY <1>6, <2>1, OnlineKept DEF Tick, tables
<1>7. CASE Restart
  <2>1. step' = "idle" /\ UNCHANGED <<now, server_performance>> /\ started' = processed
    BY <1>7 DEF Restart, RestartRows, tables
  <2>2. ASSUME NEW id \in 1..MaxReports, NEW h \in Hosts, NEW t \in Time, Listed(id, h, t)
        PROVE  Listed(id, h, t)'
    BY <1>0, <1>7, <2>1, <2>2 DEF Restart, RestartRows, Listed
  <2>. QED  BY <2>1, <2>2, OnlineKept
<1>8. CASE Release \/ UNCHANGED rowVars
  BY <1>8, OnlineKept DEF Release, rowVars, tables, Listed
<1>. QED  BY <1>1, <1>2, <1>3, <1>4, <1>5, <1>6, <1>7, <1>8, Steps

LEMMA OnlineInit == Init => OnlineInv
BY DEF Init, RowsInit, OnlineInv

LEMMA OnlineSuffices == RowsTypeOK /\ OnlineInv => OnlineIsListed
<1>. SUFFICES ASSUME RowsTypeOK, OnlineInv,
                     NEW i \in LatestRows, server_performance[i].id > started,
                     Status(server_performance[i]) = "ONLINE"
              PROVE  LET row == server_performance[i]
                     IN \/ /\ host_scores[row.server_name] # None
                           /\ host_scores[row.server_name] >= row.time
                        \/ now - row.time > StaleAge /\ Shift[row.time] > 0
  BY DEF OnlineIsListed
<1>1. i \in DOMAIN server_performance /\ server_performance[i] \in MainRow
  BY DEF LatestRows, RowsTypeOK
<1>2. PICK t \in Time : t = server_performance[i].time
  BY <1>1 DEF MainRow
<1>3. now \in Nat /\ t \in Nat /\ Shift[t] \in Nat /\ StaleAge \in Nat
  BY <1>2, ReportRowsAssumption DEF RowsTypeOK, Time
<1>4. server_performance[i].timestamp = t + Shift[t]
  BY <1>1, <1>2 DEF OnlineInv, FormatTime
<1>5. now - (t + Shift[t]) <= StaleAge
  BY <1>3, <1>4 DEF Status, ParseTime
<1>6. now - t <= StaleAge \/ (now - t > StaleAge /\ Shift[t] > 0)
  BY <1>3, <1>5
<1>. QED  BY <1>1, <1>2, <1>6 DEF OnlineInv, Listed

\* A server the queries call online has an entry in the score table, wherever sweep,
\* WorkerThread and queries are, and however the clocks are advanced, but for what a row
\* written in summer time gains.
THEOREM OnlineCorrect == Spec => []OnlineIsListed
<1>1. Init => RowsTypeOK /\ OnlineInv
  BY RowsTypeInit, OnlineInit
<1>2. (RowsTypeOK /\ OnlineInv) /\ [Next]_vars => (RowsTypeOK /\ OnlineInv)'
  BY RowsTypeStep, OnlineStep
<1>. QED  BY <1>1, <1>2, OnlineSuffices, PTL DEF Spec

-----------------------------------------------------------------------------
(* What the rates of a report are compared with.                           *)

\* The samples a main row is made from agree, but for a report that left no row.
Gap(base, util_base) ==
  util_base # base => /\ base # None /\ ~Stored(base)
                      /\ util_base # None => util_base < base

\* How the numbers of samples and rows lie below that of the report in hand.
OrderInv ==
  /\ step # "idle" => /\ report.id = processed /\ report.left \subseteq listed[processed]
                      /\ step = "acquiring" => report.left = listed[processed]
                      /\ last_perf_samples[report.server_name] = processed
                      /\ report.base # None => report.base < processed
  /\ \A h \in Hosts : last_perf_samples[h] # None =>
       /\ last_perf_samples[h] <= processed
       /\ step # "idle" /\ h # report.server_name => last_perf_samples[h] < processed
  /\ \A h \in Hosts : last_disk_util[h] # None =>
       /\ last_disk_util[h] <= processed
       /\ step = "acquiring" => last_disk_util[h] < processed
  /\ \A i \in DOMAIN server_performance :
       LET row == server_performance[i]
       IN /\ row.id <= processed
          /\ step = "acquiring" => row.id < processed
          /\ row.base # None => row.base < row.id
          /\ row.util_base # None => row.util_base < row.id
  /\ \A i \in DOMAIN server_net_detail :
       LET row == server_net_detail[i]
       IN /\ row.id <= processed
          /\ step = "acquiring" => row.id < processed
          /\ row.base # None => row.base <= processed

\* The samples of the two inserts are replaced one after the other, the second item by item.
SampleInv ==
  /\ step = "details" => last_disk_util[report.server_name] = processed
  /\ \A h \in Hosts, item \in Items :
       LET sample == last_net_samples[h][item]
       IN /\ sample # None => sample <= processed /\ item \in listed[sample]
          /\ \/ step = "details" /\ h = report.server_name /\ item \in report.left
             \/ Belongs(item, sample, last_disk_util[h])
  /\ step = "details" =>
       \A item \in report.left, i \in DOMAIN server_performance :
         server_performance[i].id = processed =>
           Belongs(item, last_net_samples[report.server_name][item],
                   server_performance[i].util_base)

\* What RatesAgree says of a row, said of the samples of each host.
GapInv ==
  /\ \A h \in Hosts : \/ step = "acquiring" /\ h = report.server_name
                      \/ Gap(last_perf_samples[h], last_disk_util[h])
  /\ step = "acquiring" => Gap(report.base, last_disk_util[report.server_name])

RateInv == OrderInv /\ SampleInv /\ GapInv /\ RatesAgree

rateVars == <<processed, step, report, samples, tables, listed>>

LEMMA RateInit == Init => RateInv
<1>. SUFFICES ASSUME Init PROVE RateInv
  OBVIOUS
<1>. USE DEF Init, RowsInit, Empty, EmptyOfItems
<1>1. OrderInv
  BY DEF OrderInv
<1>2. SampleInv
  BY DEF SampleInv, Belongs
<1>3. GapInv
  BY DEF GapInv, Gap
<1>4. RatesAgree
  BY DEF RatesAgree
<1>. QED  BY <1>1, <1>2, <1>3, <1>4 DEF RateInv

\* Types the arithmetic below needs.
LEMMA RateTypes ==
  ASSUME RowsTypeOK
  PROVE  /\ processed \in Nat /\ ReportId \subseteq Nat \cup {None} /\ None \notin Nat
         /\ last_perf_samples \in [Hosts -> ReportId]
         /\ last_disk_util \in [Hosts -> ReportId]
         /\ last_net_samples \in [Hosts -> [Items -> ReportId]]
         /\ step # "idle" => /\ report.id \in Nat /\ report.server_name \in Hosts
                             /\ report.base \in ReportId /\ report.left \subseteq Items
         /\ \A i \in DOMAIN server_performance :
              /\ server_performance[i].id \in Nat /\ server_performance[i].base \in ReportId
              /\ server_performance[i].util_base \in ReportId
         /\ \A i \in DOMAIN server_net_detail :
              /\ server_net_detail[i].id \in Nat /\ server_net_detail[i].base \in ReportId
              /\ server_net_detail[i].item \in Items
<1>1. \A i \in DOMAIN server_performance : server_performance[i] \in MainRow
  BY DEF RowsTypeOK
<1>2. \A i \in DOMAIN server_net_detail : server_net_detail[i] \in DetailRow
  BY DEF RowsTypeOK
<1>3. ReportId \subseteq Nat \cup {None} /\ 1..MaxReports \subseteq Nat
  BY DEF ReportId
<1>4. \A i \in DOMAIN server_performance :
        /\ server_performance[i].id \in Nat /\ server_performance[i].base \in ReportId
        /\ server_performance[i].util_base \in ReportId
  BY <1>1, <1>3 DEF MainRow
<1>5. \A i \in DOMAIN server_net_detail :
        /\ server_net_detail[i].id \in Nat /\ server_net_detail[i].base \in ReportId
        /\ server_net_detail[i].item \in Items
  BY <1>2, <1>3 DEF DetailRow
<1>6. step # "idle" => /\ report.id \in Nat /\ report.server_name \in Hosts
                       /\ report.base \in ReportId /\ report.left \subseteq Items
  <2>1. step # "idle" => report \in Report
    BY DEF RowsTypeOK
  <2>. QED  BY <1>3, <2>1 DEF Report
<1>. QED  BY <1>3, <1>4, <1>5, <1>6, ReportRowsAssumption DEF RowsTypeOK

\* The sample of an item belongs to later reports too, until one lists the item.
LEMMA StillBelongs ==
  ASSUME NEW item, NEW sample, NEW util_base, NEW later \in Nat, None \notin Nat,
         sample \in Nat \cup {None}, util_base \in Nat \cup {None},
         Belongs(item, sample, util_base), item \notin listed[later],
         sample # None => item \in listed[sample], util_base # None => util_base < later
  PROVE  Belongs(item, sample, later)
BY DEF Belongs

\* A report that is taken up changes nothing for the reports before it.
LEMMA BelongsKept ==
  ASSUME RowsTypeOK, NEW h \in Hosts, NEW content \in Any, OnDataReceived(h, content),
         NEW item, NEW sample \in ReportId, NEW util_base \in ReportId,
         sample # None => sample <= processed, util_base # None => util_base <= processed,
         Belongs(item, sample, util_base)
  PROVE  Belongs(item, sample, util_base)'
<1>1. /\ listed \in Seq(SUBSET Items) /\ Len(listed) = processed /\ content.items \in SUBSET Items
      /\ listed' = Append(listed, content.items)
  BY AnyIsContent DEF RowsTypeOK, OnDataReceived, Content
<1>2. \A n \in 1..processed : listed'[n] = listed[n]
  BY <1>1
<1>3. (sample # None => sample \in 1..processed) /\ (util_base # None => util_base \in 1..processed)
  BY ReportRowsAssumption DEF ReportId, RowsTypeOK
<1>. QED  BY <1>2, <1>3 DEF Belongs

\* A report is taken up: the next in number, with the sample of its host.
LEMMA RateOnDataReceived ==
  ASSUME RowsTypeOK, RateInv, NEW h \in Hosts, NEW content \in Any, OnDataReceived(h, content)
  PROVE  RateInv'
<1>. USE RateTypes DEF RateInv
<1>1. /\ step = "idle" /\ step' = "acquiring" /\ processed' = processed + 1
      /\ report'.id = processed' /\ report'.server_name = h /\ report'.base = last_perf_samples[h]
      /\ report'.left = content.items
      /\ last_perf_samples' = [last_perf_samples EXCEPT ![h] = processed']
      /\ UNCHANGED <<last_disk_util, last_net_samples, server_performance, server_net_detail>>
  BY DEF OnDataReceived, tables
<1>2. listed'[processed'] = content.items /\ \A n \in 1..processed : listed'[n] = listed[n]
  <2>1. /\ listed \in Seq(SUBSET Items) /\ Len(listed) = processed /\ content.items \in SUBSET Items
        /\ listed' = Append(listed, content.items)
    BY AnyIsContent DEF RowsTypeOK, OnDataReceived, Content
  <2>. QED  BY <1>1, <2>1
<1>3. OrderInv'
  BY <1>1, <1>2 DEF OrderInv, ReportId
<1>4. \A id : Stored(id)' <=> Stored(id)
  BY <1>1 DEF Stored
<1>5. SampleInv'
  <2>. SUFFICES ASSUME NEW g \in Hosts, NEW item \in Items
                PROVE  LET sample == last_net_samples[g][item]
                       IN /\ sample # None => sample <= processed' /\ item \in listed'[sample]
                          /\ Belongs(item, sample, last_disk_util[g])'
    BY <1>1 DEF SampleInv
  <2>1. PICK sample \in ReportId : sample = last_net_samples[g][item]
    OBVIOUS
  <2>2. PICK util \in ReportId : util = last_disk_util[g]
    OBVIOUS
  <2>3. /\ sample # None => sample <= processed /\ item \in listed[sample]
        /\ Belongs(item, sample, util)
    BY <1>1, <2>1, <2>2 DEF SampleInv
  <2>4. util # None => util <= processed
    BY <2>2 DEF OrderInv
  <2>5. Belongs(item, sample, util)'
    BY <2>3, <2>4, BelongsKept
  <2>6. Belongs(item, sample, last_disk_util[g])'
    BY <1>1, <2>2, <2>5 DEF Belongs
  <2>7. sample # None => sample \in 1..processed /\ sample <= processed'
    BY <1>1, <2>3, ReportRowsAssumption DEF ReportId
  <2>8. last_net_samples'[g][item] = sample
    BY <1>1, <2>1
  <2>9. sample # None => sample <= processed' /\ item \in listed'[sample]
    BY <1>2, <2>3, <2>7
  <2>. QED  BY <2>1, <2>6, <2>9, <1>1 DEF Belongs
<1>6. GapInv'
  BY <1>1, <1>4 DEF GapInv, Gap
<1>7. RatesAgree'
  <2>1. ASSUME NEW i \in DOMAIN server_performance, NEW j \in DOMAIN server_net_detail,
               server_performance[i].id = server_net_detail[j].id
        PROVE  Belongs(server_net_detail[j].item, server_net_detail[j].base,
                       server_performance[i].util_base)'
    <3>1. PICK util \in ReportId : util = server_performance[i].util_base
      OBVIOUS
    <3>2. PICK base \in ReportId : base = server_net_detail[j].base
      OBVIOUS
    <3>3. PICK item \in Items : item = server_net_detail[j].item
      OBVIOUS
    <3>4. Belongs(item, base, util)
      BY <2>1, <3>1, <3>2, <3>3 DEF RatesAgree
    <3>5. (util # None => util <= processed) /\ (base # None => base <= processed)
      BY <3>1, <3>2 DEF OrderInv, ReportId
    <3>6. Belongs(item, base, util)'
      BY <3>4, <3>5, BelongsKept
    <3>. QED  BY <1>1, <3>1, <3>2, <3>3, <3>6 DEF Belongs
  <2>2. ASSUME NEW i \in DOMAIN server_performance
        PROVE  Gap(server_performance[i].base, server_performance[i].util_base)'
    <3>1. Gap(server_performance[i].base, server_performance[i].util_base)
      BY DEF RatesAgree, Gap
    <3>. QED  BY <1>1, <1>4, <3>1 DEF Gap
  <2>. QED  BY <1>1, <2>1, <2>2 DEF RatesAgree, Gap
<1>. QED  BY <1>3, <1>5, <1>6, <1>7

\* Without a connection only the first sample is replaced, by a report that is stored
\* nowhere.
LEMMA RateNoConnection ==
  ASSUME RowsTypeOK, RateInv, NoConnection
  PROVE  RateInv'
<1>. USE RateTypes DEF RateInv
<1>1. /\ step = "acquiring" /\ step' = "idle"
      /\ UNCHANGED <<processed, last_perf_samples, last_disk_util, last_net_samples,
                     server_performance, server_net_detail, listed>>
  BY DEF NoConnection, tables, samples
<1>2. OrderInv'
  BY <1>1 DEF OrderInv
<1>3. SampleInv'
  BY <1>1 DEF SampleInv, Belongs
<1>4. \A id : Stored(id)' <=> Stored(id)
  BY <1>1 DEF Stored
<1>5. ~Stored(processed)
  BY <1>1 DEF OrderInv, Stored
<1>6. GapInv'
  <2>1. ASSUME NEW h \in Hosts PROVE Gap(last_perf_samples[h], last_disk_util[h])
    <3>1. CASE h = report.server_name
      BY <1>1, <1>5, <3>1 DEF OrderInv, Gap, ReportId
    <3>2. CASE h # report.server_name
      BY <3>2 DEF GapInv
    <3>. QED  BY <3>1, <3>2
  <2>. QED  BY <1>1, <1>4, <2>1 DEF GapInv, Gap
<1>7. RatesAgree'
  BY <1>1, <1>4 DEF RatesAgree, Belongs
<1>. QED  BY <1>2, <1>3, <1>6, <1>7

\* The main row is made from samples that agree.
LEMMA RateInsertMain ==
  ASSUME RowsTypeOK, RateInv, InsertMain
  PROVE  RateInv'
<1>. DEFINE h == report.server_name
<1>. USE RateTypes DEF RateInv
<1>1. /\ step = "acquiring" /\ step' = "details" /\ h \in Hosts
      /\ last_disk_util' = [last_disk_util EXCEPT ![h] = processed]
      /\ UNCHANGED <<processed, report, last_perf_samples, last_net_samples, server_net_detail,
                     listed>>
  BY DEF InsertMain, OrderInv
<1>2. PICK row : row = MainRowOf(report, report.timestamp)
  OBVIOUS
<1>3. row.id = processed /\ row.base = report.base /\ row.util_base = last_disk_util[h]
  BY <1>1, <1>2 DEF MainRowOf, OrderInv
<1>4. /\ DOMAIN server_performance \subseteq DOMAIN server_performance'
      /\ \A i \in DOMAIN server_performance' :
           \/ i \in DOMAIN server_performance /\ server_performance'[i] = server_performance[i]
           \/ server_performance'[i] = row
  <2>1. row \in MainRow /\ server_performance \in Seq(MainRow)
    BY <1>1, <1>2, MainRowType DEF RowsTypeOK
  <2>2. AddRow(server_performance, row, server_performance')
    BY <1>2 DEF InsertMain
  <2>. QED  BY ONLY <2>1, <2>2, AddedRow
<1>5. \A id : Stored(id)' => Stored(id) \/ id = processed
  BY <1>1, <1>3, <1>4 DEF Stored
<1>6. OrderInv'
  BY <1>1, <1>3, <1>4 DEF OrderInv, ReportId
<1>7. SampleInv'
  <2>1. last_disk_util'[h] = processed
    BY <1>1
  <2>2. ASSUME NEW g \in Hosts, NEW item \in Items
        PROVE  LET sample == last_net_samples[g][item]
               IN /\ sample # None => sample <= processed /\ item \in listed[sample]
                  /\ \/ g = h /\ item \in report.left
                     \/ Belongs(item, sample, last_disk_util'[g])
    <3>1. PICK sample \in ReportId : sample = last_net_samples[g][item]
      OBVIOUS
    <3>2. PICK util \in ReportId : util = last_disk_util[g]
      OBVIOUS
    <3>3. /\ sample # None => sample <= processed /\ item \in listed[sample]
          /\ Belongs(item, sample, util)
      BY <1>1, <3>1, <3>2 DEF SampleInv
    <3>4. CASE g # h
      BY <1>1, <3>1, <3>2, <3>3, <3>4
    <3>5. CASE g = h /\ item \notin report.left
      <4>1. item \notin listed[processed]
        BY <1>1, <3>5 DEF OrderInv
      <4>2. util # None => util < processed
        BY <1>1, <3>2 DEF OrderInv
      <4>3. sample \in Nat \cup {None} /\ util \in Nat \cup {None}
        OBVIOUS
      <4>4. Belongs(item, sample, processed)
        BY <3>3, <4>1, <4>2, <4>3, StillBelongs
      <4>. QED  BY <2>1, <3>1, <3>3, <3>5, <4>4
    <3>. QED  BY <3>1, <3>3, <3>4, <3>5
  <2>3. ASSUME NEW item \in report.left, NEW i \in DOMAIN server_performance',
               server_performance'[i].id = processed
        PROVE  Belongs(item, last_net_samples[h][item], server_performance'[i].util_base)
    <3>1. server_performance'[i] = row
      BY <1>1, <1>4, <2>3 DEF OrderInv
    <3>2. item \in Items
      BY <1>1
    <3>. QED  BY <1>1, <1>3, <3>1, <3>2 DEF SampleInv
  <2>. QED  BY <1>1, <2>1, <2>2, <2>3 DEF SampleInv, Belongs
<1>8. ASSUME NEW base \in ReportId, NEW util \in ReportId, Gap(base, util), base # processed
      PROVE  Gap(base, util)'
  BY <1>5, <1>8 DEF Gap
<1>9. GapInv'
  <2>1. ASSUME NEW g \in Hosts PROVE Gap(last_perf_samples[g], last_disk_util[g])'
    <3>1. CASE g = h
      BY <1>1, <3>1 DEF OrderInv, Gap
    <3>2. CASE g # h
      <4>1. last_perf_samples[g] # processed
        BY <1>1, <3>2 DEF OrderInv, ReportId
      <4>2. Gap(last_perf_samples[g], last_disk_util[g])
        BY <3>2 DEF GapInv
      <4>. QED  BY <1>1, <1>8, <3>2, <4>1, <4>2 DEF Gap
    <3>. QED  BY <3>1, <3>2
  <2>. QED  BY <1>1, <2>1 DEF GapInv
<1>10. RatesAgree'
  <2>1. ASSUME NEW i \in DOMAIN server_performance'
        PROVE  Gap(server_performance[i].base, server_performance[i].util_base)'
    <3>1. CASE i \in DOMAIN server_performance /\ server_performance'[i] = server_performance[i]
      <4>1. Gap(server_performance[i].base, server_performance[i].util_base)
        BY <3>1 DEF RatesAgree, Gap
      <4>2. server_performance[i].base # processed
        BY <1>1, <3>1 DEF OrderInv, ReportId
      <4>. QED  BY <1>8, <3>1, <4>1, <4>2 DEF Gap
    <3>2. CASE server_performance'[i] = row
      <4>1. Gap(row.base, row.util_base) /\ row.base # processed
        BY <1>1, <1>3 DEF GapInv, OrderInv, ReportId
      <4>2. row.base \in ReportId /\ row.util_base \in ReportId
        BY <1>1, <1>3
      <4>. QED  BY <1>8, <3>2, <4>1, <4>2 DEF Gap
    <3>. QED  BY <1>4, <3>1, <3>2
  <2>2. ASSUME NEW i \in DOMAIN server_performance', NEW j \in DOMAIN server_net_detail,
               server_performance'[i].id = server_net_detail[j].id
        PROVE  Belongs(server_net_detail[j].item, server_net_detail[j].base,
                       server_performance'[i].util_base)
    <3>1. server_performance'[i] # row
      BY <1>1, <1>3, <2>2 DEF OrderInv
    <3>2. i \in DOMAIN server_performance /\ server_performance'[i] = server_performance[i]
      BY <1>4, <3>1
    <3>. QED  BY <2>2, <3>2 DEF RatesAgree
  <2>. QED  BY <1>1, <2>1, <2>2 DEF RatesAgree, Gap, Belongs
<1>. QED  BY <1>6, <1>7, <1>9, <1>10

\* A detail row is made from the sample that was left for it.
LEMMA RateInsertDetail ==
  ASSUME RowsTypeOK, RateInv, NEW item \in Items, InsertDetail(item)
  PROVE  RateInv'
<1>. DEFINE h == report.server_name
<1>. USE RateTypes DEF RateInv
<1>1. /\ step = "details" /\ step' = "details" /\ h \in Hosts /\ item \in report.left
      /\ last_net_samples' = [last_net_samples EXCEPT ![h][item] = processed]
      /\ UNCHANGED <<processed, last_perf_samples, last_disk_util, server_performance, listed>>
  BY DEF InsertDetail, OrderInv
<1>2. /\ report'.id = report.id /\ report'.server_name = h /\ report'.base = report.base
      /\ report'.left = report.left \ {item}
  BY DEF InsertDetail, RowsTypeOK, Report
<1>3. PICK row : row = DetailRowOf(report, item)
  OBVIOUS
<1>4. row.id = processed /\ row.item = item /\ row.base = last_net_samples[h][item]
  BY <1>1, <1>3 DEF DetailRowOf, OrderInv
<1>5. /\ DOMAIN server_net_detail \subseteq DOMAIN server_net_detail'
      /\ \A j \in DOMAIN server_net_detail' :
           \/ j \in DOMAIN server_net_detail /\ server_net_detail'[j] = server_net_detail[j]
           \/ server_net_detail'[j] = row
  <2>1. row \in DetailRow /\ server_net_detail \in Seq(DetailRow)
    BY <1>1, <1>3, DetailRowType DEF RowsTypeOK
  <2>2. AddRow(server_net_detail, row, server_net_detail')
    BY <1>3 DEF InsertDetail
  <2>. QED  BY ONLY <2>1, <2>2, AddedRow
<1>6. \A id : Stored(id)' => Stored(id) \/ id = processed
  BY <1>1, <1>4, <1>5 DEF Stored
<1>7. OrderInv'
  <2>1. row.base # None => row.base <= processed
    BY <1>1, <1>4 DEF SampleInv
  <2>2. \A j \in DOMAIN server_net_detail' :
          LET d == server_net_detail'[j] IN d.id <= processed /\ (d.base # None => d.base <= processed)
    BY <1>4, <1>5, <2>1 DEF OrderInv
  <2>. QED  BY <1>1, <1>2, <2>2 DEF OrderInv
<1>8. SampleInv'
  <2>1. item \in listed[processed] /\ last_disk_util[h] = processed
    BY <1>1 DEF OrderInv, SampleInv
  <2>2. ASSUME NEW g \in Hosts, NEW it \in Items
        PROVE  LET sample == last_net_samples'[g][it]
               IN /\ sample # None => sample <= processed /\ it \in listed[sample]
                  /\ \/ g = h /\ it \in report.left \ {item}
                     \/ Belongs(it, sample, last_disk_util[g])
    <3>1. CASE g = h /\ it = item
      <4>1. last_net_samples'[g][it] = processed
        BY <1>1, <3>1
      <4>. QED  BY <2>1, <3>1, <4>1 DEF Belongs
    <3>2. CASE ~(g = h /\ it = item)
      <4>1. last_net_samples'[g][it] = last_net_samples[g][it]
        BY <1>1, <3>2
      <4>. QED  BY <3>2, <4>1 DEF SampleInv
    <3>. QED  BY <3>1, <3>2
  <2>3. ASSUME NEW it \in report.left \ {item}, NEW i \in DOMAIN server_performance,
               server_performance[i].id = processed
        PROVE  Belongs(it, last_net_samples'[h][it], server_performance[i].util_base)
    <3>1. it \in Items /\ last_net_samples'[h][it] = last_net_samples[h][it]
      BY <1>1
    <3>. QED  BY <1>1, <2>3, <3>1 DEF SampleInv
  <2>. QED  BY <1>1, <1>2, <2>1, <2>2, <2>3 DEF SampleInv, Belongs
<1>9. ASSUME NEW base \in ReportId, NEW util \in ReportId, Gap(base, util), base # processed
      PROVE  Gap(base, util)'
  BY <1>6, <1>9 DEF Gap
<1>10. GapInv'
  <2>1. ASSUME NEW g \in Hosts PROVE Gap(last_perf_samples[g], last_disk_util[g])'
    <3>1. CASE g = h
      BY <1>1, <3>1 DEF OrderInv, SampleInv, Gap
    <3>2. CASE g # h
      <4>1. last_perf_samples[g] # processed
        BY <1>1, <3>2 DEF OrderInv, ReportId
      <4>2. Gap(last_perf_samples[g], last_disk_util[g])
        BY <1>1 DEF GapInv
      <4>. QED  BY <1>1, <1>9, <4>1, <4>2 DEF Gap
    <3>. QED  BY <3>1, <3>2
  <2>. QED  BY <1>1, <2>1 DEF GapInv
<1>11. RatesAgree'
  <2>1. ASSUME NEW i \in DOMAIN server_performance
        PROVE  Gap(server_performance[i].base, server_performance[i].util_base)'
    <3>1. Gap(server_performance[i].base, server_performance[i].util_base)
      BY DEF RatesAgree, Gap
    <3>2. server_performance[i].base # processed
      BY DEF OrderInv, ReportId
    <3>. QED  BY <1>1, <1>9, <3>1, <3>2 DEF Gap
  <2>2. ASSUME NEW i \in DOMAIN server_performance, NEW j \in DOMAIN server_net_detail',
               server_performance[i].id = server_net_detail'[j].id
        PROVE  Belongs(server_net_detail'[j].item, server_net_detail'[j].base,
                       server_performance[i].util_base)
    <3>1. CASE j \in DOMAIN server_net_detail /\ server_net_detail'[j] = server_net_detail[j]
      BY <2>2, <3>1 DEF RatesAgree
    <3>2. CASE server_net_detail'[j] = row
      BY <1>1, <1>4, <2>2, <3>2 DEF SampleInv
    <3>. QED  BY <1>5, <3>1, <3>2
  <2>. QED  BY <1>1, <2>1, <2>2 DEF RatesAgree, Gap, Belongs
<1>. QED  BY <1>7, <1>8, <1>10, <1>11

\* The connection goes back; a new process starts without samples; no other step touches
\* them.
LEMMA RateOther ==
  ASSUME RowsTypeOK, RateInv, Release \/ Restart \/ UNCHANGED rateVars
  PROVE  RateInv'
<1>. USE RateTypes DEF RateInv
<1>1. CASE Restart
  <2>1. /\ step' = "idle"
        /\ UNCHANGED <<processed, server_performance, server_net_detail, listed>>
        /\ last_perf_samples' = Empty /\ last_disk_util' = Empty
        /\ last_net_samples' = EmptyOfItems
    BY <1>1 DEF Restart, RestartRows, tables
  <2>2. \A id : Stored(id)' <=> Stored(id)
    BY <2>1 DEF Stored
  <2>3. OrderInv'
    BY <2>1 DEF OrderInv, Empty
  <2>4. SampleInv'
    BY <2>1 DEF SampleInv, Belongs, Empty, EmptyOfItems
  <2>5. GapInv'
    BY <2>1 DEF GapInv, Gap, Empty
  <2>6. RatesAgree'
    BY <2>1, <2>2 DEF RatesAgree, Belongs
  <2>. QED  BY <2>3, <2>4, <2>5, <2>6
<1>2. CASE Release
  <2>1. /\ step = "details" /\ report.left = {} /\ step' = "idle"
        /\ UNCHANGED <<processed, last_perf_samples, last_disk_util, last_net_samples,
                       server_performance, server_net_detail, listed>>
    BY <1>2 DEF Release, samples, tables
  <2>2. \A id : Stored(id)' <=> Stored(id)
    BY <2>1 DEF Stored
  <2>3. OrderInv'
    BY <2>1 DEF OrderInv
  <2>4. SampleInv'
    BY <2>1 DEF SampleInv, Belongs
  <2>5. GapInv' /\ RatesAgree'
    BY <2>1, <2>2 DEF GapInv, Gap, RatesAgree, Belongs
  <2>. QED  BY <2>3, <2>4, <2>5
<1>3. CASE UNCHANGED rateVars
  <2>1. UNCHANGED <<processed, step, report, last_perf_samples, last_disk_util, last_net_samples,
                    server_performance, server_net_detail, listed>>
    BY <1>3 DEF rateVars, samples, tables
  <2>2. \A id : Stored(id)' <=> Stored(id)
    BY <2>1 DEF Stored
  <2>3. OrderInv' /\ SampleInv'
    BY <2>1 DEF OrderInv, SampleInv, Belongs
  <2>4. GapInv' /\ RatesAgree'
    BY <2>1, <2>2 DEF GapInv, Gap, RatesAgree, Belongs
  <2>. QED  BY <2>3, <2>4
<1>. QED  BY <1>1, <1>2, <1>3

LEMMA RateStep == RowsTypeOK /\ RateInv /\ [Next]_vars => RateInv'
<1>1. Sweep \/ Tick \/ UNCHANGED rowVars => UNCHANGED rateVars
  BY DEF Sweep, Tick, rowVars, rateVars
<1>. QED
  BY <1>1, Steps, RateOnDataReceived, RateNoConnection, RateInsertMain, RateInsertDetail, RateOther

\* The rates of one report agree on the report they are compared with, however many
\* reports, hosts, refused rows and restarts there are.
THEOREM RatesCorrect == Spec => []RatesAgree
<1>1. Init => RowsTypeOK /\ RateInv
  BY RowsTypeInit, RateInit
<1>2. (RowsTypeOK /\ RateInv) /\ [Next]_vars => (RowsTypeOK /\ RateInv)'
  BY RowsTypeStep, RateStep
<1>3. RateInv => RatesAgree
  BY DEF RateInv
<1>. QED  BY <1>1, <1>2, <1>3, PTL DEF Spec

-----------------------------------------------------------------------------
(* A walk through the pages.                                               *)

Rows == Matching(walk.request)

\* The keys the selected rows are sorted by.
KeysOf(q) == [i \in Matching(q) |-> SortKey(q, i)]
Keys == KeysOf(walk.request)

\* Of rows M with the given keys: no other has the key of i, and how many come before i.
Alone(M, key, i) == \A j \in M \ {i} : key[j] # key[i]
Before(M, key, i) == {j \in M : key[j] > key[i]}
Place(M, key, i) == Cardinality(Before(M, key, i))

\* How many rows the pages before the present one have room for.
Window(w) == (w.page - 1) * w.request.page_size

\* Nothing is missed: a row that was there at the start, and is alone with its key, has been
\* shown or is still to come.
Shown(w, M, key) ==
  /\ w.at_start \subseteq M /\ w.seen \subseteq M
  /\ \A i \in w.at_start :
       Alone(M, key, i) =>
         i \in w.seen \/ (w.step # "over" /\ Place(M, key, i) >= Window(w))

\* The rows that have been shown and will be shown again, unless the walk is over.
Again(w, M, key) ==
  {i \in w.seen : w.step # "over" /\ Place(M, key, i) >= Window(w)}

\* Each row inserted since the start pushes one row back over the edge of the window.
Repeated(w, M, key) ==
  (\A i \in M : Alone(M, key, i)) =>
    w.returned - Cardinality(w.seen) + Cardinality(Again(w, M, key))
      <= Cardinality(M \ w.at_start)

\* If no row has been inserted, just the rows before the window have been shown.
Exact(w, M, key) ==
  M = w.at_start /\ (\A i \in M : Alone(M, key, i)) =>
    /\ w.returned = Cardinality(w.seen)
    /\ w.seen = {i \in M : w.step = "over" \/ Place(M, key, i) < Window(w)}

\* And the total is that of the rows at the start, as long as no row has been inserted.
Kept(w, M, key, total) ==
  /\ w.request.kind # "rank" => Shown(w, M, key) /\ Repeated(w, M, key)
  /\ Exact(w, M, key)
  /\ M = w.at_start /\ w.step # "count" => w.total_count = total

Asked ==
  [kind : {"performance", "anomaly", "net_detail"}, server_name : Hosts \cup {AnyHost},
   range : Ranges, page_size : Nat \ {0}]
  \cup [kind : {"rank"}, page_size : Nat \ {0}]

Walk ==
  [step : {"count", "select", "over"}, page : Nat \ {0}, total_count : Nat, request : Asked,
   at_start : SUBSET Nat, seen : SUBSET Nat, returned : Nat]

\* A walk has its type, and has shown rows of its table.
WalkTypeOK ==
  walk # NoWalk =>
    /\ walk \in Walk
    /\ walk.at_start \subseteq DOMAIN Table(walk.request.kind)
    /\ walk.seen \subseteq DOMAIN Table(walk.request.kind)

\* Every row a query selects gives a record.
NoneSilent(q) ==
  \A i \in Matching(q) : ~(q.kind = "anomaly" /\ server_performance[i].records = 0)

WalkInv ==
  /\ RowsTypeOK /\ WalkTypeOK
  /\ walk # NoWalk /\ conn = "live" /\ NoneSilent(walk.request) =>
       Kept(walk, Rows, Keys, TotalCount(walk.request))

\* How many rows come before one, in a finite set of rows.
LEMMA PlaceType ==
  ASSUME NEW M, IsFiniteSet(M), NEW key, NEW i
  PROVE  /\ IsFiniteSet(Before(M, key, i)) /\ Before(M, key, i) \subseteq M
         /\ Place(M, key, i) \in Nat
<1>1. Before(M, key, i) \subseteq M
  BY DEF Before
<1>2. IsFiniteSet(Before(M, key, i))
  BY <1>1, FS_Subset
<1>. QED  BY <1>1, <1>2, FS_CardinalityType DEF Place

\* A row has one place: of two rows the one with the lower key has more rows before it.
LEMMA PlacesDiffer ==
  ASSUME NEW M, IsFiniteSet(M), NEW key \in [M -> Int],
         NEW i \in M, NEW j \in M, key[i] > key[j]
  PROVE  Place(M, key, i) < Place(M, key, j)
<1>. DEFINE A == Before(M, key, i)
            B == Before(M, key, j)
<1>1. A \subseteq B /\ i \in B /\ i \notin A
  BY DEF Before
<1>2. IsFiniteSet(A) /\ IsFiniteSet(B)
  BY PlaceType
<1>. HIDE DEF A, B
<1>3. Cardinality(A) <= Cardinality(B) /\ Cardinality(A) # Cardinality(B)
  BY <1>1, <1>2, FS_Subset
<1>4. Cardinality(A) \in Nat /\ Cardinality(B) \in Nat
  BY <1>2, FS_CardinalityType
<1>. QED  BY <1>3, <1>4 DEF A, B, Place

\* An inserted row leaves the rows before another as they were, or is one of them.
LEMMA PlaceAfterInsert ==
  ASSUME NEW M, IsFiniteSet(M), NEW key, NEW x, x \notin M, NEW new,
         \A j \in M : new[j] = key[j], NEW i \in M
  PROVE  /\ Place(M \cup {x}, new, i) = Place(M, key, i)
              \/ Place(M \cup {x}, new, i) = Place(M, key, i) + 1
<1>1. CASE new[x] > new[i]
  <2>1. Before(M \cup {x}, new, i) = Before(M, key, i) \cup {x}
    BY <1>1 DEF Before
  <2>2. IsFiniteSet(Before(M, key, i)) /\ x \notin Before(M, key, i)
    BY PlaceType
  <2>. QED  BY <2>1, <2>2, FS_AddElement DEF Place
<1>2. CASE ~(new[x] > new[i])
  <2>1. Before(M \cup {x}, new, i) = Before(M, key, i)
    BY <1>2 DEF Before
  <2>. QED  BY <2>1 DEF Place
<1>. QED  BY <1>1, <1>2

\* ORDER BY ... LIMIT k OFFSET o returns, of the rows that are alone with their key, those
\* at the places o to o + k - 1; a page that is not full is the last.
LEMMA PageOf ==
  ASSUME NEW M, IsFiniteSet(M), NEW key \in [M -> Int],
         NEW o \in Nat, NEW k \in Nat,
         NEW A \in SUBSET M, NEW p \in SUBSET (M \ A),
         Cardinality(A) = Least(o, Cardinality(M)),
         Cardinality(p) = Least(k, Cardinality(M) - Cardinality(A)),
         \A a \in A, b \in M \ A : key[a] >= key[b],
         \A a \in p, b \in M \ (A \cup p) : key[a] >= key[b],
         NEW i \in M
  PROVE  /\ Alone(M, key, i) => (i \in p <=> Place(M, key, i) >= o /\ Place(M, key, i) < o + k)
         /\ Cardinality(p) < k => Place(M, key, i) < o + k
<1>. DEFINE B == Before(M, key, i)
            n == Place(M, key, i)
            m == Cardinality(M)
            a == Cardinality(A)
            c == Cardinality(p)
<1>1. IsFiniteSet(A) /\ IsFiniteSet(p) /\ IsFiniteSet(B) /\ B \subseteq M
  BY FS_Subset, PlaceType
<1>2. n \in Nat /\ m \in Nat /\ a \in Nat /\ c \in Nat /\ n = Cardinality(B)
  BY <1>1, FS_CardinalityType DEF Place
<1>3. IsFiniteSet(A \cup p) /\ Cardinality(A \cup p) = a + c
  <2>1. A \cap p = {}
    OBVIOUS
  <2>2. Cardinality(A \cap p) = 0
    BY <2>1, FS_EmptySet
  <2>3. /\ IsFiniteSet(A \cup p)
        /\ Cardinality(A \cup p) = Cardinality(A) + Cardinality(p) - Cardinality(A \cap p)
    BY <1>1, FS_Union
  <2>. QED  BY <1>2, <2>2, <2>3
<1>4. a <= o /\ a <= m /\ (a = o \/ a = m) /\ c <= k /\ c <= m - a /\ (c = k \/ c = m - a)
  <2>1. a = Least(o, m) /\ c = Least(k, m - a) /\ o \in Nat /\ k \in Nat
    OBVIOUS
  <2>. HIDE DEF m, a, c
  <2>2. a <= o /\ a <= m /\ (a = o \/ a = m)
    BY <1>2, <2>1 DEF Least
  <2>. QED  BY <1>2, <2>1, <2>2 DEF Least
<1>5. a + c = m => A \cup p = M
  BY <1>3, FS_Subset
<1>6. n < m
  <2>1. B \subseteq M \ {i}
    BY <1>1 DEF Before
  <2>2. IsFiniteSet(M \ {i}) /\ Cardinality(M \ {i}) = m - 1
    BY FS_RemoveElement
  <2>3. Cardinality(B) <= m - 1
    BY <2>1, <2>2, FS_Subset
  <2>. QED  BY <1>2, <2>3
<1>. HIDE DEF n, m, a, c
<1>7. ASSUME NEW T, T \subseteq M, IsFiniteSet(T), i \in T, B \subseteq T
      PROVE  n < Cardinality(T)
  <2>1. i \notin B
    BY DEF Before
  <2>2. Cardinality(B) <= Cardinality(T) /\ Cardinality(B) # Cardinality(T)
    BY <1>7, <2>1, FS_Subset
  <2>3. Cardinality(T) \in Nat
    BY <1>7, FS_CardinalityType
  <2>. QED  BY <1>2, <2>2, <2>3
<1>8. i \in A => n < a
  <2>. SUFFICES ASSUME i \in A PROVE n < a
    OBVIOUS
  <2>1. B \subseteq A
    BY DEF Before
  <2>. QED  BY <1>1, <1>7, <2>1 DEF a
<1>9. ASSUME i \in p
      PROVE  n < a + c /\ (Alone(M, key, i) => n >= a)
  <2>1. B \subseteq A \cup p
    BY <1>9 DEF Before
  <2>2. n < a + c
    BY <1>3, <1>7, <1>9, <2>1
  <2>3. ASSUME Alone(M, key, i) PROVE n >= a
    <3>1. A \subseteq B
      BY <1>9, <2>3 DEF Alone, Before
    <3>. QED  BY <1>1, <1>2, <3>1, FS_Subset DEF a
  <2>. QED  BY <2>2, <2>3
<1>10. ASSUME i \notin A \cup p, Alone(M, key, i)
       PROVE  n >= a + c
  <2>1. A \cup p \subseteq B
    BY <1>10 DEF Alone, Before
  <2>2. Cardinality(A \cup p) <= Cardinality(B)
    BY <1>1, <2>1, FS_Subset
  <2>. QED  BY <1>2, <1>3, <2>2
<1>11. ASSUME Alone(M, key, i)
       PROVE  i \in p <=> n >= o /\ n < o + k
  <2>1. CASE i \in A
    BY <1>2, <1>4, <1>8, <2>1
  <2>2. CASE i \in p
    <3>1. a # m
      <4>. SUFFICES ASSUME a = m PROVE FALSE
        OBVIOUS
      <4>1. A = M
        BY FS_Subset DEF a, m
      <4>. QED  BY <2>2, <4>1
    <3>. QED  BY <1>2, <1>4, <1>9, <1>11, <2>2, <3>1
  <2>3. CASE i \notin A \cup p
    <3>1. a + c # m
      BY <1>5, <2>3
    <3>. QED  BY <1>2, <1>4, <1>10, <1>11, <2>3, <3>1
  <2>. QED  BY <2>1, <2>2, <2>3
<1>12. ASSUME c < k
       PROVE  n < o + k
  BY <1>2, <1>4, <1>6, <1>12
<1>. QED  BY <1>11, <1>12 DEF n, c

-----------------------------------------------------------------------------
(* What the steps do to a walk.                                            *)

\* A row is inserted that the walk's statements select.
LEMMA ShownAfterInsert ==
  ASSUME NEW w, NEW M, IsFiniteSet(M), NEW key \in [M -> Int],
         NEW x, x \notin M, NEW new \in [M \cup {x} -> Int], \A j \in M : new[j] = key[j],
         Window(w) \in Int, Shown(w, M, key)
  PROVE  Shown(w, M \cup {x}, new)
<1>1. ASSUME NEW i \in w.at_start, Alone(M \cup {x}, new, i)
      PROVE  i \in w.seen \/ (w.step # "over" /\ Place(M \cup {x}, new, i) >= Window(w))
  <2>1. i \in M
    BY DEF Shown
  <2>2. Alone(M, key, i)
    BY <1>1, <2>1 DEF Alone
  <2>3. i \in w.seen \/ (w.step # "over" /\ Place(M, key, i) >= Window(w))
    BY <2>2 DEF Shown
  <2>4. Place(M \cup {x}, new, i) >= Place(M, key, i) /\ Place(M \cup {x}, new, i) \in Nat
        /\ Place(M, key, i) \in Nat
    <3>1. Place(M, key, i) \in Nat
      BY PlaceType
    <3>. QED  BY <2>1, <3>1, PlaceAfterInsert
  <2>. QED  BY <2>3, <2>4
<1>. QED  BY <1>1 DEF Shown

LEMMA RepeatedAfterInsert ==
  ASSUME NEW w, NEW M, IsFiniteSet(M), NEW key \in [M -> Int],
         NEW x, x \notin M, NEW new \in [M \cup {x} -> Int], \A j \in M : new[j] = key[j],
         Window(w) \in Int, w.returned \in Nat,
         Shown(w, M, key), Repeated(w, M, key)
  PROVE  Repeated(w, M \cup {x}, new)
<1>. SUFFICES ASSUME \A i \in M \cup {x} : Alone(M \cup {x}, new, i)
              PROVE  w.returned - Cardinality(w.seen) + Cardinality(Again(w, M \cup {x}, new))
                       <= Cardinality((M \cup {x}) \ w.at_start)
  BY DEF Repeated
<1>1. \A i \in M : Alone(M, key, i)
  BY DEF Alone
<1>2. w.at_start \subseteq M /\ w.seen \subseteq M /\ IsFiniteSet(w.seen)
  BY FS_Subset DEF Shown
<1>3. \A i \in M : Place(M, key, i) \in Nat
  BY PlaceType
<1>. DEFINE D == Again(w, M, key)
            E == {i \in w.seen : Place(M, key, i) = Window(w) - 1}
            F == Again(w, M \cup {x}, new)
<1>4. F \subseteq D \cup E
  <2>1. ASSUME NEW i \in F PROVE i \in D \cup E
    <3>1. i \in w.seen /\ w.step # "over" /\ Place(M \cup {x}, new, i) >= Window(w) /\ i \in M
      BY <1>2 DEF Again
    <3>2. Place(M, key, i) >= Window(w) \/ Place(M, key, i) = Window(w) - 1
      BY <1>3, <3>1, PlaceAfterInsert
    <3>. QED  BY <3>1, <3>2 DEF Again
  <2>. QED  BY <2>1
<1>5. IsFiniteSet(D) /\ IsFiniteSet(E) /\ IsFiniteSet(F)
  <2>1. D \subseteq w.seen /\ E \subseteq w.seen /\ F \subseteq w.seen
    BY DEF Again
  <2>. QED  BY <1>2, <2>1, FS_Subset
<1>6. Cardinality(E) <= 1
  <2>1. CASE E = {}
    BY <2>1, FS_EmptySet
  <2>2. ASSUME NEW i \in E PROVE Cardinality(E) <= 1
    <3>1. \A j \in E : j = i
      <4>. SUFFICES ASSUME NEW j \in E, j # i PROVE FALSE
        OBVIOUS
      <4>1. i \in M /\ j \in M /\ Place(M, key, i) = Place(M, key, j)
        BY <1>2
      <4>2. key[i] # key[j] /\ key[i] \in Int /\ key[j] \in Int
        BY <1>1, <4>1 DEF Alone
      <4>3. Place(M, key, i) \in Nat /\ Place(M, key, j) \in Nat
        BY <1>3, <4>1
      <4>4. CASE key[i] > key[j]
        BY <4>1, <4>3, <4>4, PlacesDiffer
      <4>5. CASE key[j] > key[i]
        BY <4>1, <4>3, <4>5, PlacesDiffer
      <4>. QED  BY <4>2, <4>4, <4>5
    <3>2. E = {i}
      BY <2>2, <3>1
    <3>3. Cardinality({i}) = 1
      BY FS_Singleton
    <3>. HIDE DEF E
    <3>. QED  BY <3>2, <3>3
  <2>. QED  BY <2>1, <2>2
<1>. HIDE DEF D, E, F
<1>7. Cardinality(F) <= Cardinality(D) + 1
  <2>1. IsFiniteSet(D \cup E) /\ Cardinality(D \cup E) = Cardinality(D) + Cardinality(E) - Cardinality(D \cap E)
    BY <1>5, FS_Union
  <2>2. Cardinality(F) <= Cardinality(D \cup E)
    BY <1>4, <2>1, FS_Subset
  <2>3. IsFiniteSet(D \cap E)
    BY <1>5, FS_Intersection
  <2>4. /\ Cardinality(F) \in Nat /\ Cardinality(D) \in Nat /\ Cardinality(E) \in Nat
        /\ Cardinality(D \cap E) \in Nat
    BY <1>5, <2>3, FS_CardinalityType
  <2>. QED  BY <1>6, <2>1, <2>2, <2>4
<1>8. /\ Cardinality((M \cup {x}) \ w.at_start) = Cardinality(M \ w.at_start) + 1
      /\ Cardinality(M \ w.at_start) \in Nat
  <2>1. (M \cup {x}) \ w.at_start = (M \ w.at_start) \cup {x} /\ x \notin M \ w.at_start
    BY <1>2
  <2>2. IsFiniteSet(M \ w.at_start)
    BY FS_Difference
  <2>. QED  BY <2>1, <2>2, FS_AddElement, FS_CardinalityType
<1>9. w.returned - Cardinality(w.seen) + Cardinality(D) <= Cardinality(M \ w.at_start)
  BY <1>1 DEF Repeated, D
<1>10. Cardinality(w.seen) \in Nat /\ Cardinality(D) \in Nat /\ Cardinality(F) \in Nat
  BY <1>2, <1>5, FS_CardinalityType
<1>. QED  BY <1>7, <1>8, <1>9, <1>10 DEF F

\* A page p has been shown: w2 is the walk after it.
PageShown(w, w2, p, M, key) ==
  /\ w.step = "select" /\ Window(w) \in Nat /\ w.returned \in Nat /\ w.request.page_size \in Nat
  /\ p \subseteq M
  /\ \A i \in M :
       Alone(M, key, i) =>
         (i \in p <=> Place(M, key, i) >= Window(w)
                        /\ Place(M, key, i) < Window(w) + w.request.page_size)
  /\ w2.at_start = w.at_start /\ w2.seen = w.seen \cup p
  /\ w2.returned = w.returned + Cardinality(p)
  /\ \/ w2.step # "over" /\ Window(w2) = Window(w) + w.request.page_size
     \/ w2.step = "over" /\ \A i \in M : Place(M, key, i) < Window(w) + w.request.page_size

LEMMA ShownAfterPage ==
  ASSUME NEW w, NEW w2, NEW p, NEW M, IsFiniteSet(M), NEW key,
         PageShown(w, w2, p, M, key), Shown(w, M, key)
  PROVE  Shown(w2, M, key)
<1>1. ASSUME NEW i \in w2.at_start, Alone(M, key, i)
      PROVE  i \in w2.seen \/ (w2.step # "over" /\ Place(M, key, i) >= Window(w2))
  <2>1. i \in M /\ i \in w.at_start
    BY DEF PageShown, Shown
  <2>2. i \in w.seen \/ Place(M, key, i) >= Window(w)
    BY <1>1, <2>1 DEF Shown
  <2>3. Place(M, key, i) \in Nat /\ Window(w) \in Nat /\ w.request.page_size \in Nat
    BY PlaceType DEF PageShown
  <2>4. CASE i \in w.seen
    BY <2>4 DEF PageShown
  <2>5. CASE Place(M, key, i) >= Window(w) /\ Place(M, key, i) < Window(w) + w.request.page_size
    BY <1>1, <2>1, <2>5 DEF PageShown
  <2>6. CASE Place(M, key, i) >= Window(w) + w.request.page_size
    BY <2>1, <2>3, <2>6 DEF PageShown
  <2>. QED  BY <2>2, <2>3, <2>4, <2>5, <2>6
<1>. QED  BY <1>1 DEF Shown, PageShown

LEMMA RepeatedAfterPage ==
  ASSUME NEW w, NEW w2, NEW p, NEW M, IsFiniteSet(M), NEW key,
         PageShown(w, w2, p, M, key), Shown(w, M, key), Repeated(w, M, key)
  PROVE  Repeated(w2, M, key)
<1>. SUFFICES ASSUME \A i \in M : Alone(M, key, i)
              PROVE  w2.returned - Cardinality(w2.seen) + Cardinality(Again(w2, M, key))
                       <= Cardinality(M \ w2.at_start)
  BY DEF Repeated
<1>. DEFINE D == Again(w, M, key)
            E == Again(w2, M, key)
            B == w.seen \cap p
<1>1. /\ p \subseteq M /\ w.seen \subseteq M
      /\ Window(w) \in Nat /\ w.request.page_size \in Nat /\ w.step = "select"
      /\ \A i \in M : Place(M, key, i) \in Nat
      /\ \A i \in M : i \in p <=> /\ Place(M, key, i) >= Window(w)
                                  /\ Place(M, key, i) < Window(w) + w.request.page_size
  BY PlaceType DEF PageShown, Shown
<1>2. IsFiniteSet(w.seen) /\ IsFiniteSet(p) /\ IsFiniteSet(B) /\ IsFiniteSet(D) /\ IsFiniteSet(E)
  <2>1. IsFiniteSet(w.seen) /\ IsFiniteSet(p)
    BY <1>1, FS_Subset
  <2>2. w2.seen = w.seen \cup p /\ w2.seen \subseteq M
    BY <1>1 DEF PageShown
  <2>3. B \subseteq M /\ D \subseteq M /\ E \subseteq M
    BY <1>1, <2>2 DEF Again
  <2>. QED  BY <2>1, <2>3, FS_Subset
<1>3. B \subseteq D
  BY <1>1 DEF Again
<1>4. E \subseteq D \ B
  <2>1. ASSUME NEW i \in E PROVE i \in D \ B
    <3>1. /\ i \in w.seen \cup p /\ w2.step # "over" /\ i \in M
          /\ Place(M, key, i) >= Window(w) + w.request.page_size
      BY <1>1 DEF Again, PageShown
    <3>2. i \notin p
      BY <1>1, <3>1
    <3>3. Place(M, key, i) >= Window(w)
      BY <1>1, <3>1
    <3>. QED  BY <1>1, <3>1, <3>2, <3>3 DEF Again
  <2>. QED  BY <2>1
<1>5. w2.seen = w.seen \cup p /\ w2.returned = w.returned + Cardinality(p)
      /\ w2.at_start = w.at_start /\ w.returned \in Nat
  BY DEF PageShown
<1>6. w.returned - Cardinality(w.seen) + Cardinality(D) <= Cardinality(M \ w.at_start)
  BY DEF Repeated
<1>. HIDE DEF D, E
<1>7. Cardinality(E) <= Cardinality(D) - Cardinality(B)
  <2>1. IsFiniteSet(D \ B) /\ Cardinality(D \ B) = Cardinality(D) - Cardinality(D \cap B)
    BY <1>2, FS_Difference
  <2>2. D \cap B = B
    BY <1>3
  <2>3. Cardinality(E) <= Cardinality(D \ B)
    BY <1>4, <2>1, FS_Subset
  <2>. QED  BY <2>1, <2>2, <2>3
<1>8. Cardinality(w2.seen) = Cardinality(w.seen) + Cardinality(p) - Cardinality(B)
  BY <1>2, <1>5, FS_Union
<1>9. /\ Cardinality(w.seen) \in Nat /\ Cardinality(p) \in Nat /\ Cardinality(B) \in Nat
      /\ Cardinality(D) \in Nat /\ Cardinality(E) \in Nat /\ Cardinality(M \ w.at_start) \in Nat
  BY <1>2, FS_CardinalityType, FS_Difference
<1>. HIDE DEF B
<1>. QED  BY <1>5, <1>6, <1>7, <1>8, <1>9 DEF E

LEMMA ExactAfterPage ==
  ASSUME NEW w, NEW w2, NEW p, NEW M, IsFiniteSet(M), NEW key,
         PageShown(w, w2, p, M, key), Exact(w, M, key)
  PROVE  Exact(w2, M, key)
<1>. SUFFICES ASSUME M = w2.at_start, \A i \in M : Alone(M, key, i)
              PROVE  /\ w2.returned = Cardinality(w2.seen)
                     /\ w2.seen = {i \in M : w2.step = "over" \/ Place(M, key, i) < Window(w2)}
  BY DEF Exact
<1>1. /\ p \subseteq M
      /\ Window(w) \in Nat /\ w.request.page_size \in Nat /\ w.step = "select"
      /\ \A i \in M : Place(M, key, i) \in Nat
      /\ \A i \in M : i \in p <=> /\ Place(M, key, i) >= Window(w)
                                  /\ Place(M, key, i) < Window(w) + w.request.page_size
      /\ w2.seen = w.seen \cup p /\ w2.returned = w.returned + Cardinality(p)
      /\ M = w.at_start
  BY PlaceType DEF PageShown
<1>2. /\ w.returned = Cardinality(w.seen)
      /\ w.seen = {i \in M : Place(M, key, i) < Window(w)}
  BY <1>1 DEF Exact
<1>3. w2.returned = Cardinality(w2.seen)
  <2>1. w.seen \cap p = {} /\ w.seen \subseteq M
    BY <1>1, <1>2
  <2>2. IsFiniteSet(w.seen) /\ IsFiniteSet(p)
    BY <1>1, <2>1, FS_Subset
  <2>3. Cardinality(w.seen \cap p) = 0
    BY <2>1, FS_EmptySet
  <2>4. Cardinality(w.seen \cup p) = Cardinality(w.seen) + Cardinality(p) - Cardinality(w.seen \cap p)
    BY <2>2, FS_Union
  <2>5. Cardinality(w.seen) \in Nat /\ Cardinality(p) \in Nat
    BY <2>2, FS_CardinalityType
  <2>. QED  BY <1>1, <1>2, <2>3, <2>4, <2>5
<1>4. w.seen \cup p = {i \in M : Place(M, key, i) < Window(w) + w.request.page_size}
  BY <1>1, <1>2
<1>5. \/ w2.step # "over" /\ Window(w2) = Window(w) + w.request.page_size
      \/ w2.step = "over" /\ \A i \in M : Place(M, key, i) < Window(w) + w.request.page_size
  BY DEF PageShown
<1>. QED  BY <1>1, <1>3, <1>4, <1>5

-----------------------------------------------------------------------------
(* What the statements select.                                             *)

\* The rows a query selects are finitely many, of its table, and sorted by numbers.
LEMMA MatchingType ==
  ASSUME RowsTypeOK, NEW q \in Asked
  PROVE  /\ DOMAIN Table(q.kind) \subseteq Nat /\ IsFiniteSet(DOMAIN Table(q.kind))
         /\ Matching(q) \subseteq DOMAIN Table(q.kind) /\ IsFiniteSet(Matching(q))
         /\ KeysOf(q) \in [Matching(q) -> Int]
<1>1. /\ server_performance \in Seq(MainRow) /\ server_net_detail \in Seq(DetailRow)
      /\ q.kind = "rank" => Table(q.kind) = server_performance
  BY DEF RowsTypeOK, Table
<1>2. Table(q.kind) \in Seq(MainRow) \/ Table(q.kind) \in Seq(DetailRow)
  BY <1>1 DEF Table
<1>3. DOMAIN Table(q.kind) = 1..Len(Table(q.kind)) /\ Len(Table(q.kind)) \in Nat
  BY <1>2
<1>4. DOMAIN Table(q.kind) \subseteq Nat /\ IsFiniteSet(DOMAIN Table(q.kind))
  BY <1>3, FS_Interval
<1>5. Matching(q) \subseteq DOMAIN Table(q.kind)
  BY <1>1 DEF Matching, LatestRows
<1>6. IsFiniteSet(Matching(q))
  BY <1>4, <1>5, FS_Subset
<1>7. ASSUME NEW i \in DOMAIN Table(q.kind) PROVE SortKey(q, i) \in Int
  <2>2. CASE q.kind = "rank"
    <3>1. server_performance[i] \in MainRow
      BY <1>1, <2>2
    <3>2. server_performance[i].load \in Nat
      BY <3>1 DEF MainRow
    <3>. QED  BY <1>1, <2>2, <3>2 DEF SortKey
  <2>3. CASE q.kind # "rank"
    <3>1. Table(q.kind)[i] \in MainRow \/ Table(q.kind)[i] \in DetailRow
      BY <1>2
    <3>2. Table(q.kind)[i].timestamp \in Int
      BY <3>1 DEF MainRow, DetailRow
    <3>. QED  BY <2>3, <3>2 DEF SortKey
  <2>. QED  BY <2>2, <2>3
<1>8. KeysOf(q) \in [Matching(q) -> Int]
  BY <1>5, <1>7 DEF KeysOf
<1>. QED  BY <1>4, <1>5, <1>6, <1>8

\* The records of a page are counted; and there are no fewer than rows, if each row gives one.
LEMMA RecordsAtLeast ==
  ASSUME RowsTypeOK, NEW q \in Asked, NEW p \in SUBSET Matching(q)
  PROVE  Records(q, p) \in Nat /\ (NoneSilent(q) => Cardinality(p) <= Records(q, p))
<1>1. IsFiniteSet(p) /\ Cardinality(p) \in Nat
  BY MatchingType, FS_Subset, FS_CardinalityType
<1>2. CASE q.kind # "anomaly"
  BY <1>1, <1>2 DEF Records
<1>3. CASE q.kind = "anomaly"
  <2>. DEFINE Of(i) == {<<i, k>> : k \in 1..server_performance[i].records}
              R == UNION {Of(i) : i \in p}
              F == {<<i, 1>> : i \in p}
  <2>1. \A i \in p : /\ server_performance[i].records \in Nat
                     /\ NoneSilent(q) => server_performance[i].records # 0
    <3>. SUFFICES ASSUME NEW i \in p
                  PROVE  /\ server_performance[i].records \in Nat
                         /\ NoneSilent(q) => server_performance[i].records # 0
      OBVIOUS
    <3>1. i \in DOMAIN server_performance
      BY <1>3 DEF Matching, Table
    <3>2. server_performance[i] \in MainRow
      BY <3>1 DEF RowsTypeOK
    <3>. QED  BY <1>3, <3>2 DEF MainRow, NoneSilent
  <2>2. \A i \in p : IsFiniteSet(Of(i))
    <3>. SUFFICES ASSUME NEW i \in p PROVE IsFiniteSet(Of(i))
      OBVIOUS
    <3>1. IsFiniteSet(1..server_performance[i].records)
      BY <2>1, FS_Interval
    <3>. DEFINE f == [k \in 1..server_performance[i].records |-> <<i, k>>]
    <3>2. f \in Surjection(1..server_performance[i].records, Of(i))
      BY Fun_IsSurj
    <3>. QED  BY <3>1, <3>2, FS_Surjection DEF ExistsSurjection
  <2>3. IsFiniteSet({Of(i) : i \in p})
    <3>. DEFINE f == [i \in p |-> Of(i)]
    <3>1. f \in Surjection(p, {Of(i) : i \in p})
      <4>. HIDE DEF Of
      <4>. QED  BY Fun_IsSurj
    <3>. QED  BY <1>1, <3>1, FS_Surjection DEF ExistsSurjection
  <2>4. IsFiniteSet(R)
    <3>1. \A T \in {Of(i) : i \in p} : IsFiniteSet(T)
      BY <2>2
    <3>. QED  BY <2>3, <3>1, FS_UNION
  <2>5. NoneSilent(q) => F \subseteq R
    <3>1. NoneSilent(q) => \A i \in p : <<i, 1>> \in Of(i)
      BY <2>1
    <3>. QED  BY <3>1
  <2>6. IsFiniteSet(F) /\ Cardinality(F) = Cardinality(p)
    <3>. DEFINE f == [i \in p |-> <<i, 1>>]
    <3>1. f \in Bijection(p, F)
      BY Fun_IsBij
    <3>2. ExistsBijection(p, F)
      BY <3>1 DEF ExistsBijection
    <3>. QED  BY <1>1, <3>2, FS_Bijection
  <2>7. Records(q, p) = Cardinality(R)
    BY <1>3 DEF Records
  <2>. HIDE DEF F, R
  <2>8. Cardinality(R) \in Nat /\ (F \subseteq R => Cardinality(F) <= Cardinality(R))
    BY <2>4, FS_Subset, FS_CardinalityType
  <2>. QED  BY <2>5, <2>6, <2>7, <2>8
<1>. QED  BY <1>2, <1>3

\* A nonempty set of naturals has a least element.
LEMMA LeastExists ==
  ASSUME NEW T \in SUBSET Nat, T # {}
  PROVE  \E k \in T : \A j \in T : k <= j
<1>. DEFINE Less == OpToRel(<, Nat)
<1>1. IsWellFoundedOn(Less, Nat)
  BY NatLessThanWellFounded
<1>2. \A j, k \in Nat : j < k => <<j, k>> \in Less
  BY DEF OpToRel
<1>. HIDE DEF Less
<1>3. PICK k \in T : \A j \in T : <<j, k>> \notin Less
  BY <1>1, WFMin
<1>4. k \in Nat /\ \A j \in T : j \in Nat /\ ~(j < k)
  BY <1>2, <1>3
<1>. QED  BY <1>4

\* Every server with a row has a latest one.
LEMMA LatestRowExists ==
  ASSUME RowsTypeOK, NEW j \in DOMAIN server_performance
  PROVE  \E i \in LatestRows : server_performance[i].server_name = server_performance[j].server_name
<1>. DEFINE Its == {i \in DOMAIN server_performance :
                      server_performance[i].server_name = server_performance[j].server_name}
            key == [i \in Its |-> server_performance[i].timestamp]
            T == {Place(Its, key, i) : i \in Its}
<1>1. key \in [Its -> Int]
  <2>1. \A i \in Its : server_performance[i] \in MainRow
    BY DEF RowsTypeOK
  <2>. QED  BY <2>1 DEF MainRow
<1>2. IsFiniteSet(Its)
  <2>1. server_performance \in Seq(MainRow)
    BY DEF RowsTypeOK
  <2>2. DOMAIN server_performance = 1..Len(server_performance) /\ Len(server_performance) \in Nat
    BY <2>1
  <2>3. IsFiniteSet(DOMAIN server_performance)
    BY <2>2, FS_Interval
  <2>4. Its \subseteq DOMAIN server_performance
    OBVIOUS
  <2>. QED  BY <2>3, <2>4, FS_Subset
<1>3. j \in Its /\ Its \subseteq DOMAIN server_performance
  OBVIOUS
<1>4. \A i \in Its : key[i] = server_performance[i].timestamp
                       /\ server_performance[i].server_name = server_performance[j].server_name
  OBVIOUS
<1>5. \A i \in DOMAIN server_performance :
        server_performance[i].server_name = server_performance[j].server_name => i \in Its
  OBVIOUS
<1>. HIDE DEF Its, key
<1>6. T \in SUBSET Nat /\ T # {}
  <2>1. \A i \in Its : Place(Its, key, i) \in Nat
    BY <1>2, PlaceType
  <2>. QED  BY <1>3, <2>1
<1>7. PICK k \in T : \A a \in T : k <= a
  <2>. HIDE DEF T
  <2>. QED  BY <1>6, LeastExists
<1>8. PICK i \in Its : k = Place(Its, key, i)
  OBVIOUS
<1>9. \A l \in Its : key[l] <= key[i]
  <2>. SUFFICES ASSUME NEW l \in Its, key[l] > key[i] PROVE FALSE
    BY <1>1
  <2>1. Place(Its, key, l) < Place(Its, key, i)
    BY <1>1, <1>2, PlacesDiffer
  <2>2. Place(Its, key, i) <= Place(Its, key, l)
    BY <1>7, <1>8
  <2>3. Place(Its, key, l) \in Nat /\ Place(Its, key, i) \in Nat
    BY <1>2, PlaceType
  <2>. QED  BY <2>1, <2>2, <2>3
<1>10. i \in LatestRows
  BY <1>3, <1>4, <1>5, <1>9 DEF LatestRows
<1>. QED  BY <1>4, <1>10

\* The total is a number.
LEMMA TotalCountType ==
  ASSUME RowsTypeOK, NEW q \in Asked
  PROVE  TotalCount(q) \in Nat
<1>1. CASE q.kind # "rank"
  BY <1>1, MatchingType, FS_CardinalityType DEF TotalCount
<1>2. CASE q.kind = "rank"
  <2>. DEFINE S == DOMAIN server_performance
              N == {server_performance[i].server_name : i \in S}
              f == [i \in S |-> server_performance[i].server_name]
  <2>1. IsFiniteSet(S)
    BY <1>2, MatchingType DEF Table
  <2>2. f \in Surjection(S, N)
    BY Fun_IsSurj
  <2>3. IsFiniteSet(N)
    BY <2>1, <2>2, FS_Surjection
  <2>. QED  BY <1>2, <2>3, FS_CardinalityType DEF TotalCount
<1>. QED  BY <1>1, <1>2

\* It counts the rows that are selected, for a ranking as long as no server has two.
LEMMA TotalCountDistinct ==
  ASSUME RowsTypeOK, NEW q \in Asked,
         q.kind = "rank" =>
           \A i, j \in Matching(q) :
             server_performance[i].server_name = server_performance[j].server_name => i = j
  PROVE  TotalCount(q) = Cardinality(Matching(q))
<1>1. CASE q.kind # "rank"
  BY <1>1 DEF TotalCount
<1>2. CASE q.kind = "rank"
  <2>. DEFINE S == LatestRows
              N == {server_performance[i].server_name : i \in DOMAIN server_performance}
              f == [i \in S |-> server_performance[i].server_name]
  <2>1. Matching(q) = S /\ S \subseteq DOMAIN server_performance
    BY <1>2 DEF Matching, LatestRows
  <2>2. IsFiniteSet(S)
    BY <2>1, MatchingType
  <2>3. f \in [S -> N]
    BY <2>1
  <2>4. \A i, j \in S : f[i] = f[j] => i = j
    BY <1>2, <2>1
  <2>5. \A n \in N : \E i \in S : f[i] = n
    BY LatestRowExists
  <2>6. f \in Bijection(S, N)
    <3>. HIDE DEF f, S, N
    <3>. QED  BY <2>3, <2>4, <2>5, Fun_IsBij
  <2>7. Cardinality(N) = Cardinality(S)
    <3>1. ExistsBijection(S, N)
      BY <2>6 DEF ExistsBijection
    <3>. HIDE DEF S, N
    <3>. QED  BY <2>2, <3>1, FS_Bijection
  <2>. QED  BY <1>2, <2>1, <2>7 DEF TotalCount
<1>. QED  BY <1>1, <1>2

-----------------------------------------------------------------------------
(* What WorkerThread does to the rows a walk selects.                      *)

\* The WHERE clause, but for a ranking, looks at one row at a time.
Selects(q, row) ==
  /\ InRange(row, q.range)
  /\ row.server_name = q.server_name \/ (q.kind = "anomaly" /\ q.server_name = AnyHost)
  /\ q.kind = "anomaly" => row.load > 0

LEMMA MatchingDef ==
  ASSUME NEW q \in Asked, q.kind # "rank"
  PROVE  /\ Matching(q) = {i \in DOMAIN Table(q.kind) : Selects(q, Table(q.kind)[i])}
         /\ KeysOf(q) = [i \in Matching(q) |-> Table(q.kind)[i].timestamp]
         /\ TotalCount(q) = Cardinality(Matching(q))
BY DEF Matching, Selects, KeysOf, SortKey, TotalCount

\* A table gets a row: nothing changes for a query, or one more row is selected.
Unaffected(q) ==
  Matching(q)' = Matching(q) /\ KeysOf(q)' = KeysOf(q) /\ TotalCount(q)' = TotalCount(q)

OneMore(q) ==
  \E x :
    /\ x \notin DOMAIN Table(q.kind) /\ x \in Matching(q)'
    /\ q.kind # "rank" => /\ Matching(q)' = Matching(q) \cup {x}
                          /\ \A j \in Matching(q) : KeysOf(q)'[j] = KeysOf(q)[j]

LEMMA RowAppended ==
  ASSUME NEW q \in Asked, q.kind # "rank", NEW x, x \notin DOMAIN Table(q.kind),
         DOMAIN Table(q.kind)' = DOMAIN Table(q.kind) \cup {x},
         \A i \in DOMAIN Table(q.kind) : Table(q.kind)'[i] = Table(q.kind)[i]
  PROVE  Unaffected(q) \/ OneMore(q)
<1>. DEFINE T == Table(q.kind)
            T2 == Table(q.kind)'
            M2 == {i \in DOMAIN T2 : Selects(q, T2[i])}
<1>1. /\ Matching(q)' = M2 /\ KeysOf(q)' = [i \in M2 |-> T2[i].timestamp]
      /\ TotalCount(q)' = Cardinality(M2)
  BY DEF Matching, Selects, KeysOf, SortKey, TotalCount, Table, InRange
<1>2. /\ Matching(q) = {i \in DOMAIN T : Selects(q, T[i])}
      /\ KeysOf(q) = [i \in Matching(q) |-> T[i].timestamp]
      /\ TotalCount(q) = Cardinality(Matching(q))
  BY MatchingDef
<1>. HIDE DEF T, T2
<1>3. CASE Selects(q, T2[x])
  <2>1. M2 = Matching(q) \cup {x}
    BY <1>2, <1>3 DEF T, T2
  <2>2. \A j \in Matching(q) : KeysOf(q)'[j] = KeysOf(q)[j]
    BY <1>1, <1>2, <2>1 DEF T, T2
  <2>. QED  BY <1>1, <2>1, <2>2 DEF OneMore
<1>4. CASE ~Selects(q, T2[x])
  <2>1. M2 = Matching(q)
    BY <1>2, <1>4 DEF T, T2
  <2>2. KeysOf(q)' = KeysOf(q)
    BY <1>1, <1>2, <2>1 DEF T, T2
  <2>. QED  BY <1>1, <1>2, <2>1, <2>2 DEF Unaffected
<1>. QED  BY <1>3, <1>4

LEMMA TablesUnchanged ==
  ASSUME NEW q \in Asked, Table(q.kind)' = Table(q.kind),
         q.kind = "rank" => server_performance' = server_performance
  PROVE  Unaffected(q)
<1>1. CASE q.kind = "rank"
  BY <1>1 DEF Unaffected, Matching, KeysOf, SortKey, TotalCount, LatestRows, Table
<1>2. CASE q.kind # "rank"
  BY <1>2 DEF Unaffected, Matching, KeysOf, SortKey, TotalCount, InRange, Table
<1>. QED  BY <1>1, <1>2

\* The table gets a row that is not the latest of its server: the clocks were set back.
LEMMA LatestKept ==
  ASSUME RowsTypeOK, NEW x, x \notin DOMAIN server_performance,
         DOMAIN server_performance' = DOMAIN server_performance \cup {x},
         \A i \in DOMAIN server_performance : server_performance'[i] = server_performance[i],
         server_performance'[x].timestamp \in Nat, x \notin LatestRows'
  PROVE  /\ LatestRows' = LatestRows
         /\ \E j \in DOMAIN server_performance :
              server_performance[j].server_name = server_performance'[x].server_name
<1>1. \A i \in DOMAIN server_performance : server_performance[i].timestamp \in Nat
  <2>1. \A i \in DOMAIN server_performance : server_performance[i] \in MainRow
    BY DEF RowsTypeOK
  <2>. QED  BY <2>1 DEF MainRow
<1>2. LatestRows' = {i \in DOMAIN server_performance' :
         \A j \in DOMAIN server_performance' :
           server_performance'[j].server_name = server_performance'[i].server_name =>
             server_performance'[j].timestamp <= server_performance'[i].timestamp}
  BY DEF LatestRows
<1>3. PICK j \in DOMAIN server_performance' :
        /\ server_performance'[j].server_name = server_performance'[x].server_name
        /\ ~(server_performance'[j].timestamp <= server_performance'[x].timestamp)
  BY <1>2
<1>4. j \in DOMAIN server_performance /\ server_performance'[j] = server_performance[j]
  BY <1>3
<1>5. ASSUME NEW i \in LatestRows PROVE i \in LatestRows'
  <2>1. i \in DOMAIN server_performance /\ server_performance'[i] = server_performance[i]
    BY DEF LatestRows
  <2>2. ASSUME NEW l \in DOMAIN server_performance',
               server_performance'[l].server_name = server_performance'[i].server_name
        PROVE  server_performance'[l].timestamp <= server_performance'[i].timestamp
    <3>1. CASE l \in DOMAIN server_performance
      BY <2>1, <2>2, <3>1 DEF LatestRows
    <3>2. CASE l = x
      <4>1. server_performance[j].timestamp <= server_performance[i].timestamp
        BY <1>3, <1>4, <2>1, <2>2, <3>2 DEF LatestRows
      <4>. QED  BY <1>1, <1>3, <1>4, <2>1, <3>2, <4>1
    <3>. QED  BY <3>1, <3>2
  <2>. QED  BY <1>2, <2>1, <2>2
<1>6. ASSUME NEW i \in LatestRows' PROVE i \in LatestRows
  <2>1. i \in DOMAIN server_performance
    BY <1>2
  <2>. QED  BY <1>2, <2>1 DEF LatestRows
<1>. QED  BY <1>3, <1>4, <1>5, <1>6

\* The tables only grow.
LEMMA Grow ==
  ASSUME RowsTypeOK, [Next]_vars
  PROVE  /\ \/ server_performance' = server_performance
            \/ \E row \in MainRow : server_performance' = Append(server_performance, row)
         /\ \/ server_net_detail' = server_net_detail
            \/ \E row : server_net_detail' = Append(server_net_detail, row)
<1>1. CASE InsertMain
  <2>1. MainRowOf(report, report.timestamp) \in MainRow
    BY <1>1, MainRowType DEF InsertMain
  <2>. QED  BY <1>1, <2>1 DEF InsertMain, AddRow
<1>2. CASE \E item \in Items : InsertDetail(item)
  BY <1>2 DEF InsertDetail, AddRow
<1>3. CASE ~InsertMain /\ ~(\E item \in Items : InsertDetail(item))
  BY <1>3, Steps DEF OnDataReceived, NoConnection, Release, Sweep, Tick, Restart, RestartRows,
     rowVars, tables
<1>. QED  BY <1>1, <1>2, <1>3

LEMMA RowsStep ==
  ASSUME RowsTypeOK, [Next]_vars, NEW q \in Asked
  PROVE  /\ Unaffected(q) \/ OneMore(q)
         /\ DOMAIN Table(q.kind) \subseteq DOMAIN Table(q.kind)'
<1>1. CASE Table(q.kind)' = Table(q.kind)
  <2>1. q.kind = "rank" => server_performance' = server_performance
    BY <1>1 DEF Table
  <2>. QED  BY <1>1, <2>1, TablesUnchanged
<1>2. ASSUME NEW row \in MainRow, server_performance' = Append(server_performance, row),
             q.kind # "net_detail"
      PROVE  /\ Unaffected(q) \/ OneMore(q)
             /\ DOMAIN Table(q.kind) \subseteq DOMAIN Table(q.kind)'
  <2>. DEFINE x == Len(server_performance) + 1
  <2>1. server_performance \in Seq(MainRow)
    BY DEF RowsTypeOK
  <2>2. /\ DOMAIN server_performance' = DOMAIN server_performance \cup {x}
        /\ \A i \in DOMAIN server_performance : server_performance'[i] = server_performance[i]
        /\ server_performance'[x] = row
        /\ x \notin DOMAIN server_performance
    BY <1>2, <2>1
  <2>3. Table(q.kind) = server_performance /\ Table(q.kind)' = server_performance'
    BY <1>2 DEF Table
  <2>. HIDE DEF x
  <2>4. CASE q.kind # "rank"
    BY <2>2, <2>3, <2>4, RowAppended
  <2>5. CASE q.kind = "rank" /\ x \in LatestRows'
    <3>1. x \in Matching(q)'
      BY <2>5 DEF Matching
    <3>. QED  BY <2>2, <2>3, <2>5, <3>1 DEF OneMore
  <2>6. CASE q.kind = "rank" /\ x \notin LatestRows'
    <3>1. server_performance'[x].timestamp \in Nat
      BY <2>2 DEF MainRow
    <3>2. /\ LatestRows' = LatestRows
          /\ \E j \in DOMAIN server_performance :
               server_performance[j].server_name = server_performance'[x].server_name
      BY <2>2, <2>6, <3>1, LatestKept
    <3>3. Matching(q)' = LatestRows' /\ Matching(q) = LatestRows
      BY <2>6 DEF Matching
    <3>4. KeysOf(q)' = [i \in LatestRows' |-> -server_performance'[i].load]
      BY <2>6 DEF KeysOf, SortKey, Matching, Table
    <3>5. KeysOf(q) = [i \in LatestRows |-> -server_performance[i].load]
      BY <2>6 DEF KeysOf, SortKey, Matching, Table
    <3>6. \A i \in LatestRows : i \in DOMAIN server_performance
      BY DEF LatestRows
    <3>7. KeysOf(q)' = KeysOf(q)
      BY <2>2, <3>2, <3>4, <3>5, <3>6
    <3>8. /\ TotalCount(q)' = Cardinality({server_performance'[i].server_name :
                                              i \in DOMAIN server_performance'})
          /\ TotalCount(q) = Cardinality({server_performance[i].server_name :
                                              i \in DOMAIN server_performance})
      BY <2>6 DEF TotalCount
    <3>9. {server_performance'[i].server_name : i \in DOMAIN server_performance'} =
            {server_performance[i].server_name : i \in DOMAIN server_performance}
      BY <2>2, <3>2
    <3>. QED  BY <2>2, <2>3, <3>2, <3>3, <3>7, <3>8, <3>9 DEF Unaffected
  <2>. QED  BY <2>4, <2>5, <2>6
<1>3. ASSUME NEW e, server_net_detail' = Append(server_net_detail, e), q.kind = "net_detail"
      PROVE  /\ Unaffected(q) \/ OneMore(q)
             /\ DOMAIN Table(q.kind) \subseteq DOMAIN Table(q.kind)'
  <2>. DEFINE x == Len(server_net_detail) + 1
  <2>1. server_net_detail \in Seq(DetailRow)
    BY DEF RowsTypeOK
  <2>2. /\ DOMAIN server_net_detail' = DOMAIN server_net_detail \cup {x}
        /\ \A i \in DOMAIN server_net_detail : server_net_detail'[i] = server_net_detail[i]
        /\ x \notin DOMAIN server_net_detail
    BY <1>3, <2>1
  <2>3. Table(q.kind) = server_net_detail /\ Table(q.kind)' = server_net_detail'
    BY <1>3 DEF Table
  <2>. HIDE DEF x
  <2>. QED  BY <1>3, <2>2, <2>3, RowAppended
<1>4. Table(q.kind) = (IF q.kind = "net_detail" THEN server_net_detail ELSE server_performance)
      /\ Table(q.kind)' = (IF q.kind = "net_detail" THEN server_net_detail' ELSE server_performance')
  BY DEF Table
<1>. QED  BY <1>1, <1>2, <1>3, <1>4, Grow

\* A row that gives no record goes on giving none, and being selected.
LEMMA SilentBefore ==
  ASSUME RowsTypeOK, [Next]_vars, NEW q \in Asked, NoneSilent(q)'
  PROVE  NoneSilent(q)
<1>1. CASE q.kind # "anomaly"
  BY <1>1 DEF NoneSilent
<1>2. CASE q.kind = "anomaly"
  <2>. SUFFICES ASSUME NEW i \in Matching(q) PROVE server_performance[i].records # 0
    BY DEF NoneSilent
  <2>1. i \in DOMAIN server_performance /\ Selects(q, server_performance[i])
    BY <1>2, MatchingDef DEF Table
  <2>2. i \in DOMAIN server_performance' /\ server_performance'[i] = server_performance[i]
    <3>1. server_performance \in Seq(MainRow)
      BY DEF RowsTypeOK
    <3>. QED  BY <2>1, <3>1, Grow
  <2>3. i \in Matching(q)'
    <3>1. Matching(q)' = {l \in DOMAIN server_performance' : Selects(q, server_performance'[l])}
      BY <1>2 DEF Matching, Selects, Table, InRange
    <3>. QED  BY <2>1, <2>2, <3>1
  <2>4. server_performance'[i].records # 0
    BY <1>2, <2>3 DEF NoneSilent
  <2>. QED  BY <2>2, <2>4
<1>. QED  BY <1>1, <1>2

-----------------------------------------------------------------------------
(* A walk keeps its promise.                                               *)

KeysOK == \A q \in Asked : KeysOf(q) \in [Matching(q) -> Int]

LEMMA KeysTypes == RowsTypeOK => KeysOK
BY MatchingType DEF KeysOK

\* While others run.
LEMMA KeptByOthers ==
  ASSUME RowsTypeOK, RowsTypeOK', WalkTypeOK, [Next]_vars,
         NEW q \in Asked, walk # NoWalk, walk.request = q,
         Kept(walk, Matching(q), KeysOf(q), TotalCount(q))
  PROVE  Kept(walk, Matching(q)', KeysOf(q)', TotalCount(q)')
<1>1. CASE Unaffected(q)
  BY <1>1 DEF Unaffected
<1>2. CASE OneMore(q)
  <2>1. PICK x :
          /\ x \notin DOMAIN Table(q.kind) /\ x \in Matching(q)'
          /\ q.kind # "rank" => /\ Matching(q)' = Matching(q) \cup {x}
                                /\ \A j \in Matching(q) : KeysOf(q)'[j] = KeysOf(q)[j]
    BY <1>2 DEF OneMore
  <2>2. x \notin walk.at_start /\ x \notin Matching(q)
    BY <2>1, MatchingType DEF WalkTypeOK
  <2>3. Matching(q)' # walk.at_start
    BY <2>1, <2>2
  <2>4. ASSUME q.kind # "rank"
        PROVE  Shown(walk, Matching(q)', KeysOf(q)') /\ Repeated(walk, Matching(q)', KeysOf(q)')
    <3>1. IsFiniteSet(Matching(q)) /\ KeysOf(q) \in [Matching(q) -> Int]
      BY MatchingType
    <3>2. KeysOK'
      BY KeysTypes, PTL
    <3>3. KeysOf(q)' \in [Matching(q) \cup {x} -> Int]
      <4>1. KeysOf(q)' \in [Matching(q)' -> Int]
        BY <3>2 DEF KeysOK
      <4>. QED  BY <2>1, <2>4, <4>1
    <3>4. Window(walk) \in Int /\ walk.returned \in Nat
      BY DEF WalkTypeOK, Walk, Window, Asked
    <3>5. Shown(walk, Matching(q), KeysOf(q)) /\ Repeated(walk, Matching(q), KeysOf(q))
      BY <2>4 DEF Kept
    <3>6. \A j \in Matching(q) : KeysOf(q)'[j] = KeysOf(q)[j]
      BY <2>1, <2>4
    <3>7. Shown(walk, Matching(q) \cup {x}, KeysOf(q)')
      BY <2>2, <3>1, <3>3, <3>4, <3>5, <3>6, ShownAfterInsert
    <3>8. Repeated(walk, Matching(q) \cup {x}, KeysOf(q)')
      BY <2>2, <3>1, <3>3, <3>4, <3>5, <3>6, RepeatedAfterInsert
    <3>. QED  BY <2>1, <2>4, <3>7, <3>8
  <2>. QED  BY <2>3, <2>4 DEF Kept, Exact
<1>. QED  BY <1>1, <1>2, RowsStep

\* At the start.
LEMMA KeptByAsk ==
  ASSUME RowsTypeOK, NEW q \in Requests, Ask(q), conn = "live"
  PROVE  /\ walk' \in Walk /\ walk'.request \in Asked
         /\ walk'.at_start = Matching(walk'.request) /\ walk'.seen = {}
         /\ Kept(walk', Matching(walk'.request), KeysOf(walk'.request), TotalCount(walk'.request))
<1>. DEFINE r == [q EXCEPT !.page_size = IF @ < 1 THEN DefaultPageSize ELSE @]
            M == Matching(r)
            key == KeysOf(r)
<1>1. r \in Asked /\ Matching(q) = M
  <2>1. DefaultPageSize \in Nat \ {0} /\ PageSizes \subseteq Nat
    BY QueryManagerAssumption
  <2>2. CASE q \in [kind : {"rank"}, page_size : PageSizes]
    BY <2>1, <2>2 DEF Asked, Matching
  <2>3. CASE q \in [kind : {"performance", "anomaly", "net_detail"},
                    server_name : Hosts \cup {AnyHost}, range : Ranges, page_size : PageSizes]
    BY <2>1, <2>3 DEF Asked, Matching
  <2>. QED  BY <2>2, <2>3 DEF Requests
<1>. HIDE DEF r
<1>2. walk' = [step |-> "count", page |-> 1, total_count |-> 0, request |-> r,
               at_start |-> M, seen |-> {}, returned |-> 0]
  BY <1>1 DEF Ask, r
<1>3. IsFiniteSet(M) /\ M \in SUBSET Nat
  BY <1>1, MatchingType
<1>. HIDE DEF M, key
<1>4. walk' \in Walk
  BY <1>1, <1>2, <1>3 DEF Walk
<1>5. Window(walk') = 0
  BY <1>1, <1>2 DEF Window, Asked
<1>6. \A i : Place(M, key, i) \in Nat
  BY <1>3, PlaceType
<1>7. Shown(walk', M, key)
  BY <1>2, <1>5, <1>6 DEF Shown
<1>8. Repeated(walk', M, key)
  <2>1. Again(walk', M, key) = {} /\ M \ walk'.at_start = {}
    BY <1>2 DEF Again
  <2>2. Cardinality({}) = 0
    BY FS_EmptySet
  <2>. QED  BY <1>2, <2>1, <2>2 DEF Repeated
<1>9. Exact(walk', M, key)
  <2>1. {i \in M : walk'.step = "over" \/ Place(M, key, i) < Window(walk')} = {}
    BY <1>2, <1>5, <1>6
  <2>2. Cardinality({}) = 0
    BY FS_EmptySet
  <2>. QED  BY <1>2, <2>1, <2>2 DEF Exact
<1>10. Kept(walk', M, key, TotalCount(r))
  BY <1>2, <1>7, <1>8, <1>9 DEF Kept
<1>. QED  BY <1>1, <1>2, <1>4, <1>10 DEF M, key

\* When the rows are counted.
LEMMA KeptByCount ==
  ASSUME RowsTypeOK, WalkTypeOK, Count, conn = "live", NEW M, NEW key,
         Kept(walk, M, key, TotalCount(walk.request))
  PROVE  /\ walk' \in Walk /\ walk'.request = walk.request
         /\ walk'.at_start = walk.at_start /\ walk'.seen = walk.seen
         /\ Kept(walk', M, key, TotalCount(walk.request))
<1>1. walk # NoWalk
  BY DEF Count, NoWalk
<1>2. walk \in Walk /\ walk.request \in Asked
  BY <1>1 DEF WalkTypeOK, Walk
<1>3. TotalCount(walk.request) \in Nat
  BY <1>2, TotalCountType
<1>4. walk' = [walk EXCEPT !.step = "select", !.total_count = TotalCount(walk.request)]
  BY DEF Count
<1>5. walk' \in Walk
  BY <1>2, <1>3, <1>4 DEF Walk
<1>6. /\ walk'.request = walk.request /\ walk'.page = walk.page
      /\ walk'.at_start = walk.at_start /\ walk'.seen = walk.seen
      /\ walk'.returned = walk.returned /\ walk'.step = "select" /\ walk.step = "count"
      /\ walk'.total_count = TotalCount(walk.request)
  BY <1>2, <1>4 DEF Walk, Count
<1>7. Window(walk') = Window(walk)
  BY <1>6 DEF Window
<1>8. Shown(walk, M, key) => Shown(walk', M, key)
  BY <1>6, <1>7 DEF Shown
<1>9. Repeated(walk, M, key) => Repeated(walk', M, key)
  <2>1. Again(walk', M, key) = Again(walk, M, key)
    BY <1>6, <1>7 DEF Again
  <2>. QED  BY <1>6, <2>1 DEF Repeated
<1>10. Exact(walk, M, key) => Exact(walk', M, key)
  BY <1>6, <1>7 DEF Exact
<1>. QED  BY <1>5, <1>6, <1>8, <1>9, <1>10 DEF Kept

\* The walk after a page p, of n rows and r records.
Answer(w, p, n, r, k) ==
  [w EXCEPT !.step = IF r < k THEN "over" ELSE "count",
            !.total_count = IF r < k THEN @ ELSE 0,
            !.page = IF r < k THEN @ ELSE @ + 1,
            !.seen = @ \cup p,
            !.returned = @ + n]

\* It is over or at its next page.
LEMMA Answered ==
  ASSUME NEW w \in Walk, NEW p \in SUBSET Nat, NEW n \in Nat, NEW r \in Nat, NEW k \in Nat
  PROVE  LET w2 == Answer(w, p, n, r, k)
         IN /\ w2 \in Walk
            /\ w2.request = w.request /\ w2.at_start = w.at_start /\ w2.seen = w.seen \cup p
            /\ w2.returned = w.returned + n
            /\ r < k => w2.step = "over" /\ w2.page = w.page /\ w2.total_count = w.total_count
            /\ ~(r < k) => w2.step = "count" /\ w2.page = w.page + 1 /\ w2.total_count = 0
<1>0. PICK w2 : w2 = Answer(w, p, n, r, k)
  OBVIOUS
<1>1. PICK seen, returned, page :
        seen = w.seen \cup p /\ returned = w.returned + n /\ page = w.page + 1
  OBVIOUS
<1>2. /\ w.step \in {"count", "select", "over"} /\ w.page \in Nat \ {0} /\ w.total_count \in Nat
      /\ w.request \in Asked /\ w.at_start \in SUBSET Nat /\ w.seen \in SUBSET Nat
      /\ w.returned \in Nat
  BY DEF Walk
<1>3. seen \in SUBSET Nat
  BY <1>1, <1>2
<1>4. returned \in Nat /\ page \in Nat \ {0}
  BY <1>1, <1>2
<1>5. CASE r < k
  <2>1. w2 = [w EXCEPT !.step = "over", !.seen = seen, !.returned = returned]
    BY <1>0, <1>1, <1>5 DEF Walk, Answer
  <2>2. w2 = [step |-> "over", page |-> w.page, total_count |-> w.total_count,
              request |-> w.request, at_start |-> w.at_start, seen |-> seen,
              returned |-> returned]
    BY <2>1 DEF Walk
  <2>3. w2 \in Walk
    BY <1>2, <1>3, <1>4, <2>2 DEF Walk
  <2>. QED  BY <1>0, <1>1, <1>5, <2>2, <2>3
<1>6. CASE ~(r < k)
  <2>1. w2 = [w EXCEPT !.step = "count", !.total_count = 0, !.page = page,
                       !.seen = seen, !.returned = returned]
    BY <1>0, <1>1, <1>6 DEF Walk, Answer
  <2>2. w2 = [step |-> "count", page |-> page, total_count |-> 0,
              request |-> w.request, at_start |-> w.at_start, seen |-> seen,
              returned |-> returned]
    BY <2>1 DEF Walk
  <2>3. w2 \in Walk
    BY <1>2, <1>3, <1>4, <2>2 DEF Walk
  <2>. QED  BY <1>0, <1>1, <1>6, <2>2, <2>3
<1>. QED  BY <1>5, <1>6

LEMMA NextWindow ==
  ASSUME NEW w, NEW w2, NEW k \in Nat, w.page \in Nat, w2.page = w.page + 1,
         w.request.page_size = k, w2.request.page_size = k
  PROVE  Window(w2) = Window(w) + k
<1>1. PICK n : n = w.page
  OBVIOUS
<1>2. Window(w) = (n - 1) * k /\ Window(w2) = (n + 1 - 1) * k
  BY <1>1 DEF Window
<1>3. (n + 1 - 1) * k = (n - 1) * k + k
  BY <1>1
<1>. QED  BY <1>2, <1>3

\* The page that Select shows, and the walk after it.
LEMMA SelectAnswers ==
  ASSUME RowsTypeOK, WalkTypeOK, Select
  PROVE  \E p \in SUBSET Matching(walk.request) :
           LET q == walk.request
               full == ~(Records(q, p) < q.page_size)
           IN /\ conn = "live" => p \in Pages(q, walk.page)
              /\ walk' \in Walk
              /\ walk'.request = q /\ walk'.at_start = walk.at_start
              /\ walk'.seen = walk.seen \cup p
              /\ walk'.returned = walk.returned + Cardinality(p)
              /\ ~full => walk'.step = "over" /\ walk'.page = walk.page
                            /\ walk'.total_count = walk.total_count
              /\ full => walk'.step = "count" /\ walk'.page = walk.page + 1
                           /\ walk'.total_count = 0
<1>1. walk # NoWalk
  BY DEF Select, NoWalk
<1>2. PICK q : q = walk.request
  OBVIOUS
<1>3. walk \in Walk /\ q \in Asked
  BY <1>1, <1>2 DEF WalkTypeOK, Walk
<1>4. PICK k : k = q.page_size
  OBVIOUS
<1>5. PICK p :
        /\ p \in IF conn = "live" THEN Pages(q, walk.page) ELSE {{}}
        /\ walk' = Answer(walk, p, Cardinality(p), Records(q, p), k)
  BY <1>2, <1>4 DEF Select, Answer
<1>6. p \in SUBSET Matching(q)
  BY <1>5 DEF Pages
<1>7. Matching(q) \subseteq Nat /\ IsFiniteSet(Matching(q)) /\ k \in Nat
  BY <1>3, <1>4, MatchingType DEF Asked
<1>8. IsFiniteSet(p) /\ p \in SUBSET Nat
  BY <1>6, <1>7, FS_Subset
<1>9. Records(q, p) \in Nat /\ Cardinality(p) \in Nat
  BY <1>3, <1>6, <1>8, RecordsAtLeast, FS_CardinalityType
<1>10. /\ walk' \in Walk
       /\ walk'.request = walk.request /\ walk'.at_start = walk.at_start
       /\ walk'.seen = walk.seen \cup p /\ walk'.returned = walk.returned + Cardinality(p)
       /\ Records(q, p) < k => walk'.step = "over" /\ walk'.page = walk.page
                               /\ walk'.total_count = walk.total_count
       /\ ~(Records(q, p) < k) => walk'.step = "count" /\ walk'.page = walk.page + 1
                                  /\ walk'.total_count = 0
  <2>1. PICK n, r : n = Cardinality(p) /\ r = Records(q, p)
    OBVIOUS
  <2>2. n \in Nat /\ r \in Nat /\ p \in SUBSET Nat /\ k \in Nat
    BY <1>7, <1>8, <1>9, <2>1
  <2>3. walk' = Answer(walk, p, n, r, k)
    BY <1>5, <2>1
  <2>4. walk \in Walk
    BY <1>3
  <2>5. /\ walk' \in Walk
        /\ walk'.request = walk.request /\ walk'.at_start = walk.at_start
        /\ walk'.seen = walk.seen \cup p /\ walk'.returned = walk.returned + n
        /\ r < k => walk'.step = "over" /\ walk'.page = walk.page
                    /\ walk'.total_count = walk.total_count
        /\ ~(r < k) => walk'.step = "count" /\ walk'.page = walk.page + 1
                       /\ walk'.total_count = 0
    BY <2>2, <2>3, <2>4, Answered
  <2>. QED  BY <2>1, <2>5
<1>. QED  BY <1>2, <1>4, <1>5, <1>6, <1>10

\* When a page is shown.
LEMMA KeptBySelect ==
  ASSUME RowsTypeOK, WalkTypeOK, Select, conn = "live", NoneSilent(walk.request),
         Kept(walk, Rows, Keys, TotalCount(walk.request))
  PROVE  /\ walk' \in Walk /\ walk'.request = walk.request
         /\ walk'.at_start = walk.at_start /\ walk'.seen \subseteq walk.seen \cup Rows
         /\ Kept(walk', Rows, Keys, TotalCount(walk.request))
<1>0. PICK q, M, key, o, k :
        /\ q = walk.request /\ M = Matching(q) /\ key = KeysOf(q)
        /\ o = Window(walk) /\ k = q.page_size
  OBVIOUS
<1>1. walk # NoWalk
  BY DEF Select, NoWalk
<1>2. walk \in Walk /\ q \in Asked
  BY <1>0, <1>1 DEF WalkTypeOK, Walk
<1>3. k \in Nat \ {0} /\ walk.page \in Nat \ {0} /\ walk.returned \in Nat
  BY <1>0, <1>2 DEF Walk, Asked
<1>4. o = (walk.page - 1) * k /\ o \in Nat
  BY <1>0, <1>3 DEF Window
<1>5. /\ M \subseteq Nat /\ IsFiniteSet(M) /\ key \in [M -> Int]
      /\ \A i \in M : key[i] = SortKey(q, i)
  BY <1>0, <1>2, MatchingType DEF KeysOf
<1>6. PICK p \in SUBSET M :
        /\ p \in Pages(q, walk.page)
        /\ walk' \in Walk
        /\ walk'.request = q /\ walk'.at_start = walk.at_start /\ walk'.seen = walk.seen \cup p
        /\ walk'.returned = walk.returned + Cardinality(p)
        /\ Records(q, p) < k => walk'.step = "over" /\ walk'.page = walk.page
                                /\ walk'.total_count = walk.total_count
        /\ ~(Records(q, p) < k) => walk'.step = "count" /\ walk'.page = walk.page + 1
                                   /\ walk'.total_count = 0
  BY <1>0, SelectAnswers
<1>7. p \in SUBSET M /\ \E A \in SUBSET (M \ p) :
        /\ Cardinality(A) = Least(o, Cardinality(M))
        /\ Cardinality(p) = Least(k, Cardinality(M) - Cardinality(A))
        /\ Precedes(q, A, M \ A) /\ Precedes(q, p, M \ (A \cup p))
  BY <1>0, <1>4, <1>6 DEF Pages
<1>8. PICK A \in SUBSET (M \ p) :
        /\ Cardinality(A) = Least(o, Cardinality(M))
        /\ Cardinality(p) = Least(k, Cardinality(M) - Cardinality(A))
        /\ Precedes(q, A, M \ A) /\ Precedes(q, p, M \ (A \cup p))
  BY <1>7
<1>9. Records(q, p) \in Nat /\ Cardinality(p) <= Records(q, p) /\ Cardinality(p) \in Nat
  <2>1. IsFiniteSet(p)
    BY <1>5, <1>7, FS_Subset
  <2>. QED  BY <1>0, <1>2, <1>7, <2>1, RecordsAtLeast, FS_CardinalityType
<1>10. \A i \in M :
         /\ Alone(M, key, i) => (i \in p <=> Place(M, key, i) >= o /\ Place(M, key, i) < o + k)
         /\ Cardinality(p) < k => Place(M, key, i) < o + k
  <2>1. /\ \A a \in A, b \in M \ A : key[a] >= key[b]
        /\ \A a \in p, b \in M \ (A \cup p) : key[a] >= key[b]
    BY <1>5, <1>7, <1>8 DEF Precedes
  <2>2. A \in SUBSET M /\ p \in SUBSET (M \ A) /\ k \in Nat
    BY <1>3, <1>7, <1>8
  <2>3. /\ Cardinality(A) = Least(o, Cardinality(M))
        /\ Cardinality(p) = Least(k, Cardinality(M) - Cardinality(A))
    BY <1>8
  <2>. SUFFICES ASSUME NEW i \in M
                PROVE  /\ Alone(M, key, i) =>
                            (i \in p <=> Place(M, key, i) >= o /\ Place(M, key, i) < o + k)
                       /\ Cardinality(p) < k => Place(M, key, i) < o + k
    OBVIOUS
  <2>4. IsFiniteSet(M) /\ key \in [M -> Int] /\ o \in Nat
    BY <1>4, <1>5
  <2>. QED  BY <2>1, <2>2, <2>3, <2>4, PageOf
<1>11. PageShown(walk, walk', p, M, key)
  <2>1. walk.step = "select" /\ Window(walk) = o /\ walk.request.page_size = k
    BY <1>0 DEF Select
  <2>2. \/ walk'.step # "over" /\ Window(walk') = o + k
        \/ walk'.step = "over" /\ \A i \in M : Place(M, key, i) < o + k
    <3>1. CASE Records(q, p) < k
      <4>1. Cardinality(p) < k
        BY <1>3, <1>9, <3>1
      <4>. QED  BY <1>6, <1>10, <3>1, <4>1
    <3>2. CASE ~(Records(q, p) < k)
      <4>1. walk'.step = "count" /\ walk'.page = walk.page + 1
        BY <1>6, <3>2
      <4>2. walk'.request.page_size = k /\ walk.page \in Nat /\ k \in Nat
        BY <1>0, <1>3, <1>6
      <4>. QED  BY <2>1, <4>1, <4>2, NextWindow
    <3>. QED  BY <3>1, <3>2
  <2>. QED  BY <1>3, <1>4, <1>6, <1>7, <1>10, <2>1, <2>2 DEF PageShown
<1>12. Rows = M /\ Keys = key
  BY <1>0 DEF Rows, Keys
<1>13. q.kind # "rank" => Shown(walk', M, key) /\ Repeated(walk', M, key)
  <2>. SUFFICES ASSUME q.kind # "rank" PROVE Shown(walk', M, key) /\ Repeated(walk', M, key)
    OBVIOUS
  <2>1. Shown(walk, M, key) /\ Repeated(walk, M, key)
    BY <1>0, <1>12 DEF Kept
  <2>. QED  BY <1>5, <1>11, <2>1, ShownAfterPage, RepeatedAfterPage
<1>14. Exact(walk', M, key)
  BY <1>5, <1>11, <1>12, ExactAfterPage DEF Kept
<1>15. M = walk'.at_start /\ walk'.step # "count" => walk'.total_count = TotalCount(q)
  <2>1. M = walk.at_start => walk.total_count = TotalCount(q)
    BY <1>0, <1>12 DEF Kept, Select
  <2>. QED  BY <1>6, <2>1
<1>16. Kept(walk', M, key, TotalCount(q))
  BY <1>6, <1>13, <1>14, <1>15 DEF Kept
<1>. QED  BY <1>0, <1>6, <1>7, <1>12, <1>16

\* A step of the client leaves the rows alone.
LEMMA RowsUnchanged ==
  ASSUME UNCHANGED rowVars, NEW q \in Asked
  PROVE  Unaffected(q) /\ Table(q.kind)' = Table(q.kind)
<1>1. Table(q.kind)' = Table(q.kind) /\ server_performance' = server_performance
  BY DEF rowVars, tables, Table
<1>. QED  BY <1>1, TablesUnchanged

\* The request of the walk, after a step.
LEMMA RequestAfter ==
  ASSUME NEW q, walk'.request = q
  PROVE  /\ Rows' = Matching(q)' /\ Keys' = KeysOf(q)'
         /\ TotalCount(walk.request)' = TotalCount(q)'
         /\ Table(walk.request.kind)' = Table(q.kind)'
<1>1. Rows' = Matching(q)'
  BY DEF Rows, Matching, LatestRows, Table, InRange
<1>2. Table(walk.request.kind)' = Table(q.kind)'
  BY DEF Table
<1>3. Keys' = KeysOf(q)'
  BY DEF Keys, KeysOf, SortKey, Matching, LatestRows, Table, InRange
<1>4. TotalCount(walk.request)' = TotalCount(q)'
  BY DEF TotalCount, Matching, LatestRows, Table, InRange
<1>. QED  BY <1>1, <1>2, <1>3, <1>4

\* The types after each step of the client, whether its connection lives or not.
LEMMA AskType ==
  ASSUME RowsTypeOK, NEW q \in Requests, Ask(q)
  PROVE  /\ walk' \in Walk /\ walk'.seen = {}
         /\ walk'.at_start \subseteq DOMAIN Table(walk'.request.kind)
<1>1. PICK r, at_start, first :
        /\ r = [q EXCEPT !.page_size = IF @ < 1 THEN DefaultPageSize ELSE @]
        /\ at_start = Matching(q) /\ first = IF conn = "null" THEN "over" ELSE "count"
  OBVIOUS
<1>2. r \in Asked /\ Matching(r) = at_start
  <2>1. DefaultPageSize \in Nat \ {0} /\ PageSizes \subseteq Nat
    BY QueryManagerAssumption
  <2>2. CASE q \in [kind : {"rank"}, page_size : PageSizes]
    BY <1>1, <2>1, <2>2 DEF Asked, Matching
  <2>3. CASE q \in [kind : {"performance", "anomaly", "net_detail"},
                    server_name : Hosts \cup {AnyHost}, range : Ranges, page_size : PageSizes]
    BY <1>1, <2>1, <2>3 DEF Asked, Matching
  <2>. QED  BY <2>2, <2>3 DEF Requests
<1>3. walk' = [step |-> first, page |-> 1, total_count |-> 0, request |-> r,
               at_start |-> at_start, seen |-> {}, returned |-> 0]
  BY <1>1 DEF Ask
<1>4. at_start \in SUBSET Nat /\ at_start \subseteq DOMAIN Table(r.kind)
  BY <1>2, MatchingType
<1>5. first \in {"count", "select", "over"}
  BY <1>1
<1>. QED  BY <1>2, <1>3, <1>4, <1>5 DEF Walk

LEMMA CountType ==
  ASSUME RowsTypeOK, WalkTypeOK, Count
  PROVE  /\ walk' \in Walk /\ walk'.request = walk.request
         /\ walk'.at_start = walk.at_start /\ walk'.seen = walk.seen
<1>1. walk # NoWalk
  BY DEF Count, NoWalk
<1>2. walk \in Walk /\ walk.request \in Asked
  BY <1>1 DEF WalkTypeOK, Walk
<1>3. PICK total : total = IF conn = "live" THEN TotalCount(walk.request) ELSE 0
  OBVIOUS
<1>4. total \in Nat
  BY <1>2, <1>3, TotalCountType
<1>5. walk' = [walk EXCEPT !.step = "select", !.total_count = total]
  BY <1>3 DEF Count
<1>. QED  BY <1>2, <1>4, <1>5 DEF Walk

LEMMA SelectType ==
  ASSUME RowsTypeOK, WalkTypeOK, Select
  PROVE  /\ walk' \in Walk /\ walk'.request = walk.request
         /\ walk'.at_start = walk.at_start
         /\ walk'.seen \subseteq walk.seen \cup Matching(walk.request)
BY SelectAnswers

\* The table of a walk is the one it began with, and has its rows.
LEMMA WalkTypeStep ==
  ASSUME RowsTypeOK, WalkTypeOK, [Next]_vars, walk' # NoWalk
  PROVE  /\ walk' \in Walk
         /\ walk'.at_start \subseteq DOMAIN Table(walk'.request.kind)
         /\ walk'.seen \subseteq DOMAIN Table(walk'.request.kind)
<1>1. CASE walk' = walk
  BY <1>1 DEF WalkTypeOK
<1>2. ASSUME NEW q0 \in Requests, Ask(q0)
      PROVE  /\ walk' \in Walk /\ walk'.seen = {}
             /\ walk'.at_start \subseteq DOMAIN Table(walk'.request.kind)
  BY <1>2, AskType
<1>3. CASE Count
  BY <1>3, CountType DEF Count, NoWalk, WalkTypeOK
<1>4. CASE Select
  <2>1. walk # NoWalk /\ walk.request \in Asked
    BY <1>4 DEF Select, NoWalk, WalkTypeOK, Walk
  <2>. QED  BY <1>4, <2>1, SelectType, MatchingType DEF WalkTypeOK
<1>5. CASE Forget \/ Restart
  BY <1>5 DEF Forget, Restart
<1>. QED  BY <1>1, <1>2, <1>3, <1>4, <1>5 DEF Next, vars, queryVars, LoseConnection

LEMMA WalkInit == Init => WalkInv
<1>. SUFFICES ASSUME Init PROVE WalkInv
  OBVIOUS
<1>1. RowsTypeOK
  BY RowsTypeInit
<1>2. WalkTypeOK /\ walk = NoWalk
  BY DEF Init, RowsInit, WalkTypeOK
<1>. QED  BY <1>1, <1>2 DEF WalkInv

\* What a query selects, and a walk's promise about it, after a step.
LEMMA KeptStep ==
  ASSUME WalkInv, [Next]_vars, RowsTypeOK', walk' # NoWalk, conn' = "live", NEW q \in Asked,
         walk'.request = q, NoneSilent(q)'
  PROVE  Kept(walk', Matching(q)', KeysOf(q)', TotalCount(q)')
<1>1. RowsTypeOK /\ WalkTypeOK /\ NoneSilent(q)
  BY SilentBefore DEF WalkInv
<1>2. ASSUME walk # NoWalk, conn = "live", walk.request = q
      PROVE  Kept(walk, Rows, Keys, TotalCount(walk.request))
  BY <1>1, <1>2 DEF WalkInv
<1>3. ASSUME walk' = walk, conn' = conn
      PROVE  Kept(walk', Matching(q)', KeysOf(q)', TotalCount(q)')
  <2>1. Kept(walk, Matching(q), KeysOf(q), TotalCount(q)) /\ walk # NoWalk /\ walk.request = q
    BY <1>2, <1>3 DEF Rows, Keys
  <2>2. Kept(walk, Matching(q)', KeysOf(q)', TotalCount(q)')
    BY <1>1, <2>1, KeptByOthers
  <2>. QED  BY <1>3, <2>2
<1>4. ASSUME Unaffected(q), Kept(walk', Matching(q), KeysOf(q), TotalCount(q))
      PROVE  Kept(walk', Matching(q)', KeysOf(q)', TotalCount(q)')
  BY <1>4 DEF Unaffected
<1>5. ASSUME NEW q0 \in Requests, Ask(q0)
      PROVE  Kept(walk', Matching(q)', KeysOf(q)', TotalCount(q)')
  <2>1. conn = "live" /\ UNCHANGED rowVars
    BY <1>5 DEF Ask
  <2>. QED  BY <1>1, <1>4, <1>5, <2>1, KeptByAsk, RowsUnchanged
<1>6. CASE Count
  <2>1. conn = "live" /\ UNCHANGED rowVars /\ walk # NoWalk
    BY <1>6 DEF Count, NoWalk
  <2>2. walk.request = q
    BY <1>1, <1>6, CountType
  <2>3. Kept(walk', Rows, Keys, TotalCount(walk.request))
    BY <1>1, <1>2, <1>6, <2>1, <2>2, KeptByCount
  <2>. QED  BY <1>4, <2>1, <2>2, <2>3, RowsUnchanged DEF Rows, Keys
<1>7. CASE Select
  <2>1. conn = "live" /\ UNCHANGED rowVars /\ walk # NoWalk
    BY <1>7 DEF Select, NoWalk
  <2>2. walk.request = q
    BY <1>1, <1>7, SelectType
  <2>3. Kept(walk', Rows, Keys, TotalCount(walk.request))
    BY <1>1, <1>2, <1>7, <2>1, <2>2, KeptBySelect
  <2>. QED  BY <1>4, <2>1, <2>2, <2>3, RowsUnchanged DEF Rows, Keys
<1>8. walk' # NoWalk /\ conn' = "live" => ~Forget /\ ~Restart /\ ~LoseConnection
  BY DEF Forget, Restart, LoseConnection
<1>. QED  BY <1>3, <1>5, <1>6, <1>7, <1>8 DEF Next, vars, queryVars

LEMMA WalkStep == WalkInv /\ [Next]_vars => WalkInv'
<1>. SUFFICES ASSUME WalkInv, [Next]_vars PROVE WalkInv'
  OBVIOUS
<1>1. RowsTypeOK /\ WalkTypeOK
  BY DEF WalkInv
<1>2. RowsTypeOK'
  BY <1>1, RowsTypeStep
<1>3. WalkTypeOK'
  <2>. SUFFICES ASSUME walk' # NoWalk
                PROVE  /\ walk' \in Walk
                       /\ walk'.at_start \subseteq DOMAIN Table(walk.request.kind)'
                       /\ walk'.seen \subseteq DOMAIN Table(walk.request.kind)'
    BY DEF WalkTypeOK, Walk, Asked
  <2>1. /\ walk' \in Walk
        /\ walk'.at_start \subseteq DOMAIN Table(walk'.request.kind)
        /\ walk'.seen \subseteq DOMAIN Table(walk'.request.kind)
    BY <1>1, WalkTypeStep
  <2>2. PICK q \in Asked : walk'.request = q
    BY <2>1 DEF Walk
  <2>3. DOMAIN Table(q.kind) \subseteq DOMAIN Table(q.kind)'
    BY <1>1, RowsStep
  <2>4. Table(walk.request.kind)' = Table(q.kind)'
    BY <2>2, RequestAfter
  <2>. QED  BY <2>1, <2>2, <2>3, <2>4
<1>4. ASSUME walk' # NoWalk, conn' = "live", NoneSilent(walk.request)'
      PROVE  Kept(walk', Rows', Keys', TotalCount(walk.request)')
  <2>1. PICK q \in Asked : walk'.request = q
    BY <1>1, <1>4, WalkTypeStep DEF Walk
  <2>2. NoneSilent(q)'
    BY <1>4, <2>1 DEF NoneSilent, Matching, LatestRows, Table, InRange
  <2>3. Kept(walk', Matching(q)', KeysOf(q)', TotalCount(q)')
    BY <1>2, <1>4, <2>1, <2>2, KeptStep
  <2>4. Rows' = Matching(q)' /\ Keys' = KeysOf(q)' /\ TotalCount(walk.request)' = TotalCount(q)'
    BY <2>1, RequestAfter
  <2>. QED  BY <2>3, <2>4
<1>. QED  BY <1>2, <1>3, <1>4 DEF WalkInv, NoWalk

\* Rows that share no key with another are alone among the selected ones.
LEMMA NotTied ==
  ASSUME NEW i \in Rows, ~Tied(i)
  PROVE  Alone(Rows, Keys, i)
BY DEF Rows, Keys, KeysOf, Tied, Alone

\* A walk that is over has shown every row that was there when it began, unless it shares
\* its time stamp or a row gave no record, however many rows WorkerThread has inserted
\* meanwhile and in whatever order the clocks put them.
THEOREM WalkComplete == Spec => []WalkMissesNothing
<1>1. WalkInv => WalkMissesNothing
  <2>. SUFFICES ASSUME WalkInv, WalkedThrough, walk.request.kind # "rank",
                       \A i \in Rows : ~Silent(i), NEW i \in walk.at_start, ~Tied(i)
                PROVE  i \in walk.seen
    BY DEF WalkMissesNothing, Rows
  <2>1. walk # NoWalk /\ conn = "live" /\ walk.step = "over"
    BY DEF WalkedThrough, NoWalk
  <2>2. Shown(walk, Rows, Keys)
    BY <2>1 DEF WalkInv, Kept, NoneSilent, Silent, Rows
  <2>3. Alone(Rows, Keys, i)
    BY <2>2, NotTied DEF Shown
  <2>. QED  BY <2>1, <2>2, <2>3 DEF Shown
<1>. QED  BY <1>1, WalkInit, WalkStep, PTL DEF Spec

\* A walk shows at most one row twice for each row inserted meanwhile; if none was, each
\* row once and as many as the total.
THEOREM WalkExact == Spec => []WalkRepeatsOnlyShifted
<1>1. WalkInv => WalkRepeatsOnlyShifted
  <2>. SUFFICES ASSUME WalkInv, WalkedThrough, \A i \in Rows : ~Tied(i) /\ ~Silent(i)
                PROVE  /\ walk.request.kind # "rank" =>
                            walk.returned - Cardinality(walk.seen)
                              <= Cardinality(Rows \ walk.at_start)
                       /\ Rows = walk.at_start =>
                            /\ walk.seen = walk.at_start
                            /\ walk.returned = Cardinality(walk.seen)
                            /\ walk.total_count = walk.returned
    BY DEF WalkRepeatsOnlyShifted, Rows
  <2>1. walk # NoWalk /\ conn = "live" /\ walk.step = "over"
    BY DEF WalkedThrough, NoWalk
  <2>2. Kept(walk, Rows, Keys, TotalCount(walk.request)) /\ RowsTypeOK
    BY <2>1 DEF WalkInv, NoneSilent, Silent, Rows
  <2>3. \A i \in Rows : Alone(Rows, Keys, i)
    BY NotTied
  <2>4. walk \in Walk /\ walk.request \in Asked /\ walk.returned \in Nat
    BY <2>1 DEF WalkInv, WalkTypeOK, Walk
  <2>5. ASSUME walk.request.kind # "rank"
        PROVE  walk.returned - Cardinality(walk.seen) <= Cardinality(Rows \ walk.at_start)
    <3>1. walk.returned - Cardinality(walk.seen) + Cardinality(Again(walk, Rows, Keys))
            <= Cardinality(Rows \ walk.at_start)
      BY <2>2, <2>3, <2>5 DEF Kept, Repeated
    <3>2. Again(walk, Rows, Keys) = {}
      BY <2>1 DEF Again
    <3>3. Cardinality({}) = 0
      BY FS_EmptySet
    <3>4. Cardinality(walk.seen) \in Nat
      <4>1. walk.seen \subseteq Rows
        BY <2>2, <2>5 DEF Kept, Shown
      <4>2. IsFiniteSet(Rows)
        BY <2>2, <2>4, MatchingType DEF Rows
      <4>. QED  BY <4>1, <4>2, FS_Subset, FS_CardinalityType
    <3>. QED  BY <2>4, <3>1, <3>2, <3>3, <3>4
  <2>6. ASSUME Rows = walk.at_start
        PROVE  /\ walk.seen = walk.at_start /\ walk.returned = Cardinality(walk.seen)
               /\ walk.total_count = walk.returned
    <3>1. /\ walk.returned = Cardinality(walk.seen)
          /\ walk.seen = {i \in Rows : walk.step = "over" \/ Place(Rows, Keys, i) < Window(walk)}
      BY <2>2, <2>3, <2>6 DEF Kept, Exact
    <3>2. walk.seen = Rows
      BY <2>1, <3>1
    <3>3. walk.total_count = TotalCount(walk.request)
      BY <2>1, <2>2, <2>6 DEF Kept
    <3>4. TotalCount(walk.request) = Cardinality(Rows)
      <4>1. ASSUME walk.request.kind = "rank", NEW i \in Rows, NEW j \in Rows,
                   server_performance[i].server_name = server_performance[j].server_name
            PROVE  i = j
        BY <4>1 DEF Tied, Rows
      <4>. QED  BY <2>2, <2>4, <4>1, TotalCountDistinct DEF Rows
    <3>. QED  BY <2>6, <3>1, <3>2, <3>3, <3>4
  <2>. QED  BY <2>5, <2>6
<1>. QED  BY <1>1, WalkInit, WalkStep, PTL DEF Spec
=============================================================================
