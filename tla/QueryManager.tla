----------------------------- MODULE QueryManager -----------------------------
(***************************************************************************)
(* QueryManager and its service beside WorkerThread.  A paged query is two *)
(* statements on conn_, a COUNT and a SELECT with LIMIT and OFFSET, and    *)
(* WorkerThread inserts over other connections at any moment between them. *)
(* mtx_ lets one query at a time run; queries change nothing, so that one  *)
(* client shows what any of them may see: it walks through the pages from  *)
(* the first to the first that is short.  Rows whose sort keys are equal   *)
(* come in any order, another one for each statement.                      *)
(***************************************************************************)
EXTENDS ReportRows, FiniteSets

CONSTANTS
  AnyHost,          \* the empty server_name
  Ranges,           \* the time ranges asked for
  PageSizes,        \* the page sizes asked for, 0 for none given
  DefaultPageSize   \* the size used then: 100

ASSUME QueryManagerAssumption ==
  /\ AnyHost \notin Hosts
  /\ Ranges \subseteq [start_time : Time, end_time : Time]
  /\ PageSizes \subseteq Nat /\ DefaultPageSize \in Nat \ {0}

VARIABLES
  conn,   \* conn_: "live", "dead", or "null" when Init could not connect
  walk    \* the client's walk: its request, where it is, and what it was told

queryVars == <<conn, walk>>
vars == <<rowVars, queryVars>>

NoWalk == [step |-> "idle"]

Init ==
  /\ RowsInit
  /\ conn \in {"live", "null"}
  /\ walk = NoWalk

-----------------------------------------------------------------------------
(* What the statements select, as sets of positions in their table.        *)

Table(kind) == IF kind = "net_detail" THEN server_net_detail ELSE server_performance

InRange(row, range) ==
  FormatTime(range.start_time) <= row.timestamp /\ row.timestamp <= FormatTime(range.end_time)

\* The rows with their server's newest time stamp: several, if they share it.
LatestRows ==
  {i \in DOMAIN server_performance :
     \A j \in DOMAIN server_performance :
       server_performance[j].server_name = server_performance[i].server_name =>
         server_performance[j].timestamp <= server_performance[i].timestamp}

\* The WHERE clause.  Only QueryAnomaly takes the empty name for every server.
Matching(q) ==
  IF q.kind = "rank" THEN LatestRows
  ELSE {i \in DOMAIN Table(q.kind) :
          LET row == Table(q.kind)[i]
          IN /\ InRange(row, q.range)
             /\ \/ row.server_name = q.server_name
                \/ q.kind = "anomaly" /\ q.server_name = AnyHost
             /\ q.kind = "anomaly" => row.load > 0}

\* GetTotalCount.
TotalCount(q) ==
  IF q.kind = "rank"
  THEN Cardinality({server_performance[i].server_name : i \in DOMAIN server_performance})
  ELSE Cardinality(Matching(q))

\* Rows are sorted by falling time stamps, servers by falling scores: the score of a
\* server falls with its load.
SortKey(q, i) == IF q.kind = "rank" THEN -Table(q.kind)[i].load ELSE Table(q.kind)[i].timestamp

\* No row of rest comes before one of first.
Precedes(q, first, rest) == \A i \in first, j \in rest : SortKey(q, i) >= SortKey(q, j)

Least(m, n) == IF m < n THEN m ELSE n

\* Defect for WalkMissesNothing: OFFSET page * page_size.
Pages_FromZero(q, page) ==
  LET rows == Matching(q)
      offset == Least(page * q.page_size, Cardinality(rows))
  IN {p \in SUBSET rows :
        \E above \in SUBSET (rows \ p) :
          /\ Cardinality(above) = offset
          /\ Cardinality(p) = Least(q.page_size, Cardinality(rows) - offset)
          /\ Precedes(q, above, rows \ above)
          /\ Precedes(q, p, rows \ (above \cup p))}

\* The pages ORDER BY ... LIMIT page_size OFFSET (page - 1) * page_size may return.
Pages(q, page) ==
  LET rows == Matching(q)
      offset == Least((page - 1) * q.page_size, Cardinality(rows))
  IN {p \in SUBSET rows :
        \E above \in SUBSET (rows \ p) :
          /\ Cardinality(above) = offset
          /\ Cardinality(p) = Least(q.page_size, Cardinality(rows) - offset)
          /\ Precedes(q, above, rows \ above)
          /\ Precedes(q, p, rows \ (above \cup p))}

\* QueryAnomaly tests every metric of a row once more, in single precision, and makes a
\* record of each that passes, the others make one of a row.
Records(q, p) ==
  IF q.kind = "anomaly"
  THEN Cardinality(UNION {{<<i, k>> : k \in 1..server_performance[i].records} : i \in p})
  ELSE Cardinality(p)

-----------------------------------------------------------------------------
(* The client and its calls.                                               *)

Requests ==
  [kind : {"performance", "anomaly", "net_detail"}, server_name : Hosts \cup {AnyHost},
   range : Ranges, page_size : PageSizes]
  \cup [kind : {"rank"}, page_size : PageSizes]

\* The first call.  The service refuses a range that ends before it starts, and puts the
\* default in place of a page or a size that was not given; the answer of a QueryManager
\* that is not initialized is empty.
Ask(q) ==
  /\ walk = NoWalk
  /\ q.kind # "rank" => q.range.start_time <= q.range.end_time
  /\ walk' = [step |-> IF conn = "null" THEN "over" ELSE "count", page |-> 1, total_count |-> 0,
              request |-> [q EXCEPT !.page_size = IF @ < 1 THEN DefaultPageSize ELSE @],
              at_start |-> Matching(q), seen |-> {}, returned |-> 0]
  /\ UNCHANGED <<rowVars, conn>>

\* Defect for WalkRepeatsOnlyShifted: the total is that of all servers and times.
Count_AllServers ==
  /\ walk.step = "count"
  /\ walk' = [walk EXCEPT !.step = "select",
                          !.total_count = IF conn = "live" THEN Len(Table(walk.request.kind)) ELSE 0]
  /\ UNCHANGED <<rowVars, conn>>

\* SELECT COUNT; when it fails the total is 0, and the query goes on.
Count ==
  /\ walk.step = "count"
  /\ walk' = [walk EXCEPT !.step = "select",
                          !.total_count = IF conn = "live" THEN TotalCount(walk.request) ELSE 0]
  /\ UNCHANGED <<rowVars, conn>>

\* SELECT, and the answer.  A failed one looks like a page without rows.  The client asks
\* for the next page until one has fewer records than it may have.
Select ==
  /\ walk.step = "select"
  /\ \E p \in IF conn = "live" THEN Pages(walk.request, walk.page) ELSE {{}} :
       walk' = [walk EXCEPT
                  !.step = IF Records(walk.request, p) < walk.request.page_size
                           THEN "over" ELSE "count",
                  !.total_count = IF Records(walk.request, p) < walk.request.page_size
                                  THEN @ ELSE 0,
                  !.page = IF Records(walk.request, p) < walk.request.page_size
                           THEN @ ELSE @ + 1,
                  !.seen = @ \cup p,
                  !.returned = @ + Cardinality(p)]
  /\ UNCHANGED <<rowVars, conn>>

Forget ==
  /\ walk.step = "over"
  /\ walk' = NoWalk
  /\ UNCHANGED <<rowVars, conn>>

\* The connection is lost; nothing opens it again.
LoseConnection ==
  /\ conn = "live"
  /\ conn' = "dead"
  /\ UNCHANGED <<rowVars, walk>>

\* The manager starts again, and Init connects or not.
Restart ==
  /\ RestartRows
  /\ conn' \in {"live", "null"}
  /\ walk' = NoWalk

-----------------------------------------------------------------------------
Next ==
  \/ (WorkerThread \/ Sweep \/ Tick) /\ UNCHANGED queryVars
  \/ \E q \in Requests : Ask(q)
  \/ Count \/ Select \/ Forget
  \/ LoseConnection
  \/ Restart

Spec == Init /\ [][Next]_vars

-----------------------------------------------------------------------------
(* Properties.                                                             *)

\* ParseTime leaves tm_isdst 0: it takes the written time for one of standard time.
ParseTime(written) == written

\* The status QueryLatestScore and QueryScoreRank give a row.
Status(row) == IF now - ParseTime(row.timestamp) > StaleAge THEN "OFFLINE" ELSE "ONLINE"

\* The two interfaces agree on who is alive: a server the queries call online has an entry
\* in the score table behind /api/latest, and none older than the row, wherever the sweep,
\* WorkerThread and the query are.  There is one exception: a row written in summer time
\* reads an hour younger, and its server stays online for that hour when it is stale.
\* (Rows of before a restart outlive the score table.)
OnlineIsListed ==
  \A i \in LatestRows :
    LET row == server_performance[i]
    IN row.id > started /\ Status(row) = "ONLINE" =>
         \/ host_scores[row.server_name] # None /\ host_scores[row.server_name] >= row.time
         \/ now - row.time > StaleAge /\ Shift[row.time] > 0

\* A walk that is over, and in which no statement failed.
WalkedThrough == walk.step = "over" /\ conn = "live"

\* Another row has the same sort key, or in a ranking is the same server's.
Tied(i) ==
  \E j \in Matching(walk.request) \ {i} :
    \/ SortKey(walk.request, j) = SortKey(walk.request, i)
    \/ /\ walk.request.kind = "rank"
       /\ server_performance[j].server_name = server_performance[i].server_name

\* QueryAnomaly makes no record of a row it selected.
Silent(i) == walk.request.kind = "anomaly" /\ server_performance[i].records = 0

\* A walk shows every row that was there when it began, however many rows WorkerThread has
\* inserted since, in the order the pages are numbered and up to the first short one;
\* QueryAnomaly's too, whose pages hold more records than rows.  Only rows that share their
\* time stamp with another may be missed; and a row that gives no record makes a page look
\* like the last.  (Ranks change under the client, and promise nothing.)
WalkMissesNothing ==
  WalkedThrough /\ walk.request.kind # "rank" /\ (\A i \in Matching(walk.request) : ~Silent(i)) =>
    \A i \in walk.at_start : Tied(i) \/ i \in walk.seen

\* A walk over rows that share no sort key shows at most one row twice for each row that
\* was inserted meanwhile; if none was, and each gives a record, it shows each row once, as
\* many as every total_count.
WalkRepeatsOnlyShifted ==
  WalkedThrough /\ (\A i \in Matching(walk.request) : ~Tied(i) /\ ~Silent(i)) =>
    LET inserted == Matching(walk.request) \ walk.at_start
    IN /\ walk.request.kind # "rank" =>
            walk.returned - Cardinality(walk.seen) <= Cardinality(inserted)
       /\ Matching(walk.request) = walk.at_start =>
            /\ walk.seen = walk.at_start /\ walk.returned = Cardinality(walk.seen)
            /\ walk.total_count = walk.returned
=============================================================================
