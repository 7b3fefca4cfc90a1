---------------------------- MODULE MCQueryManager ----------------------------
EXTENDS QueryManager, TLC

CONSTANTS eth0

\* The clocks are set forward between the seconds 0 and 1 and back before 2: they show
\* 1, 3, 2.
MCShift == [t \in Time |-> CASE t = 0 -> 1 [] t = 1 -> 2 [] OTHER -> 0]

\* Every time that is written, and a range the service refuses.
MCRanges == {[start_time |-> 0, end_time |-> 1], [start_time |-> 1, end_time |-> 0]}

\* The first report has two anomalies, the last one.  The second has none and lists nothing,
\* or it has one that passes the statement's test and not the second.
MCContents ==
  [n \in 1..MaxReports |->
     CASE n = 1 -> {[load |-> 2, records |-> 2, items |-> {eth0}]}
       [] n = 2 -> {[load |-> 0, records |-> 0, items |-> {}],
                    [load |-> 1, records |-> 0, items |-> {eth0}]}
       [] OTHER -> {[load |-> 1, records |-> 1, items |-> {eth0}]}]

Symmetry == Permutations(Hosts)
=============================================================================
