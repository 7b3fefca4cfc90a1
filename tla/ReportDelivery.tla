--------------------------- MODULE ReportDelivery ---------------------------
(***************************************************************************)
(* What the receiving service promises to a worker whose report it has     *)
(* acknowledged: the report is handed to the processing core exactly once, *)
(* in the order the reports were accepted, and the service does not finish *)
(* before every accepted report has been handed over.                      *)
(***************************************************************************)
EXTENDS Naturals, Sequences

CONSTANT Requests        \* the calls workers may make

VARIABLES
  accepted,              \* the accepted reports, in order of acceptance
  handed,                \* how many of them have been processed
  finished               \* the service has ended

vars == <<accepted, handed, finished>>

Accepted == {accepted[i] : i \in DOMAIN accepted}

Init ==
  /\ accepted = <<>>
  /\ handed = 0
  /\ finished = FALSE

Accept(r) ==
  /\ ~finished
  /\ r \notin Accepted
  /\ accepted' = Append(accepted, r)
  /\ UNCHANGED <<handed, finished>>

HandOver ==
  /\ handed < Len(accepted)
  /\ handed' = handed + 1
  /\ UNCHANGED <<accepted, finished>>

Finish ==
  /\ ~finished
  /\ handed = Len(accepted)
  /\ finished' = TRUE
  /\ UNCHANGED <<accepted, handed>>

Next == (\E r \in Requests : Accept(r)) \/ HandOver \/ Finish

Safety == Init /\ [][Next]_vars

Spec == Safety /\ WF_vars(HandOver)
=============================================================================
