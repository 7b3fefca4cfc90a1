------------------------------ MODULE HostScores ------------------------------
(***************************************************************************)
(* The score table of HostManager over time.  WorkerThread enters the hosts *)
(* that report; the ProcessLoop thread sleeps SweepPeriod times a second,  *)
(* looking at running_ after each, and then erases the entries older than  *)
(* StaleAge.  Entries are kept by their age in whole seconds, so that time *)
(* needs no bound.  A thread that is due runs before the next second ends. *)
(***************************************************************************)
EXTENDS Integers

CONSTANTS
  Hosts,         \* the hosts that report
  StaleAge,      \* the age, in seconds, an entry may have: 60 in the code
  SweepPeriod,   \* the seconds ProcessLoop sleeps between two sweeps: 60
  Lag,           \* how long at most a report waits between its time stamp and the table
  MaxSilence,    \* where counting a host's silence stops
  None           \* no entry, no report

ASSUME HostScoresAssumption ==
  /\ StaleAge \in Nat /\ SweepPeriod \in Nat \ {0}
  /\ Lag \in 0..StaleAge
  /\ MaxSilence \in Nat /\ MaxSilence > StaleAge + SweepPeriod
  /\ None \notin Nat /\ None \notin [host : Hosts, age : 0..Lag]

VARIABLES
  host_scores,   \* host_scores_: the age of each host's entry, None if it has none
  scored,        \* the report between OnDataReceived's time stamp and the table
  running,       \* running_
  thread,        \* ProcessLoop's thread: "none", "sleeping", "awake" or "exited"
  slept,         \* i, the seconds it has slept since the last sweep
  stopping,      \* the seconds since Stop was called, None before
  silent         \* history: the seconds since the last report of each host

loop == <<running, thread, slept, stopping>>
vars == <<host_scores, scored, loop, silent>>

Older(age) == IF age = None \/ age = MaxSilence THEN age ELSE age + 1

Init ==
  /\ host_scores = [h \in Hosts |-> None]
  /\ scored = None
  /\ running = FALSE
  /\ thread = "none"
  /\ slept = 0
  /\ stopping = None
  /\ silent = [h \in Hosts |-> None]

Start ==
  /\ thread = "none"
  /\ running' = TRUE
  /\ thread' = "awake"
  /\ UNCHANGED <<host_scores, scored, slept, stopping, silent>>

-----------------------------------------------------------------------------
(* OnDataReceived, on WorkerThread.                                        *)

\* The report is scored and time-stamped.
Score(h) ==
  /\ thread # "none"
  /\ scored = None
  /\ scored' = [host |-> h, age |-> 0]
  /\ UNCHANGED <<host_scores, loop, silent>>

\* The host's entry is replaced, under mtx_.
UpdateEntry ==
  /\ scored # None
  /\ host_scores' = [host_scores EXCEPT ![scored.host] = scored.age]
  /\ silent' = [silent EXCEPT ![scored.host] = scored.age]
  /\ scored' = None
  /\ UNCHANGED loop

-----------------------------------------------------------------------------
(* ProcessLoop.                                                            *)

\* Defect: an entry that is just StaleAge old is erased as well.
Sweep_TooSoon ==
  host_scores' = [h \in Hosts |-> IF host_scores[h] = None \/ host_scores[h] >= StaleAge
                                  THEN None ELSE host_scores[h]]

Sweep ==
  host_scores' = [h \in Hosts |-> IF host_scores[h] = None \/ host_scores[h] > StaleAge
                                  THEN None ELSE host_scores[h]]

\* Defect: running_ is looked at only after the last of the sleeps.
WakeUp_Uninterrupted ==
  /\ thread = "awake"
  /\ \/ /\ slept < SweepPeriod
        /\ thread' = "sleeping"
        /\ UNCHANGED <<host_scores, slept>>
     \/ /\ slept = SweepPeriod /\ ~running
        /\ thread' = "exited"
        /\ UNCHANGED <<host_scores, slept>>
     \/ /\ slept = SweepPeriod /\ running
        /\ Sweep
        /\ slept' = 0
        /\ UNCHANGED thread
  /\ UNCHANGED <<scored, running, stopping, silent>>

\* Defect: the count of the sleeps is not started again.
WakeUp_CountsOn ==
  /\ thread = "awake"
  /\ \/ ~running /\ thread' = "exited" /\ UNCHANGED host_scores
     \/ running /\ slept < SweepPeriod /\ thread' = "sleeping" /\ UNCHANGED host_scores
     \/ running /\ slept >= SweepPeriod /\ thread' = "sleeping" /\ Sweep
  /\ UNCHANGED <<scored, running, slept, stopping, silent>>

\* The thread starts, or a sleep of one second or a sweep has ended: it looks at running_
\* and leaves, sleeps on, or sweeps.
WakeUp ==
  /\ thread = "awake"
  /\ \/ /\ ~running
        /\ thread' = "exited"
        /\ UNCHANGED <<host_scores, slept>>
     \/ /\ running /\ slept < SweepPeriod
        /\ thread' = "sleeping"
        /\ UNCHANGED <<host_scores, slept>>
     \/ /\ running /\ slept = SweepPeriod
        /\ Sweep
        /\ slept' = 0
        /\ UNCHANGED thread
  /\ UNCHANGED <<scored, running, stopping, silent>>

\* Defect: Stop joins the thread without clearing running_.
Stop_JoinOnly ==
  /\ running /\ stopping = None
  /\ stopping' = 0
  /\ UNCHANGED <<host_scores, scored, running, thread, slept, silent>>

\* Stop clears running_ and joins the thread.
Stop ==
  /\ running
  /\ running' = FALSE
  /\ stopping' = 0
  /\ UNCHANGED <<host_scores, scored, thread, slept, silent>>

-----------------------------------------------------------------------------
\* A second passes.  No thread is due, and the table's owner is not held up.
Tick ==
  /\ thread # "awake"
  /\ scored # None => scored.age < Lag
  /\ host_scores' = [h \in Hosts |-> Older(host_scores[h])]
  /\ silent' = [h \in Hosts |-> Older(silent[h])]
  /\ scored' = IF scored = None THEN None ELSE [scored EXCEPT !.age = @ + 1]
  /\ IF thread = "sleeping" THEN thread' = "awake" /\ slept' = slept + 1
                            ELSE UNCHANGED <<thread, slept>>
  /\ stopping' = Older(stopping)
  /\ UNCHANGED running

Next ==
  \/ Start
  \/ \E h \in Hosts : Score(h)
  \/ UpdateEntry
  \/ WakeUp
  \/ Stop
  \/ Tick

\* Time passes, and the threads run.
Fairness == WF_vars(Tick) /\ WF_vars(WakeUp) /\ WF_vars(UpdateEntry)

Spec == Init /\ [][Next]_vars /\ Fairness

-----------------------------------------------------------------------------
(* Properties.                                                             *)

Age == 0..MaxSilence \cup {None}

\* The shape of the state.
TypeOK ==
  /\ host_scores \in [Hosts -> Age] /\ silent \in [Hosts -> Age]
  /\ scored \in [host : Hosts, age : 0..Lag] \cup {None}
  /\ running \in BOOLEAN
  /\ thread \in {"none", "sleeping", "awake", "exited"}
  /\ slept \in 0..SweepPeriod
  /\ stopping \in Age

\* A host is listed as long as its last report is no older than StaleAge, wherever the
\* sweeps fall between its reports, and is listed no longer once it has been silent for
\* StaleAge and a whole period between two sweeps.
ListsTheLivingOnly ==
  \A h \in Hosts : silent[h] # None =>
    /\ silent[h] <= StaleAge => host_scores[h] = silent[h]
    /\ silent[h] > StaleAge + SweepPeriod /\ running => host_scores[h] = None

\* The comment at host_manager.cpp:214: the thread answers Stop within a second, in
\* whatever part of its round Stop finds it.
StopsWithinASecond ==
  stopping # None /\ stopping > 1 => thread = "exited"

\* Stop, which joins the thread, returns.
StopReturns == stopping # None ~> thread = "exited"
=============================================================================
