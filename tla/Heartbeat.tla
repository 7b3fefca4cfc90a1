------------------------------ MODULE Heartbeat ------------------------------
(***************************************************************************)
(* A worker and the manager's score table, in common time: the worker      *)
(* pushes a report every Interval seconds (MonitorPusher), and the manager *)
(* lists it until the sweep of ProcessLoop finds its last report too old   *)
(* (HostScores).  Between them the call hands the report to the receiving  *)
(* service, whose queue gives it to OnDataReceived when WorkerThread gets  *)
(* to it, after whatever time the reports before it and their writes to    *)
(* the database take: only then is it time-stamped.                        *)
(***************************************************************************)
EXTENDS Integers, Sequences

CONSTANTS Worker, StaleAge, SweepPeriod, Lag, MaxSilence, None,
          Interval, MainSleep, MaxCall, MaxFailures,
          MaxDelay,      \* how long after its call a report may reach the table without
                         \* endangering the worker's place on the list
          MaxQueue       \* bound on the reports that wait: the code's queue has none

VARIABLES
  host_scores, scored, running, thread, slept, stopping, silent,   \* of HostScores
  signalled, main, main_slept, pushing, pusher, naps, call_age, failures,
                                                              \* of MonitorPusher
  report,        \* the report of the present call: "none", "sent" or "received"
  waiting,       \* the reports that are not in the table yet, each as the seconds since it
                 \* came: the one OnDataReceived has stamped, then those of task_queue_
  since_signal   \* history: the seconds since the worker's signal, None before

Scores == INSTANCE HostScores WITH Hosts <- {Worker}
Pusher == INSTANCE MonitorPusher

scoreVars == <<host_scores, scored, running, thread, slept, stopping, silent>>
pusherVars == <<signalled, main, main_slept, pushing, pusher, naps, call_age, failures>>
vars == <<scoreVars, pusherVars, report, waiting, since_signal>>

\* The seconds between the coming of two reports to the manager's service, at most,
\* with MaxFailures calls between them that do not get through.
MaxGap == (MaxFailures + 1) * (Interval + MaxCall) + MaxCall

ASSUME HeartbeatAssumption ==
  /\ Scores!HostScoresAssumption /\ Pusher!MonitorPusherAssumption
  /\ MaxDelay \in Nat /\ MaxGap + MaxDelay <= StaleAge
  /\ MaxQueue \in Nat \ {0}
  /\ MainSleep + MaxCall + 2 <= MaxSilence

Init ==
  /\ Scores!Init /\ Pusher!Init
  /\ report = "none"
  /\ waiting = <<>>
  /\ since_signal = None

\* A second more, as far as it matters.
Longer(wait) == IF wait > MaxDelay THEN wait ELSE wait + 1

-----------------------------------------------------------------------------
\* The manager starts or stops, or its sweep thread runs.
Manager ==
  /\ Scores!Start \/ Scores!Stop \/ Scores!WakeUp
  /\ UNCHANGED <<pusherVars, report, waiting, since_signal>>

\* SetMonitorInfo puts the worker's report in the queue.  By the time main stops the
\* HostManager its server takes no more calls.
Receive ==
  /\ report = "sent" /\ running
  /\ Len(waiting) < MaxQueue
  /\ waiting' = Append(waiting, 0)
  /\ report' = "received"
  /\ UNCHANGED <<scoreVars, pusherVars, since_signal>>

\* WorkerThread takes the next report and calls OnDataReceived, which stamps it.
Stamp ==
  /\ waiting # <<>>
  /\ Scores!Score(Worker)
  /\ UNCHANGED <<pusherVars, report, waiting, since_signal>>

UpdateEntry ==
  /\ Scores!UpdateEntry
  /\ waiting' = Tail(waiting)
  /\ UNCHANGED <<pusherVars, report, since_signal>>

\* A call fails if the manager is not there, or if the report or its answer is lost,
\* which it is for MaxFailures calls in a row at most.
EndCall ==
  /\ \/ report = "received" /\ Pusher!PushSucceeds
     \/ ~running /\ Pusher!PushFails
     \/ failures < MaxFailures /\ Pusher!PushFails
  /\ report' = "none"
  /\ UNCHANGED <<scoreVars, waiting, since_signal>>

Push ==
  /\ Pusher!Push
  /\ report' = "sent"
  /\ UNCHANGED <<scoreVars, waiting, since_signal>>

Signal ==
  /\ Pusher!Signal
  /\ since_signal' = 0
  /\ UNCHANGED <<scoreVars, report, waiting>>

PushLoop ==
  /\ Pusher!WakeUp \/ Pusher!MainWakesUp \/ Pusher!MainReturns
  /\ UNCHANGED <<scoreVars, report, waiting, since_signal>>

Tick ==
  /\ Scores!Tick /\ Pusher!Tick
  /\ waiting' = [i \in 1..Len(waiting) |-> Longer(waiting[i])]
  /\ since_signal' = IF main = "returned" THEN since_signal ELSE Scores!Older(since_signal)
  /\ UNCHANGED report

Next ==
  \/ Manager \/ Receive \/ Stamp \/ UpdateEntry
  \/ Push \/ EndCall \/ Signal \/ PushLoop
  \/ Tick

\* Time passes: the threads run when they are due, and calls end in time.  That WorkerThread
\* goes on matters to MaxQueue alone: the code's queue takes a call's report at any length.
Fairness ==
  /\ WF_vars(Tick) /\ WF_vars(Manager /\ thread = "awake")
  /\ WF_vars(Stamp) /\ WF_vars(UpdateEntry)
  /\ WF_vars(Receive) /\ WF_vars(EndCall) /\ WF_vars(Push) /\ WF_vars(PushLoop)

Spec == Init /\ [][Next]_vars /\ Fairness

-----------------------------------------------------------------------------
(* Properties.                                                             *)

\* No report has been waiting for longer than MaxDelay.
InTime == waiting = <<>> \/ Head(waiting) <= MaxDelay

\* A worker that runs, with at most MaxFailures calls failing in a row, is on the manager's
\* list whenever the service has not let a report wait for longer than MaxDelay: Interval
\* and StaleAge leave room for the calls' time, that wait, and any position of the sweep.
\* Nothing keeps the wait that short; a worker dropped for it is back when the queue is.
StaysListed ==
  ~signalled /\ InTime /\ silent[Worker] # None => host_scores[Worker] # None

\* The worker's main returns within the rest of its own sleep, the time of a call, and a
\* second of the pushing thread's sleep, counted from the signal.
WorkerReturnsInTime ==
  main # "returned" /\ since_signal # None => since_signal <= MainSleep + MaxCall + 1

\* The worker's main returns after a signal: time does pass, and every call and sleep ends.
WorkerReturns == signalled ~> main = "returned"
=============================================================================
