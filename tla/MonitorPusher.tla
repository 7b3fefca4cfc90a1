---------------------------- MODULE MonitorPusher ----------------------------
(***************************************************************************)
(* The worker process: main, which waits for a signal, and the thread of   *)
(* MonitorPusher, which pushes a report to the manager, sleeps Interval    *)
(* times a second, looking at running_ after each, and pushes the next.    *)
(* The call has no deadline; how long it may take is a parameter.          *)
(***************************************************************************)
EXTENDS Naturals

CONSTANTS
  Interval,      \* interval_seconds_: 5 in the code
  MainSleep,     \* the seconds main sleeps before it looks at running again: 10
  MaxCall,       \* the seconds a call takes, at most
  MaxFailures    \* where counting failed calls stops

\* What the constants are assumed to be.
MonitorPusherAssumption ==
  /\ Interval \in Nat \ {0} /\ MainSleep \in Nat \ {0}
  /\ MaxCall \in Nat /\ MaxFailures \in Nat

VARIABLES
  signalled,     \* ~running of main.cpp: the signal handler has run
  main,          \* main: "sleeping", "awake", "joining" or "returned"
  main_slept,    \* the seconds of its present sleep
  pushing,       \* running_
  pusher,        \* PushLoop: "ready", "calling", "sleeping", "awake" or "exited"
  naps,          \* i, the seconds slept since the last push
  call_age,      \* the seconds the present call has taken
  failures       \* how many of the last calls failed in a row

mainVars == <<signalled, main, main_slept>>
loopVars == <<pusher, naps, call_age, failures>>
vars == <<mainVars, pushing, loopVars>>

\* main has called Start.  Neither thread has looked at its flag yet.
Init ==
  /\ signalled = FALSE
  /\ main = "awake" /\ main_slept = 0
  /\ pushing = TRUE
  /\ pusher = "awake"
  /\ naps = Interval
  /\ call_age = 0 /\ failures = 0

-----------------------------------------------------------------------------
(* PushLoop.                                                               *)

\* CollectAll, and the call is sent.
Push ==
  /\ pusher = "ready"
  /\ pusher' = "calling"
  /\ call_age' = 0
  /\ UNCHANGED <<mainVars, pushing, naps, failures>>

PushSucceeds ==
  /\ pusher = "calling"
  /\ pusher' = "awake"
  /\ naps' = 0
  /\ failures' = 0
  /\ UNCHANGED <<mainVars, pushing, call_age>>

\* Defect: a failed push ends the loop.
PushFails_GivesUp ==
  /\ pusher = "calling"
  /\ pusher' = "exited"
  /\ failures' = IF failures = MaxFailures THEN MaxFailures ELSE failures + 1
  /\ UNCHANGED <<mainVars, pushing, naps, call_age>>

\* The report is not sent again: the next one is collected at its own time.
PushFails ==
  /\ pusher = "calling"
  /\ pusher' = "awake"
  /\ naps' = 0
  /\ failures' = IF failures = MaxFailures THEN MaxFailures ELSE failures + 1
  /\ UNCHANGED <<mainVars, pushing, call_age>>

\* Defect: running_ is looked at only after the last of the sleeps.
WakeUp_Uninterrupted ==
  /\ pusher = "awake"
  /\ pusher' = IF naps < Interval THEN "sleeping" ELSE IF pushing THEN "ready" ELSE "exited"
  /\ UNCHANGED <<mainVars, pushing, naps, call_age, failures>>

\* The thread starts, or a push or a sleep has ended: it looks at running_ and leaves,
\* sleeps on, or goes on to push.
WakeUp ==
  /\ pusher = "awake"
  /\ \/ ~pushing /\ pusher' = "exited"
     \/ pushing /\ naps < Interval /\ pusher' = "sleeping"
     \/ pushing /\ naps = Interval /\ pusher' = "ready"
  /\ UNCHANGED <<mainVars, pushing, naps, call_age, failures>>

-----------------------------------------------------------------------------
(* main.                                                                   *)

Signal ==
  /\ ~signalled
  /\ signalled' = TRUE
  /\ UNCHANGED <<main, main_slept, pushing, loopVars>>

\* Defect: Stop joins the thread without clearing running_.
MainWakesUp_JoinOnly ==
  /\ main = "awake"
  /\ main' = IF signalled THEN "joining" ELSE "sleeping"
  /\ main_slept' = 0
  /\ UNCHANGED <<signalled, pushing, loopVars>>

\* main looks at running, and sleeps again or calls Stop, which joins the thread.
MainWakesUp ==
  /\ main = "awake"
  /\ \/ ~signalled /\ main' = "sleeping" /\ UNCHANGED pushing
     \/ signalled /\ main' = "joining" /\ pushing' = FALSE
  /\ main_slept' = 0
  /\ UNCHANGED <<signalled, loopVars>>

MainReturns ==
  /\ main = "joining" /\ pusher = "exited"
  /\ main' = "returned"
  /\ UNCHANGED <<signalled, main_slept, pushing, loopVars>>

-----------------------------------------------------------------------------
\* Some thread has something to do before the second ends.
Due ==
  \/ pusher \in {"ready", "awake"}
  \/ main = "awake"
  \/ main = "joining" /\ pusher = "exited"

\* A second passes.
Tick ==
  /\ ~Due
  /\ pusher = "calling" => call_age < MaxCall
  /\ call_age' = IF pusher = "calling" THEN call_age + 1 ELSE 0
  /\ IF pusher = "sleeping" THEN pusher' = "awake" /\ naps' = naps + 1
                            ELSE UNCHANGED <<pusher, naps>>
  /\ IF main = "sleeping"
       THEN /\ main_slept' = main_slept + 1
            /\ main' = IF main_slept' = MainSleep THEN "awake" ELSE "sleeping"
       ELSE UNCHANGED <<main, main_slept>>
  /\ UNCHANGED <<signalled, pushing, failures>>

Next ==
  \/ Push \/ PushSucceeds \/ PushFails \/ WakeUp
  \/ Signal \/ MainWakesUp \/ MainReturns
  \/ Tick

-----------------------------------------------------------------------------
\* The shape of the state.
TypeOK ==
  /\ signalled \in BOOLEAN /\ pushing \in BOOLEAN
  /\ main \in {"sleeping", "awake", "joining", "returned"}
  /\ main_slept \in 0..MainSleep
  /\ pusher \in {"ready", "calling", "sleeping", "awake", "exited"}
  /\ naps \in 0..Interval
  /\ call_age \in 0..MaxCall
  /\ failures \in 0..MaxFailures
=============================================================================
