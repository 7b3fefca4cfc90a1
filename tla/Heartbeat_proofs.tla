-------------------------- MODULE Heartbeat_proofs --------------------------
(***************************************************************************)
(* What holds between a worker and the manager's table for any interval,   *)
(* age and period, any number of failing calls, and any wait in the        *)
(* service's queue, that leave room for each other (HeartbeatAssumption).  *)
(*                                                                         *)
(* The sweep's part was proved of HostScores and is taken from there.      *)
(* What has to be found is how old the table's time stamp can get: as old  *)
(* as the next report that waits, and the gap before it, or as the calls   *)
(* that failed since and the pushing thread's position allow.              *)
(***************************************************************************)
EXTENDS Heartbeat, TLAPS

Sweeping == INSTANCE HostScores_proofs WITH Hosts <- {Worker}

Cycle == Interval + MaxCall

\* How long ago the last report may have come, from the calls that failed since and the
\* position of the pushing thread.
MaxAge ==
  IF pusher = "calling"
  THEN IF report = "received" THEN call_age
       ELSE MaxCall + failures * Cycle + Interval + call_age
  ELSE MaxCall + failures * Cycle + naps

\* A stamp of this age is recent enough for one whose report was followed by the report at
\* place i of the queue, or by none.
Within(age, i) ==
  IF i > Len(waiting) THEN age <= MaxAge
  ELSE waiting[i] <= MaxDelay => age <= waiting[i] + MaxGap

\* The table's stamp came before every report that waits, and the stamp that waits for the
\* table before all but the first.
GapInv ==
  running /\ ~signalled =>
    /\ silent[Worker] # None => Within(silent[Worker], 1)
    /\ scored # None => Within(scored.age, 2)

\* Only a report of the queue is stamped.
QueueInv ==
  /\ waiting \in Seq(Nat)
  /\ scored # None => waiting # <<>>

\* Where the pushing thread is, against its naps, its call and its flag.
PusherInv ==
  /\ pusher = "sleeping" => naps < Interval
  /\ pusher = "ready" => naps = Interval
  /\ report \in {"none", "sent", "received"} /\ (report = "none" <=> pusher # "calling")
  /\ pushing => pusher # "exited"
  /\ thread = "none" => silent[Worker] = None

\* What the join has taken, at most, from where the pushing thread is.
JoinTime ==
  IF pusher = "calling" THEN call_age
  ELSE IF pusher \in {"awake", "exited"} THEN MaxCall + 1 ELSE 0

\* How long ago the signal was, from where main is and what it waits for.
SignalInv ==
  /\ since_signal \in Nat \cup {None}
  /\ since_signal = None <=> ~signalled
  /\ pushing <=> main \in {"sleeping", "awake"}
  /\ ~pushing => signalled
  /\ main = "sleeping" => main_slept < MainSleep
  /\ signalled /\ pushing => since_signal <= main_slept
  /\ main = "joining" => since_signal <= MainSleep + JoinTime

IInv == Sweeping!IInv /\ Pusher!TypeOK /\ PusherInv /\ QueueInv /\ GapInv /\ SignalInv /\ StaysListed

-----------------------------------------------------------------------------
(* The constants, and the pieces the steps are made of.                    *)

LEMMA Constants ==
  /\ Interval \in Nat /\ Interval > 0 /\ MainSleep \in Nat /\ MainSleep > 0
  /\ MaxCall \in Nat /\ MaxFailures \in Nat
  /\ StaleAge \in Nat /\ Lag \in Nat /\ MaxSilence \in Nat
  /\ None \notin Nat /\ None \notin [host : {Worker}, age : 0..Lag]
  /\ MaxDelay \in Nat /\ MaxGap + MaxDelay <= StaleAge
  /\ Sweeping!HostScoresAssumption
BY HeartbeatAssumption DEF HeartbeatAssumption, Scores!HostScoresAssumption,
   Sweeping!HostScoresAssumption, Pusher!MonitorPusherAssumption

\* What so many failing calls add up to.
LEMMA Cycles ==
  ASSUME NEW f \in 0..MaxFailures
  PROVE  /\ Cycle \in Nat /\ Cycle = Interval + MaxCall
         /\ f * Cycle \in Nat /\ (f + 1) * Cycle = f * Cycle + Cycle
         /\ f * Cycle + Cycle + MaxCall <= MaxGap
         /\ MaxGap \in Nat /\ 0 * Cycle = 0
<1>. DEFINE d == MaxFailures - f
<1>1. Cycle \in Nat /\ Cycle = Interval + MaxCall /\ f \in Nat /\ d \in Nat /\ MaxFailures = f + d
  BY Constants DEF Cycle
<1>2. \A m, n, c \in Nat : m * c \in Nat /\ (m + 1) * c = m * c + c /\ (m + n) * c = m * c + n * c
                           /\ 0 * c = 0
  OBVIOUS
<1>3. MaxGap = (MaxFailures + 1) * Cycle + MaxCall
  BY DEF MaxGap, Cycle
<1>4. (MaxFailures + 1) * Cycle = f * Cycle + d * Cycle + Cycle
  BY <1>1, <1>2, Constants
<1>5. f * Cycle \in Nat /\ d * Cycle \in Nat
  BY <1>1, <1>2
<1>. HIDE DEF d
<1>. QED  BY <1>1, <1>2, <1>3, <1>4, <1>5, Constants

\* A gap is the most the last time stamp may be old.
LEMMA MaxAgeBound ==
  ASSUME Pusher!TypeOK
  PROVE  MaxAge \in Nat /\ MaxGap \in Nat /\ MaxAge <= MaxGap
<1>1. failures \in 0..MaxFailures /\ call_age \in 0..MaxCall /\ naps \in 0..Interval
  BY DEF Pusher!TypeOK
<1>. DEFINE lost == failures * Cycle
<1>2. /\ lost \in Nat /\ Cycle = Interval + MaxCall /\ MaxGap \in Nat
      /\ lost + Cycle + MaxCall <= MaxGap
  BY <1>1, Cycles
<1>3. MaxAge = IF pusher = "calling"
               THEN IF report = "received" THEN call_age ELSE MaxCall + lost + Interval + call_age
               ELSE MaxCall + lost + naps
  BY DEF MaxAge
<1>. HIDE DEF lost
<1>. QED  BY <1>1, <1>2, <1>3, Constants

\* Scores and Sweeping are the same module, once without and once with its theorems.
LEMMA SameModule ==
  /\ Scores!Init => Sweeping!Init
  /\ Scores!Start => Sweeping!Next
  /\ Scores!Stop => Sweeping!Next
  /\ Scores!WakeUp => Sweeping!Next
  /\ Scores!Score(Worker) => Sweeping!Next
  /\ Scores!UpdateEntry => Sweeping!Next
  /\ Scores!Tick => Sweeping!Next
  /\ UNCHANGED scoreVars => UNCHANGED Sweeping!vars
<1>1. Scores!Init => Sweeping!Init
  BY DEF Scores!Init, Sweeping!Init
<1>2. Scores!Start => Sweeping!Start
  BY DEF Scores!Start, Sweeping!Start
<1>3. Scores!Stop => Sweeping!Stop
  BY DEF Scores!Stop, Sweeping!Stop
<1>4. Scores!WakeUp => Sweeping!WakeUp
  BY DEF Scores!WakeUp, Sweeping!WakeUp, Scores!Sweep, Sweeping!Sweep
<1>5. Scores!Score(Worker) => Sweeping!Score(Worker)
  BY DEF Scores!Score, Sweeping!Score, Scores!loop, Sweeping!loop
<1>6. Scores!UpdateEntry => Sweeping!UpdateEntry
  BY DEF Scores!UpdateEntry, Sweeping!UpdateEntry, Scores!loop, Sweeping!loop
<1>7. Scores!Tick => Sweeping!Tick
  BY DEF Scores!Tick, Sweeping!Tick, Scores!Older, Sweeping!Older
<1>8. UNCHANGED scoreVars => UNCHANGED Sweeping!vars
  BY DEF scoreVars, Sweeping!vars, Sweeping!loop
<1>. QED  BY <1>1, <1>2, <1>3, <1>4, <1>5, <1>6, <1>7, <1>8 DEF Sweeping!Next

\* So every step of the composition is one of the sweep, or leaves it alone, and keeps what
\* was proved of it.
LEMMA SweepingStep == [Next]_vars => [Sweeping!Next]_(Sweeping!vars)
BY SameModule, Zenon DEF Next, Manager, Receive, Stamp, UpdateEntry, Push, EndCall, Signal,
   PushLoop, Tick, vars

LEMMA SweepingKept ==
  ASSUME Sweeping!IInv, [Next]_vars
  PROVE  Sweeping!IInv'
BY SweepingStep, Sweeping!NextStep, Constants

\* What the sweep's invariant says of the one host there is.
LEMMA SweepFacts ==
  ASSUME Sweeping!IInv
  PROVE  /\ silent[Worker] \in 0..MaxSilence \cup {None}
         /\ host_scores[Worker] \in 0..MaxSilence \cup {None}
         /\ scored = None \/ /\ scored \in [host : {Worker}, age : 0..Lag]
                             /\ scored.host = Worker /\ scored.age \in Nat /\ scored.age <= Lag
         /\ silent[Worker] # None /\ silent[Worker] <= StaleAge => host_scores[Worker] # None
         /\ thread = "none" => ~running /\ scored = None
         /\ running \in BOOLEAN
         /\ DOMAIN silent = {Worker} /\ DOMAIN host_scores = {Worker}
<1>1. Sweeping!TypeOK /\ Sweeping!ThreadInv /\ Sweeping!EntryInv(Worker)
  BY DEF Sweeping!IInv
<1>. QED  BY <1>1, Constants DEF Sweeping!TypeOK, Sweeping!ThreadInv, Sweeping!EntryInv, Sweeping!Age

\* A second more, as far as the bounds are concerned.
LEMMA OlderBound ==
  ASSUME NEW age \in Nat \cup {None}
  PROVE  /\ Scores!Older(age) = None <=> age = None
         /\ age # None => Scores!Older(age) \in Nat /\ Scores!Older(age) <= age + 1
BY Constants DEF Scores!Older

LEMMA InitInv == Init => IInv
<1>. SUFFICES ASSUME Init PROVE IInv
  OBVIOUS
<1>1. Sweeping!IInv
  BY SameModule, Sweeping!InitInv, Constants DEF Init
<1>2. Pusher!TypeOK
  <2>1. 0 \in 0..MainSleep /\ 0 \in 0..Interval /\ Interval \in 0..Interval
        /\ 0 \in 0..MaxCall /\ 0 \in 0..MaxFailures
    BY Constants
  <2>. QED  BY <2>1, Zenon DEF Init, Pusher!Init, Pusher!TypeOK
<1>3. silent[Worker] = None /\ scored = None /\ ~running
  BY DEF Init, Scores!Init
<1>4. PusherInv
  BY <1>3, Constants DEF Init, Pusher!Init, PusherInv
<1>5. QueueInv /\ GapInv /\ StaysListed
  BY <1>3 DEF Init, QueueInv, GapInv, StaysListed
<1>6. SignalInv
  BY Constants DEF Init, Pusher!Init, SignalInv
<1>. QED  BY <1>1, <1>2, <1>4, <1>5, <1>6 DEF IInv

\* The table's stamp of a worker that runs is not too old for the sweep.
LEMMA Recent ==
  ASSUME Sweeping!IInv, Pusher!TypeOK, QueueInv, GapInv,
         running, ~signalled, InTime, silent[Worker] # None
  PROVE  silent[Worker] <= StaleAge
<1>1. MaxGap \in Nat /\ MaxAge \in Nat /\ MaxAge <= MaxGap
  BY MaxAgeBound
<1>2. silent[Worker] \in Nat /\ Within(silent[Worker], 1)
  BY SweepFacts, Constants DEF GapInv
<1>3. CASE waiting = <<>>
  BY <1>1, <1>2, <1>3, Constants DEF Within
<1>4. CASE waiting # <<>>
  <2>1. waiting[1] \in Nat /\ waiting[1] <= MaxDelay /\ ~(1 > Len(waiting))
    BY <1>4 DEF QueueInv, InTime
  <2>. QED  BY <1>1, <1>2, <2>1, Constants DEF Within
<1>. QED  BY <1>3, <1>4

-----------------------------------------------------------------------------
(* The steps.                                                              *)

\* The manager's own steps change no age.
LEMMA ManagerStep ==
  ASSUME IInv, Manager, Sweeping!IInv'
  PROVE  IInv'
<1>1. UNCHANGED <<pusherVars, report, waiting, since_signal, silent, scored>>
  BY DEF Manager, Scores!Start, Scores!Stop, Scores!WakeUp
<1>2. Pusher!TypeOK' /\ SignalInv' /\ QueueInv' /\ MaxAge' = MaxAge
  BY <1>1 DEF IInv, pusherVars, Pusher!TypeOK, SignalInv, JoinTime, MaxAge, QueueInv
<1>3. PusherInv'
  BY <1>1 DEF IInv, pusherVars, PusherInv, Manager, Scores!Start, Scores!Stop, Scores!WakeUp
<1>4. GapInv'
  <2>1. CASE running
    BY <1>1, <1>2, <2>1 DEF IInv, GapInv, Within, pusherVars
  <2>2. CASE ~running /\ running'
    <3>1. Scores!Start
      BY <2>2 DEF Manager, Scores!Stop, Scores!WakeUp
    <3>2. silent'[Worker] = None /\ scored' = None
      BY <1>1, <3>1, SweepFacts DEF IInv, PusherInv, Scores!Start
    <3>. QED  BY <3>2 DEF GapInv
  <2>3. CASE ~running'
    BY <2>3 DEF GapInv
  <2>. QED  BY <2>1, <2>2, <2>3
<1>5. StaysListed'
  <2>. SUFFICES ASSUME ~signalled, InTime, silent[Worker] # None
                PROVE  host_scores'[Worker] # None
    BY <1>1 DEF StaysListed, InTime, pusherVars
  <2>1. CASE running
    <3>1. silent'[Worker] = silent[Worker] /\ silent[Worker] <= StaleAge
      BY <1>1, <2>1, Recent DEF IInv
    <3>2. Sweeping!EntryInv(Worker)'
      BY DEF Sweeping!IInv
    <3>. QED  BY <3>1, <3>2 DEF Sweeping!EntryInv
  <2>2. CASE ~running
    <3>1. host_scores' = host_scores
      BY <2>2 DEF Manager, Scores!Start, Scores!Stop, Scores!WakeUp
    <3>. QED  BY <3>1 DEF IInv, StaysListed
  <2>. QED  BY <2>1, <2>2
<1>. QED  BY <1>2, <1>3, <1>4, <1>5 DEF IInv

\* A report that comes in is fresh, and the one before it came a gap ago at most.
LEMMA ReceiveStep ==
  ASSUME IInv, Receive, Sweeping!IInv'
  PROVE  IInv'
<1>. USE DEF Receive, scoreVars, pusherVars
<1>1. Pusher!TypeOK' /\ SignalInv' /\ PusherInv'
  BY DEF IInv, Pusher!TypeOK, SignalInv, JoinTime, PusherInv
<1>2. /\ waiting \in Seq(Nat) /\ waiting' \in Seq(Nat)
      /\ Len(waiting) \in Nat /\ Len(waiting') = Len(waiting) + 1
      /\ waiting'[Len(waiting) + 1] = 0
      /\ \A i \in 1..Len(waiting) : waiting'[i] = waiting[i]
  BY DEF IInv, QueueInv
<1>3. QueueInv' /\ StaysListed'
  <2>1. waiting' # <<>> /\ (waiting # <<>> => Head(waiting') = Head(waiting))
    BY <1>2
  <2>. QED  BY <1>2, <2>1 DEF IInv, QueueInv, StaysListed, InTime
<1>4. MaxAge \in Nat /\ MaxGap \in Nat /\ MaxAge <= MaxGap
  BY MaxAgeBound DEF IInv
<1>5. ASSUME NEW age \in Nat, NEW i \in 1..2, Within(age, i), i <= Len(waiting) + 1
      PROVE  Within(age, i)'
  <2>1. CASE i <= Len(waiting)
    BY <1>2, <1>5, <2>1 DEF Within
  <2>2. CASE i = Len(waiting) + 1
    <3>1. age <= MaxAge
      BY <1>2, <1>5, <2>2 DEF Within
    <3>2. ~(i > Len(waiting')) /\ waiting'[i] = 0
      BY <1>2, <2>2
    <3>3. age <= 0 + MaxGap
      BY <1>4, <3>1
    <3>. QED  BY <3>2, <3>3 DEF Within
  <2>. QED  BY <1>2, <1>5, <2>1, <2>2
<1>6. GapInv'
  <2>. SUFFICES ASSUME running, ~signalled PROVE GapInv'
    BY DEF GapInv
  <2>1. /\ silent[Worker] # None => silent[Worker] \in Nat
        /\ scored # None => scored.age \in Nat /\ Len(waiting) >= 1
    BY <1>2, SweepFacts DEF IInv, QueueInv
  <2>2. silent[Worker] # None => Within(silent[Worker], 1)'
    BY <1>2, <1>5, <2>1 DEF IInv, GapInv
  <2>3. scored # None => Within(scored.age, 2)'
    BY <1>2, <1>5, <2>1 DEF IInv, GapInv
  <2>. QED  BY <2>2, <2>3 DEF GapInv, Within
<1>. QED  BY <1>1, <1>3, <1>6 DEF IInv

\* A stamp is as fresh as can be.
LEMMA StampStep ==
  ASSUME IInv, Stamp, Sweeping!IInv'
  PROVE  IInv'
<1>. USE DEF Stamp, Scores!Score, Scores!loop, pusherVars
<1>1. Pusher!TypeOK' /\ SignalInv' /\ PusherInv' /\ QueueInv' /\ StaysListed' /\ MaxAge' = MaxAge
  BY DEF IInv, Pusher!TypeOK, SignalInv, JoinTime, PusherInv, QueueInv, StaysListed, InTime, MaxAge
<1>2. scored'.age = 0
  <2>1. [host |-> Worker, age |-> 0] \in [host : {Worker}, age : 0..Lag]
    BY Constants
  <2>. QED  BY <2>1, Constants
<1>3. Within(0, 2)
  <2>1. MaxAge \in Nat /\ MaxGap \in Nat
    BY MaxAgeBound DEF IInv
  <2>2. waiting \in Seq(Nat)
    BY DEF IInv, QueueInv
  <2>. QED  BY <2>1, <2>2 DEF Within
<1>4. GapInv'
  BY <1>1, <1>2, <1>3 DEF IInv, GapInv, Within
<1>. QED  BY <1>1, <1>4 DEF IInv

\* What is written to the table keeps its time stamp.
LEMMA UpdateEntryStep ==
  ASSUME IInv, UpdateEntry, Sweeping!IInv'
  PROVE  IInv'
<1>1. /\ UNCHANGED <<pusherVars, report, since_signal, running, thread>>
      /\ scored # None /\ scored' = None /\ waiting' = Tail(waiting)
  BY DEF UpdateEntry, Scores!UpdateEntry, Scores!loop
<1>2. Pusher!TypeOK' /\ SignalInv' /\ MaxAge' = MaxAge
  BY <1>1 DEF IInv, pusherVars, Pusher!TypeOK, SignalInv, JoinTime, MaxAge
<1>3. /\ scored.host = Worker /\ scored.age \in Nat /\ scored.age # None /\ thread # "none"
      /\ DOMAIN silent = {Worker} /\ DOMAIN host_scores = {Worker}
  BY <1>1, SweepFacts, Constants DEF IInv
<1>4. silent'[Worker] = scored.age /\ host_scores'[Worker] = scored.age
  BY <1>3 DEF UpdateEntry, Scores!UpdateEntry
<1>5. /\ waiting \in Seq(Nat) /\ waiting' \in Seq(Nat)
      /\ Len(waiting) \in Nat /\ Len(waiting') = Len(waiting) - 1 /\ Len(waiting) >= 1
      /\ 2 <= Len(waiting) => waiting'[1] = waiting[2]
  BY <1>1 DEF IInv, QueueInv
<1>6. GapInv'
  <2>. SUFFICES ASSUME running, ~signalled PROVE GapInv'
    BY <1>1 DEF GapInv, pusherVars
  <2>1. Within(scored.age, 2)
    BY <1>1 DEF IInv, GapInv
  <2>2. Within(silent[Worker], 1)'
    <3>1. CASE 2 <= Len(waiting)
      BY <1>4, <1>5, <2>1, <3>1 DEF Within
    <3>2. CASE Len(waiting) = 1
      BY <1>2, <1>4, <1>5, <2>1, <3>2 DEF Within
    <3>. QED  BY <1>5, <3>1, <3>2
  <2>. QED  BY <1>1, <2>2 DEF GapInv
<1>7. PusherInv' /\ QueueInv' /\ StaysListed'
  BY <1>1, <1>3, <1>4, <1>5 DEF IInv, PusherInv, QueueInv, StaysListed, pusherVars
<1>. QED  BY <1>2, <1>6, <1>7 DEF IInv

\* What a step of the worker has to show: the manager's table is not touched.
LEMMA WorkerStep ==
  ASSUME IInv, Sweeping!IInv', UNCHANGED scoreVars, UNCHANGED waiting,
         Pusher!TypeOK', PusherInv', SignalInv', signalled => signalled',
         running /\ ~signalled' => MaxAge' >= MaxAge
  PROVE  IInv'
<1>1. UNCHANGED <<host_scores, scored, running, thread, silent>>
  BY DEF scoreVars
<1>2. QueueInv' /\ StaysListed'
  BY <1>1 DEF IInv, QueueInv, StaysListed, InTime
<1>3. GapInv'
  <2>. SUFFICES ASSUME running, ~signalled' PROVE GapInv'
    BY <1>1 DEF GapInv
  <2>1. MaxAge' >= MaxAge /\ ~signalled
    OBVIOUS
  <2>2. MaxAge \in Nat /\ MaxAge' \in Nat
    <3>1. MaxAge \in Nat
      BY MaxAgeBound DEF IInv
    <3>2. failures' \in 0..MaxFailures /\ call_age' \in Nat /\ naps' \in Nat
      BY Constants DEF Pusher!TypeOK
    <3>3. failures' * Cycle \in Nat
      BY <3>2, Cycles
    <3>. QED  BY <3>1, <3>2, <3>3, Constants DEF MaxAge
  <2>3. ASSUME silent[Worker] # None PROVE Within(silent[Worker], 1)'
    <3>1. silent[Worker] \in Nat /\ Within(silent[Worker], 1)
      BY <2>1, <2>3, SweepFacts DEF IInv, GapInv
    <3>. QED  BY <1>1, <2>1, <2>2, <3>1 DEF Within
  <2>4. ASSUME scored # None PROVE Within(scored.age, 2)'
    <3>1. scored.age \in Nat /\ Within(scored.age, 2)
      BY <2>1, <2>4, SweepFacts DEF IInv, GapInv
    <3>. QED  BY <1>1, <2>1, <2>2, <3>1 DEF Within
  <2>. QED  BY <1>1, <2>3, <2>4 DEF GapInv
<1>. QED  BY <1>2, <1>3 DEF IInv

LEMMA PushStep ==
  ASSUME IInv, Push, Sweeping!IInv'
  PROVE  IInv'
<1>. USE DEF Push, Pusher!Push, Pusher!mainVars
<1>1. 0 \in 0..MaxCall
  BY Constants
<1>2. Pusher!TypeOK'
  BY <1>1 DEF IInv, Pusher!TypeOK
<1>3. PusherInv'
  BY DEF IInv, PusherInv, scoreVars
<1>4. SignalInv'
  BY DEF IInv, SignalInv, JoinTime
<1>5. MaxAge' = MaxAge
  <2>. DEFINE lost == MaxCall + failures * Cycle
  <2>1. lost \in Nat
    <3>1. failures \in 0..MaxFailures
      BY DEF IInv, Pusher!TypeOK
    <3>2. failures * Cycle \in Nat
      BY <3>1, Cycles
    <3>. QED  BY <3>2, Constants
  <2>2. MaxAge = lost + Interval
    BY DEF IInv, PusherInv, MaxAge
  <2>3. MaxAge' = lost + Interval + 0
    BY DEF MaxAge
  <2>. HIDE DEF lost
  <2>. QED  BY <2>1, <2>2, <2>3, Constants
<1>6. MaxAge' >= MaxAge
  BY <1>5, MaxAgeBound DEF IInv
<1>. QED  BY <1>2, <1>3, <1>4, <1>6, WorkerStep

\* A call that gets through was answered with the report in the queue; one that
\* does not counts as one more.
LEMMA EndCallStep ==
  ASSUME IInv, EndCall, Sweeping!IInv'
  PROVE  IInv'
<1>. USE DEF Pusher!mainVars
<1>0. failures \in 0..MaxFailures /\ MaxFailures \in Nat
  BY Constants DEF IInv, Pusher!TypeOK
<1>1. /\ pusher = "calling" /\ pusher' = "awake" /\ report' = "none" /\ naps' = 0
      /\ UNCHANGED <<scoreVars, waiting, since_signal, signalled, main, main_slept, pushing, call_age>>
      /\ \/ report = "received" /\ failures' = 0
         \/ running /\ failures < MaxFailures /\ failures' = failures + 1
         \/ ~running /\ failures' \in 0..MaxFailures
  BY <1>0 DEF EndCall, Pusher!PushSucceeds, Pusher!PushFails
<1>2. failures \in 0..MaxFailures /\ call_age \in 0..MaxCall
  BY DEF IInv, Pusher!TypeOK
<1>3. failures' \in 0..MaxFailures /\ 0 \in 0..Interval
  BY <1>1, <1>2, Constants
<1>4. Pusher!TypeOK'
  BY <1>1, <1>3 DEF IInv, Pusher!TypeOK
<1>5. PusherInv'
  BY <1>1, Constants DEF IInv, PusherInv, scoreVars
<1>6. SignalInv'
  BY <1>1, <1>2, Constants DEF IInv, SignalInv, JoinTime
<1>7. ASSUME running PROVE MaxAge' >= MaxAge
  <2>. DEFINE lost == failures * Cycle
  <2>1. /\ lost \in Nat /\ (failures + 1) * Cycle = lost + Cycle /\ 0 * Cycle = 0
        /\ Cycle = Interval + MaxCall
    BY <1>2, Cycles
  <2>2. MaxAge = IF report = "received" THEN call_age ELSE MaxCall + lost + Interval + call_age
    BY <1>1 DEF MaxAge
  <2>3. MaxAge' = MaxCall + failures' * Cycle + 0
    BY <1>1 DEF MaxAge
  <2>. HIDE DEF lost
  <2>4. CASE report = "received" /\ failures' = 0
    BY <1>2, <2>1, <2>2, <2>3, <2>4, Constants
  <2>5. CASE failures' = failures + 1
    <3>1. MaxAge' = MaxCall + (lost + Cycle) + 0
      BY <2>1, <2>3, <2>5
    <3>. QED  BY <1>2, <2>1, <2>2, <3>1, Constants
  <2>. QED  BY <1>1, <1>7, <2>4, <2>5
<1>. QED  BY <1>1, <1>4, <1>5, <1>6, <1>7, WorkerStep

\* The signal starts the count of its seconds.
LEMMA SignalStep ==
  ASSUME IInv, Signal, Sweeping!IInv'
  PROVE  IInv'
<1>. USE DEF Signal, Pusher!Signal, Pusher!loopVars
<1>1. Pusher!TypeOK' /\ PusherInv'
  BY DEF IInv, Pusher!TypeOK, PusherInv, scoreVars
<1>2. SignalInv'
  BY Constants DEF IInv, Pusher!TypeOK, SignalInv
<1>. QED  BY <1>1, <1>2, WorkerStep

\* The pushing thread leaves only once main has cleared its flag, and main clears it only
\* after the signal, at the end of its own sleep.
LEMMA PushLoopStep ==
  ASSUME IInv, PushLoop, Sweeping!IInv'
  PROVE  IInv'
<1>1. UNCHANGED <<scoreVars, report, waiting, since_signal, signalled, naps, call_age, failures>>
  BY DEF PushLoop, Pusher!WakeUp, Pusher!MainWakesUp, Pusher!MainReturns, Pusher!mainVars,
     Pusher!loopVars
<1>2. CASE Pusher!WakeUp
  <2>. USE <1>2 DEF Pusher!WakeUp, Pusher!mainVars
  <2>1. Pusher!TypeOK'
    BY DEF IInv, Pusher!TypeOK
  <2>2. PusherInv'
    BY <1>1 DEF IInv, PusherInv, scoreVars
  <2>3. SignalInv'
    BY <1>1 DEF IInv, SignalInv, JoinTime
  <2>4. MaxAge' = MaxAge /\ MaxAge \in Nat
    BY <1>1, MaxAgeBound DEF MaxAge, IInv
  <2>. QED  BY <1>1, <2>1, <2>2, <2>3, <2>4, WorkerStep
<1>3. CASE Pusher!MainWakesUp \/ Pusher!MainReturns
  <2>. USE <1>3 DEF Pusher!MainWakesUp, Pusher!MainReturns, Pusher!loopVars
  <2>1. Pusher!TypeOK'
    <3>1. 0 \in 0..MainSleep
      BY Constants
    <3>2. Pusher!TypeOK /\ UNCHANGED Pusher!loopVars /\ UNCHANGED signalled
          /\ pushing' \in {pushing, FALSE} /\ main_slept' \in {main_slept, 0}
          /\ main' \in {"sleeping", "joining", "returned"}
      BY DEF IInv
    <3>. QED  BY ONLY <3>1, <3>2, Zenon DEF Pusher!TypeOK, Pusher!loopVars
  <2>2. PusherInv'
    BY <1>1 DEF IInv, PusherInv, scoreVars
  <2>3. SignalInv'
    BY <1>1, Constants DEF IInv, SignalInv, JoinTime, Pusher!TypeOK
  <2>4. MaxAge' = MaxAge /\ MaxAge \in Nat
    BY <1>1, MaxAgeBound DEF MaxAge, IInv
  <2>. QED  BY <1>1, <2>1, <2>2, <2>3, <2>4, WorkerStep
<1>. QED  BY <1>2, <1>3 DEF PushLoop

\* A second for the worker: its sleeps and its call go on, and so does the join.
LEMMA TickPusher ==
  ASSUME IInv, Tick
  PROVE  /\ Pusher!TypeOK' /\ PusherInv' /\ SignalInv'
         /\ ~signalled => MaxAge' = MaxAge + 1 /\ MaxAge \in Nat
<1>. USE DEF Tick, Pusher!Tick, Pusher!Due
<1>1. Pusher!TypeOK /\ PusherInv /\ SignalInv
  BY DEF IInv
<1>2. Pusher!TypeOK'
  <2>1. call_age' \in 0..MaxCall
    BY <1>1, Constants DEF Pusher!TypeOK
  <2>2. naps' \in 0..Interval /\ pusher' \in {"ready", "calling", "sleeping", "awake", "exited"}
    BY <1>1, Constants DEF Pusher!TypeOK, PusherInv
  <2>3. /\ main_slept' \in 0..MainSleep
        /\ main' \in {"sleeping", "awake", "joining", "returned"}
    BY <1>1, Constants DEF Pusher!TypeOK, SignalInv
  <2>. QED  BY <1>1, <2>1, <2>2, <2>3 DEF Pusher!TypeOK
<1>3. PusherInv'
  <2>1. thread' = "none" => silent'[Worker] = None
    <3>1. thread' = "none" => thread = "none"
      BY DEF Scores!Tick
    <3>2. silent'[Worker] = Scores!Older(silent[Worker])
      BY DEF Scores!Tick
    <3>. QED  BY <1>1, <3>1, <3>2, OlderBound DEF PusherInv
  <2>2. pusher' # "sleeping" /\ (pusher' = "ready" <=> pusher = "ready")
        /\ (pusher' = "calling" <=> pusher = "calling") /\ (pusher' = "exited" <=> pusher = "exited")
    BY <1>1 DEF Pusher!TypeOK
  <2>. QED  BY <1>1, <2>1, <2>2 DEF PusherInv
<1>4. SignalInv'
  <2>1. /\ since_signal' \in Nat \cup {None}
        /\ since_signal' = None <=> since_signal = None
        /\ since_signal # None => /\ since_signal \in Nat /\ since_signal' \in Nat
                                  /\ since_signal' <= since_signal + 1
    BY <1>1, OlderBound, Constants DEF SignalInv
  <2>2. main_slept \in 0..MainSleep /\ call_age \in 0..MaxCall
        /\ pusher \in {"calling", "sleeping", "exited"} /\ main # "awake"
    BY <1>1 DEF Pusher!TypeOK
  <2>3. /\ pushing' <=> main' \in {"sleeping", "awake"}
        /\ main' = "sleeping" => main_slept' < MainSleep
    BY <1>1, <2>2, Constants DEF SignalInv
  <2>4. signalled' /\ pushing' => since_signal' <= main_slept'
    BY <1>1, <2>1, <2>2 DEF SignalInv
  <2>5. main' = "joining" => since_signal' <= MainSleep + JoinTime'
    <3>. SUFFICES ASSUME main = "joining" PROVE since_signal' <= MainSleep + JoinTime'
      BY <2>2
    <3>1. pusher \in {"calling", "sleeping"} /\ since_signal # None
      BY <1>1, <2>2 DEF SignalInv
    <3>2. since_signal <= MainSleep + JoinTime
      BY <1>1 DEF SignalInv
    <3>3. JoinTime \in Nat /\ JoinTime' \in Nat /\ JoinTime' >= JoinTime + 1
      BY <2>2, <3>1, Constants DEF JoinTime
    <3>. QED  BY <2>1, <3>1, <3>2, <3>3, Constants
  <2>. QED  BY <1>1, <2>1, <2>3, <2>4, <2>5 DEF SignalInv
<1>5. ASSUME ~signalled PROVE MaxAge' = MaxAge + 1 /\ MaxAge \in Nat
  <2>. DEFINE lost == MaxCall + failures * Cycle
  <2>1. lost \in Nat
    <3>1. failures \in 0..MaxFailures
      BY <1>1 DEF Pusher!TypeOK
    <3>2. failures * Cycle \in Nat
      BY <3>1, Cycles
    <3>. QED  BY <3>2, Constants
  <2>2. MaxAge = IF pusher = "calling"
                 THEN IF report = "received" THEN call_age ELSE lost + Interval + call_age
                 ELSE lost + naps
    BY DEF MaxAge
  <2>3. MaxAge' = IF pusher' = "calling"
                  THEN IF report = "received" THEN call_age' ELSE lost + Interval + call_age'
                  ELSE lost + naps'
    BY DEF MaxAge
  <2>4. naps \in Nat /\ call_age \in Nat
        /\ \/ pusher = "calling" /\ pusher' = "calling" /\ call_age' = call_age + 1
           \/ pusher = "sleeping" /\ pusher' = "awake" /\ naps' = naps + 1
    BY <1>1, <1>5, Constants DEF PusherInv, SignalInv, Pusher!TypeOK
  <2>. HIDE DEF lost
  <2>. QED  BY <2>1, <2>2, <2>3, <2>4, Constants
<1>. QED  BY <1>2, <1>3, <1>4, <1>5

\* No stamp gets older than the reports, the calls, the naps and the present call do.
LEMMA TickStep ==
  ASSUME IInv, Tick, Sweeping!IInv'
  PROVE  IInv'
<1>1. /\ Pusher!TypeOK' /\ PusherInv' /\ SignalInv'
      /\ ~signalled => MaxAge' = MaxAge + 1 /\ MaxAge \in Nat
  BY TickPusher
<1>2. /\ silent[Worker] \in Nat \cup {None} /\ host_scores[Worker] \in Nat \cup {None}
      /\ silent'[Worker] = Scores!Older(silent[Worker])
      /\ host_scores'[Worker] = Scores!Older(host_scores[Worker])
      /\ running' = running /\ signalled' = signalled
  BY SweepFacts, Constants DEF IInv, Tick, Scores!Tick, Pusher!Tick
<1>3. /\ waiting \in Seq(Nat) /\ waiting' \in Seq(Nat) /\ Len(waiting) \in Nat
      /\ Len(waiting') = Len(waiting)
      /\ \A i \in 1..Len(waiting) :
           waiting[i] \in Nat /\ waiting'[i] = Longer(waiting[i])
  <2>1. waiting \in Seq(Nat)
    BY DEF IInv, QueueInv
  <2>2. waiting' = [i \in 1..Len(waiting) |-> Longer(waiting[i])]
    BY DEF Tick
  <2>3. \A i \in 1..Len(waiting) : waiting[i] \in Nat /\ Longer(waiting[i]) \in Nat
    BY <2>1, Constants DEF Longer
  <2>. QED  BY <2>1, <2>2, <2>3
<1>4. /\ scored = None => scored' = None
      /\ scored # None => /\ scored' # None /\ scored.age \in Nat /\ scored'.age = scored.age + 1
  <2>1. CASE scored = None
    BY <2>1 DEF Tick, Scores!Tick
  <2>2. CASE scored # None
    <3>1. scored \in [host : {Worker}, age : 0..Lag] /\ scored.age < Lag
      BY <2>2, SweepFacts DEF IInv, Tick, Scores!Tick
    <3>2. scored' = [scored EXCEPT !.age = scored.age + 1]
      BY <2>2 DEF Tick, Scores!Tick
    <3>3. scored' \in [host : {Worker}, age : 0..Lag] /\ scored'.age = scored.age + 1
      BY <3>1, <3>2, Constants
    <3>. QED  BY <2>2, <3>1, <3>3, Constants
  <2>. QED  BY <2>1, <2>2
<1>5. QueueInv'
  <2>1. waiting # <<>> => waiting' # <<>>
    BY <1>3
  <2>. QED  BY <1>3, <1>4, <2>1 DEF IInv, QueueInv
<1>6. StaysListed'
  <2>1. InTime' => InTime
    <3>1. CASE waiting = <<>>
      BY <3>1 DEF InTime
    <3>2. CASE waiting # <<>>
      <4>1. /\ Head(waiting) = waiting[1] /\ Head(waiting') = waiting'[1] /\ waiting' # <<>>
            /\ waiting[1] \in Nat /\ waiting'[1] = Longer(waiting[1])
        BY <1>3, <3>2
      <4>. QED  BY <4>1, Constants DEF InTime, Longer
    <3>. QED  BY <3>1, <3>2
  <2>. QED  BY <1>2, <2>1, OlderBound DEF IInv, StaysListed
<1>7. ASSUME running, ~signalled, NEW age \in Nat, NEW older \in Nat, older <= age + 1,
             NEW i \in 1..2, Within(age, i)
      PROVE  Within(older, i)'
  <2>1. CASE i > Len(waiting)
    <3>1. age <= MaxAge /\ MaxAge' = MaxAge + 1 /\ MaxAge \in Nat
      BY <1>1, <1>7, <2>1 DEF Within
    <3>. QED  BY <1>3, <1>7, <2>1, <3>1 DEF Within
  <2>2. CASE ~(i > Len(waiting))
    <3>1. waiting[i] \in Nat /\ waiting'[i] = Longer(waiting[i])
      BY <1>3, <2>2
    <3>2. waiting'[i] <= MaxDelay => waiting'[i] = waiting[i] + 1 /\ waiting[i] <= MaxDelay
      BY <3>1, Constants DEF Longer
    <3>3. MaxGap \in Nat
      BY MaxAgeBound DEF IInv
    <3>4. waiting[i] <= MaxDelay => age <= waiting[i] + MaxGap
      BY <1>7, <2>2 DEF Within
    <3>5. waiting'[i] <= MaxDelay => older <= waiting'[i] + MaxGap
      BY <1>7, <3>1, <3>2, <3>3, <3>4
    <3>. QED  BY <1>3, <2>2, <3>5 DEF Within
  <2>. QED  BY <2>1, <2>2
<1>8. GapInv'
  <2>. SUFFICES ASSUME running, ~signalled PROVE GapInv'
    BY <1>2 DEF GapInv
  <2>1. ASSUME silent'[Worker] # None PROVE Within(silent[Worker], 1)'
    <3>1. silent[Worker] # None
      BY <1>2, <2>1, OlderBound
    <3>2. /\ silent[Worker] \in Nat /\ silent'[Worker] \in Nat
          /\ silent'[Worker] <= silent[Worker] + 1
      BY <1>2, <3>1, OlderBound
    <3>3. Within(silent[Worker], 1)
      BY <3>1 DEF IInv, GapInv
    <3>4. PICK older \in Nat : older = silent'[Worker]
      BY <3>2
    <3>5. Within(older, 1)'
      BY <1>7, <3>2, <3>3, <3>4
    <3>. QED  BY <3>4, <3>5 DEF Within
  <2>2. ASSUME scored' # None PROVE Within(scored.age, 2)'
    <3>1. scored # None /\ scored.age \in Nat /\ scored'.age = scored.age + 1
      BY <1>4, <2>2
    <3>2. Within(scored.age, 2)
      BY <3>1 DEF IInv, GapInv
    <3>3. PICK older \in Nat : older = scored'.age
      BY <3>1
    <3>4. Within(older, 2)'
      BY <1>7, <3>1, <3>2, <3>3
    <3>. QED  BY <3>3, <3>4 DEF Within
  <2>. QED  BY <2>1, <2>2 DEF GapInv
<1>. QED  BY <1>1, <1>5, <1>6, <1>8 DEF IInv

LEMMA NextStep == IInv /\ [Next]_vars => IInv'
<1>. SUFFICES ASSUME IInv, [Next]_vars PROVE IInv'
  OBVIOUS
<1>1. Sweeping!IInv'
  BY SweepingKept DEF IInv
<1>2. CASE UNCHANGED vars
  <2>1. UNCHANGED <<scoreVars, pusherVars, report, waiting, since_signal>>
    BY <1>2 DEF vars
  <2>2. Pusher!TypeOK' /\ PusherInv' /\ SignalInv' /\ QueueInv' /\ GapInv' /\ StaysListed'
    BY <2>1 DEF IInv, scoreVars, pusherVars, Pusher!TypeOK, PusherInv, SignalInv, JoinTime,
       QueueInv, GapInv, Within, MaxAge, StaysListed, InTime
  <2>. QED  BY <1>1, <2>2 DEF IInv
<1>3. CASE Next
  BY <1>1, <1>3, ManagerStep, ReceiveStep, StampStep, UpdateEntryStep, PushStep, EndCallStep, SignalStep,
     PushLoopStep, TickStep DEF Next
<1>. QED  BY <1>2, <1>3

LEMMA Invariant == Spec => []IInv
BY InitInv, NextStep, PTL DEF Spec

-----------------------------------------------------------------------------
\* Whatever the worker and its calls do, the manager's table and its sweep keep to their own
\* specification: what was proved of them for reports that come at any time holds here.
THEOREM RunsSweep == Spec => Sweeping!Init /\ [][Sweeping!Next]_(Sweeping!vars)
<1>1. Init => Sweeping!Init
  BY SameModule DEF Init
<1>. QED  BY <1>1, SweepingStep, PTL DEF Spec

\* So a worker that has fallen silent, because it returned, because its calls do not get
\* through, or because the queue holds its reports back, is off the list a sweep period after
\* its last time stamp got too old.  It is the stamp that counts, and OnDataReceived takes it:
\* every report of the worker that still waits will put it on the list once more.
THEOREM SilentDropped == Spec => []Sweeping!ListsTheLivingOnly
<1>1. IInv => Sweeping!ListsTheLivingOnly
  BY Sweeping!ListedByAge, Constants DEF IInv
<1>. QED  BY <1>1, Invariant, PTL

\* The worker's two threads take their own steps, and a report that gets lost, a manager that
\* stops and one that is not there are to them a call that fails.
THEOREM RunsPusher == Spec => Pusher!Init /\ [][Pusher!Next]_pusherVars
<1>1. Init => Pusher!Init
  BY DEF Init
<1>2. [Next]_vars => [Pusher!Next]_pusherVars
  BY Zenon DEF Next, Manager, Receive, Stamp, UpdateEntry, Push, EndCall, Signal, PushLoop, Tick, vars,
     Pusher!Next
<1>. QED  BY <1>1, <1>2, PTL DEF Spec

\* A worker whose calls get through often enough is off the manager's list only while one of
\* its reports has been held back for too long, for any interval, age and period that leave
\* room for the calls and the wait (MonitorPusher::PushLoop and GrpcServerImpl::WorkerThread
\* against HostManager::ProcessLoop).
THEOREM NeverDropped == Spec => []StaysListed
<1>1. IInv => StaysListed
  BY DEF IInv
<1>. QED  BY <1>1, Invariant, PTL

\* main of the worker has returned MainSleep + MaxCall + 1 seconds after the signal,
\* wherever the signal finds main's sleep, the pushing thread's nap and its call.
THEOREM ReturnsInTime == Spec => []WorkerReturnsInTime
<1>1. IInv => WorkerReturnsInTime
  <2>. SUFFICES ASSUME IInv, main # "returned", since_signal # None
                PROVE  since_signal <= MainSleep + MaxCall + 1
    BY DEF WorkerReturnsInTime
  <2>1. /\ SignalInv /\ main_slept \in 0..MainSleep /\ call_age \in 0..MaxCall
        /\ main \in {"sleeping", "awake", "joining"} /\ since_signal \in Nat
    BY DEF IInv, Pusher!TypeOK, SignalInv
  <2>2. CASE main = "joining"
    BY <2>1, <2>2, Constants DEF SignalInv, JoinTime
  <2>3. CASE main # "joining"
    BY <2>1, <2>3, Constants DEF SignalInv
  <2>. QED  BY <2>2, <2>3
<1>. QED  BY <1>1, Invariant, PTL
=============================================================================
