-------------------------- MODULE HostScores_proofs --------------------------
(***************************************************************************)
(* What the score table and its sweep guarantee for any hosts, any age and *)
(* period, and any lag below the age.                                      *)
(*                                                                         *)
(* An entry is as old as its host's silence; what has to be found is how   *)
(* old it can get.  The sweep leaves no entry older than StaleAge and      *)
(* starts the count of its sleeps again, and from then on age and count    *)
(* grow together: an entry is never older than StaleAge + slept.           *)
(***************************************************************************)
EXTENDS HostScores, TLAPS

\* Where the thread is, against running_, the count of its sleeps, and Stop.
ThreadInv ==
  /\ thread = "none" => /\ ~running /\ slept = 0 /\ stopping = None /\ scored = None
                        /\ \A h \in Hosts : host_scores[h] = None
  /\ thread = "sleeping" => slept < SweepPeriod
  /\ running => thread \in {"sleeping", "awake"} /\ stopping = None
  /\ stopping # None /\ stopping >= 1 => thread # "sleeping"
  /\ StopsWithinASecond

\* How old the entry of host h is.
EntryInv(h) ==
  /\ host_scores[h] # None => host_scores[h] = silent[h]
  /\ silent[h] # None /\ silent[h] <= StaleAge => host_scores[h] = silent[h]
  /\ running /\ host_scores[h] # None => host_scores[h] <= StaleAge + slept

IInv == TypeOK /\ ThreadInv /\ \A h \in Hosts : EntryInv(h)

-----------------------------------------------------------------------------
\* Older adds a second to an age, up to MaxSilence, and leaves None alone.
LEMMA OlderType ==
  ASSUME NEW age \in Age
  PROVE  /\ Older(age) \in Age
         /\ Older(age) = None <=> age = None
         /\ age # None => /\ age \in Nat /\ Older(age) \in Nat
                          /\ Older(age) <= age + 1
                          /\ Older(age) <= StaleAge + SweepPeriod => Older(age) = age + 1
                          /\ age >= 1 \/ Older(age) = age + 1
                          /\ Older(age) >= age
BY HostScoresAssumption DEF Older, Age

LEMMA InitInv == Init => IInv
<1>. SUFFICES ASSUME Init PROVE IInv
  OBVIOUS
<1>1. TypeOK
  <2>1. None \in Age /\ 0 \in 0..SweepPeriod
    BY HostScoresAssumption DEF Age
  <2>2. host_scores \in [Hosts -> Age] /\ silent \in [Hosts -> Age]
    BY <2>1 DEF Init
  <2>. QED  BY <2>1, <2>2, Zenon DEF Init, TypeOK
<1>2. ThreadInv
  BY HostScoresAssumption DEF Init, ThreadInv, StopsWithinASecond
<1>3. ASSUME NEW h \in Hosts PROVE EntryInv(h)
  BY DEF Init, EntryInv
<1>. QED  BY <1>1, <1>2, <1>3 DEF IInv

\* The steps that start and stop the thread, and that take a report's time stamp.
LEMMA OwnerStep ==
  IInv /\ (Start \/ Stop \/ \E h \in Hosts : Score(h)) => IInv'
<1>. SUFFICES ASSUME IInv, Start \/ Stop \/ \E h \in Hosts : Score(h)
              PROVE  IInv'
  OBVIOUS
<1>. USE HostScoresAssumption DEF IInv, TypeOK, ThreadInv, StopsWithinASecond, Age
<1>1. CASE Start
  <2>1. \A h \in Hosts : EntryInv(h)'
    BY <1>1 DEF Start, EntryInv
  <2>2. TypeOK'
    BY <1>1 DEF Start
  <2>3. ThreadInv'
    BY <1>1 DEF Start
  <2>. QED  BY <2>1, <2>2, <2>3
<1>2. CASE Stop
  <2>1. \A h \in Hosts : EntryInv(h)'
    BY <1>2 DEF Stop, EntryInv
  <2>2. TypeOK'
    <3>0. 0 \in Age
      OBVIOUS
    <3>1. stopping' \in Age /\ running' \in BOOLEAN
      BY ONLY <1>2, <3>0, Zenon DEF Stop
    <3>2. UNCHANGED <<host_scores, scored, thread, slept, silent>>
      BY <1>2 DEF Stop
    <3>3. TypeOK
      OBVIOUS
    <3>. QED  BY ONLY <3>1, <3>2, <3>3, Zenon DEF TypeOK
  <2>3. thread' # "none" /\ ~running' /\ stopping' = 0 /\ thread' = thread /\ slept' = slept
    BY <1>2 DEF Stop
  <2>4. ~(stopping' >= 1) /\ ~(stopping' > 1)
    BY <2>3
  <2>5. thread' = "sleeping" => slept' < SweepPeriod
    BY <2>3
  <2>6. ThreadInv'
    BY <2>3, <2>4, <2>5, Zenon
  <2>. QED  BY <2>1, <2>2, <2>6
<1>3. CASE \E h \in Hosts : Score(h)
  <2>. PICK g \in Hosts : Score(g)
    BY <1>3
  <2>1. \A h \in Hosts : EntryInv(h)'
    BY DEF Score, EntryInv, loop
  <2>2. TypeOK'
    BY DEF Score, loop
  <2>3. ThreadInv'
    BY DEF Score, loop
  <2>. QED  BY <2>1, <2>2, <2>3
<1>. QED  BY <1>1, <1>2, <1>3

\* A new entry is no older than Lag, and so is its host's silence.
LEMMA UpdateStep == IInv /\ UpdateEntry => IInv'
<1>. SUFFICES ASSUME IInv, UpdateEntry PROVE IInv'
  OBVIOUS
<1>. USE HostScoresAssumption DEF UpdateEntry, loop
<1>1. scored.host \in Hosts /\ scored.age \in 0..Lag
  BY DEF IInv, TypeOK
<1>2. TypeOK'
  BY <1>1 DEF IInv, TypeOK, Age
<1>3. ThreadInv'
  BY DEF IInv, ThreadInv, StopsWithinASecond
<1>4. ASSUME NEW h \in Hosts PROVE EntryInv(h)'
  <2>1. CASE h = scored.host
    <3>1. host_scores'[h] = scored.age /\ silent'[h] = scored.age
      BY <2>1 DEF IInv, TypeOK
    <3>. QED  BY <1>1, <3>1 DEF EntryInv, IInv, TypeOK
  <2>2. CASE h # scored.host
    <3>1. host_scores'[h] = host_scores[h] /\ silent'[h] = silent[h]
      BY <2>2 DEF IInv, TypeOK
    <3>. QED  BY <3>1 DEF EntryInv, IInv
  <2>. QED  BY <2>1, <2>2
<1>. QED  BY <1>2, <1>3, <1>4 DEF IInv

\* The sweep erases what is older than StaleAge, and the count starts again.
LEMMA WakeUpStep == IInv /\ WakeUp => IInv'
<1>. SUFFICES ASSUME IInv, WakeUp PROVE IInv'
  OBVIOUS
<1>. USE HostScoresAssumption
<1>1. CASE ~running /\ thread' = "exited" /\ UNCHANGED <<host_scores, slept>>
  <2>1. TypeOK' /\ ThreadInv'
    BY <1>1 DEF IInv, TypeOK, ThreadInv, StopsWithinASecond, WakeUp
  <2>2. ASSUME NEW h \in Hosts PROVE EntryInv(h)'
    BY <1>1 DEF IInv, EntryInv, WakeUp
  <2>. QED  BY <2>1, <2>2 DEF IInv
<1>2. CASE running /\ slept < SweepPeriod /\ thread' = "sleeping"
             /\ UNCHANGED <<host_scores, slept>>
  <2>1. TypeOK' /\ ThreadInv'
    BY <1>2 DEF IInv, TypeOK, ThreadInv, StopsWithinASecond, WakeUp
  <2>2. ASSUME NEW h \in Hosts PROVE EntryInv(h)'
    BY <1>2 DEF IInv, EntryInv, WakeUp
  <2>. QED  BY <2>1, <2>2 DEF IInv
<1>3. CASE running /\ slept = SweepPeriod /\ Sweep /\ slept' = 0 /\ UNCHANGED thread
  <2>1. UNCHANGED <<scored, running, stopping, silent>> /\ thread = "awake"
    BY DEF WakeUp
  <2>2. TypeOK'
    BY <1>3, <2>1 DEF IInv, TypeOK, Sweep, Age
  <2>3. ThreadInv'
    BY <1>3, <2>1 DEF IInv, TypeOK, ThreadInv, StopsWithinASecond
  <2>4. ASSUME NEW h \in Hosts PROVE EntryInv(h)'
    <3>1. host_scores'[h] = IF host_scores[h] = None \/ host_scores[h] > StaleAge
                            THEN None ELSE host_scores[h]
      BY <1>3 DEF Sweep
    <3>2. host_scores[h] \in Age /\ silent[h] \in Age /\ EntryInv(h)
      BY DEF IInv, TypeOK
    <3>. QED  BY <1>3, <2>1, <3>1, <3>2 DEF EntryInv, Age
  <2>. QED  BY <2>2, <2>3, <2>4 DEF IInv
<1>. QED  BY <1>1, <1>2, <1>3 DEF WakeUp

\* As long as the thread runs, age and count grow together; Stop's second is over before
\* another begins.
LEMMA TickStep == IInv /\ Tick => IInv'
<1>. SUFFICES ASSUME IInv, Tick PROVE IInv'
  OBVIOUS
<1>. USE HostScoresAssumption
<1>1. TypeOK /\ ThreadInv
  BY DEF IInv
<1>2. stopping \in Age /\ stopping' = Older(stopping)
  BY <1>1 DEF Tick, TypeOK
<1>3. TypeOK'
  <2>1. host_scores' \in [Hosts -> Age] /\ silent' \in [Hosts -> Age] /\ stopping' \in Age
    BY <1>1, <1>2, OlderType DEF Tick, TypeOK
  <2>2. scored' \in [host : Hosts, age : 0..Lag] \cup {None}
    <3>1. CASE scored = None
      BY <3>1 DEF Tick
    <3>2. CASE scored # None
      <4>1. scored \in [host : Hosts, age : 0..Lag] /\ scored.age < Lag
        BY <1>1, <3>2 DEF Tick, TypeOK
      <4>2. scored' = [scored EXCEPT !.age = scored.age + 1]
        BY <3>2 DEF Tick
      <4>. QED  BY <4>1, <4>2
    <3>. QED  BY <3>1, <3>2
  <2>3. thread' \in {"none", "sleeping", "awake", "exited"} /\ slept' \in 0..SweepPeriod
    BY <1>1 DEF Tick, TypeOK, ThreadInv
  <2>. QED  BY <1>1, <2>1, <2>2, <2>3 DEF Tick, TypeOK
<1>4. ThreadInv'
  <2>1. ASSUME thread' = "none"
        PROVE  \A h \in Hosts : host_scores'[h] = None
    BY <1>1, <2>1 DEF Tick, ThreadInv, Older
  <2>2. stopping' # None /\ stopping' > 1 => thread' = "exited"
    BY <1>1, <1>2, OlderType DEF Tick, TypeOK, ThreadInv, StopsWithinASecond
  <2>3. thread' # "sleeping"
    BY DEF Tick
  <2>4. running' = running /\ stopping' = None <=> stopping = None
    BY <1>2, OlderType DEF Tick
  <2>5. thread' = "none" => thread = "none" /\ UNCHANGED <<slept, running>> /\ scored' = None
                            /\ stopping' = None
    BY <1>1, <1>2, OlderType DEF Tick, ThreadInv
  <2>6. running' => thread' \in {"sleeping", "awake"} /\ stopping' = None
    BY <1>1, <2>4 DEF Tick, ThreadInv
  <2>. QED
    BY <1>1, <2>1, <2>2, <2>3, <2>5, <2>6 DEF ThreadInv, StopsWithinASecond
<1>5. ASSUME NEW h \in Hosts PROVE EntryInv(h)'
  <2>1. host_scores[h] \in Age /\ silent[h] \in Age /\ EntryInv(h)
    BY DEF IInv, TypeOK
  <2>2. host_scores'[h] = Older(host_scores[h]) /\ silent'[h] = Older(silent[h])
    BY DEF Tick
  <2>3. host_scores'[h] # None => host_scores'[h] = silent'[h]
    BY <2>1, <2>2, OlderType DEF EntryInv
  <2>4. silent'[h] # None /\ silent'[h] <= StaleAge => host_scores'[h] = silent'[h]
    <3>. SUFFICES ASSUME silent'[h] # None, silent'[h] <= StaleAge
                  PROVE  host_scores'[h] = silent'[h]
      OBVIOUS
    <3>1. silent[h] # None
      BY <2>1, <2>2, OlderType
    <3>2. silent[h] \in Nat /\ silent'[h] \in Nat /\ silent'[h] >= silent[h]
      BY <2>1, <2>2, <3>1, OlderType
    <3>3. silent[h] <= StaleAge
      BY <3>2
    <3>4. host_scores[h] = silent[h]
      BY <2>1, <3>1, <3>3 DEF EntryInv
    <3>. QED  BY <2>2, <3>4
  <2>5. running' /\ host_scores'[h] # None => host_scores'[h] <= StaleAge + slept'
    <3>. SUFFICES ASSUME running', host_scores'[h] # None
                  PROVE  host_scores'[h] <= StaleAge + slept'
      OBVIOUS
    <3>1. running /\ thread = "sleeping" /\ slept' = slept + 1 /\ slept \in Nat
      BY <1>1 DEF Tick, ThreadInv, TypeOK
    <3>2. host_scores[h] # None /\ host_scores[h] \in Nat
          /\ host_scores'[h] \in Nat /\ host_scores'[h] <= host_scores[h] + 1
      BY <2>1, <2>2, OlderType
    <3>3. host_scores[h] <= StaleAge + slept
      BY <2>1, <3>1, <3>2 DEF EntryInv
    <3>. QED  BY <3>1, <3>2, <3>3
  <2>. QED  BY <2>3, <2>4, <2>5 DEF EntryInv
<1>. QED  BY <1>3, <1>4, <1>5 DEF IInv

LEMMA NextStep == IInv /\ [Next]_vars => IInv'
<1>. SUFFICES ASSUME IInv, [Next]_vars PROVE IInv'
  OBVIOUS
<1>1. CASE UNCHANGED vars
  BY <1>1 DEF IInv, TypeOK, ThreadInv, EntryInv, StopsWithinASecond, vars, loop
<1>2. CASE Next
  BY <1>2, OwnerStep, UpdateStep, WakeUpStep, TickStep DEF Next
<1>. QED  BY <1>1, <1>2

LEMMA Invariant == Spec => []IInv
BY InitInv, NextStep, PTL DEF Spec

-----------------------------------------------------------------------------
\* The state of HostManager's sweep keeps its types: no age and no count runs away.
THEOREM TypeCorrect == Spec => []TypeOK
<1>1. IInv => TypeOK
  BY DEF IInv
<1>. QED  BY <1>1, Invariant, PTL

\* The bounds on an entry's age say who is listed.
LEMMA ListedByAge == IInv => ListsTheLivingOnly
<1>. SUFFICES ASSUME IInv, NEW h \in Hosts, silent[h] # None
              PROVE  /\ silent[h] <= StaleAge => host_scores[h] = silent[h]
                     /\ silent[h] > StaleAge + SweepPeriod /\ running => host_scores[h] = None
  BY DEF ListsTheLivingOnly
<1>. QED  BY HostScoresAssumption DEF IInv, EntryInv, TypeOK, Age

\* ProcessLoop keeps every host that is no longer silent than StaleAge, and drops the
\* others within a period.
THEOREM SweepCorrect == Spec => []ListsTheLivingOnly
BY ListedByAge, Invariant, PTL

\* ProcessLoop's thread has left a second after Stop cleared running_.
THEOREM AnswersStop == Spec => []StopsWithinASecond
<1>1. IInv => StopsWithinASecond
  BY DEF IInv, ThreadInv
<1>. QED  BY <1>1, Invariant, PTL
=============================================================================
