------------------------------ MODULE MysqlPool ------------------------------
(***************************************************************************)
(* The manager's pool of MySQL connections (manager/include/mysql_pool.h). *)
(*                                                                         *)
(* Init opens PoolSize connections.  Acquire blocks until the pool holds   *)
(* one, takes the oldest, pings it and replaces it if it is dead; Release  *)
(* puts it back.  Both run under mtx_, so each is one action from the      *)
(* moment the pool is not empty.  A connection is "live" or "dead": it     *)
(* dies with the database server, or when the server closes it for being   *)
(* idle too long, and never comes back to life (reconnection is off by     *)
(* default in the client library).                                         *)
(***************************************************************************)
EXTENDS Naturals, Sequences, FiniteSets, SequencesExt

CONSTANTS
  PoolSize,      \* how many connections Init opens
  Borrowers,     \* the threads that write to the database
  MaxOutages     \* how often the database goes down, at most

ASSUME MysqlPoolAssumption ==
  /\ PoolSize \in Nat \ {0}
  /\ IsFiniteSet(Borrowers)
  /\ MaxOutages \in Nat

VARIABLES
  init,          \* "none" before Init, then what it returned: "ok" or "failed"
  pool,          \* pool_: the idle connections, the next to lend first
  borrower,      \* what each thread does with the pool, or the connection it holds
  lost,          \* history: how many Acquire calls returned no connection
  db,            \* the database server is "up", or "down": it refuses connections
  outages        \* how often it has gone down

environment == <<db, outages>>
vars == <<init, pool, borrower, lost, environment>>

Connection == {"live", "dead"}

Holders == {b \in Borrowers : borrower[b] \in Connection}

Start ==
  /\ init = "none"
  /\ pool = <<>>
  /\ borrower = [b \in Borrowers |-> "idle"]
  /\ lost = 0
  /\ db \in {"up", "down"}
  /\ outages = 0

\* Init: all PoolSize connections, or none if one of them cannot be made.  The caller
\* hands the pool to the writing threads only if it succeeds.
Init ==
  /\ init = "none"
  /\ \/ /\ db = "up"
        /\ init' = "ok"
        /\ pool' = [i \in 1..PoolSize |-> "live"]
     \/ /\ db = "down"
        /\ init' = "failed"
        /\ UNCHANGED pool
  /\ UNCHANGED <<borrower, lost, environment>>

\* A thread calls Acquire and waits for the pool to hold a connection.
Call(b) ==
  /\ init = "ok"
  /\ borrower[b] = "idle"
  /\ borrower' = [borrower EXCEPT ![b] = "waiting"]
  /\ UNCHANGED <<init, pool, lost, environment>>

Waiting(b) == borrower[b] = "waiting" /\ pool # <<>>

\* Defect for the checks of Acquire: the ping is left out.
Acquire_NoPing(b) ==
  /\ Waiting(b)
  /\ pool' = Tail(pool)
  /\ borrower' = [borrower EXCEPT ![b] = Head(pool)]
  /\ UNCHANGED <<init, lost, environment>>

\* Acquire returns a connection: the one it took, or a new one if that was dead.
Acquire(b) ==
  /\ Waiting(b)
  /\ Head(pool) = "live" \/ db = "up"
  /\ pool' = Tail(pool)
  /\ borrower' = [borrower EXCEPT ![b] = "live"]
  /\ UNCHANGED <<init, lost, environment>>

\* Acquire closes a dead connection, twice fails to open another and returns nullptr.
\* The caller has nothing to give back.
AcquireFails(b) ==
  /\ Waiting(b)
  /\ Head(pool) = "dead" /\ db = "down"
  /\ pool' = Tail(pool)
  /\ borrower' = [borrower EXCEPT ![b] = "idle"]
  /\ lost' = lost + 1
  /\ UNCHANGED <<init, environment>>

\* Defect for the checks of Release: a connection that died in use is dropped.
Release_LiveOnly(b) ==
  /\ borrower[b] \in Connection
  /\ borrower' = [borrower EXCEPT ![b] = "idle"]
  /\ pool' = IF borrower[b] = "live" THEN Append(pool, borrower[b]) ELSE pool
  /\ UNCHANGED <<init, lost, environment>>

\* Defect for TypeOK: the nullptr of a failed Acquire is put into the pool.
Release_Nullptr(b) ==
  /\ borrower[b] # "waiting"
  /\ borrower' = [borrower EXCEPT ![b] = "idle"]
  /\ pool' = Append(pool, borrower[b])
  /\ UNCHANGED <<init, lost, environment>>

\* Puts the connection back, dead or not: the next Acquire will see.
Release(b) ==
  /\ borrower[b] \in Connection
  /\ borrower' = [borrower EXCEPT ![b] = "idle"]
  /\ pool' = Append(pool, borrower[b])
  /\ UNCHANGED <<init, lost, environment>>

-----------------------------------------------------------------------------
(* The database server, which is not part of this program.                 *)

DatabaseStops ==
  /\ db = "up" /\ outages < MaxOutages
  /\ db' = "down"
  /\ outages' = outages + 1
  /\ pool' = [i \in DOMAIN pool |-> "dead"]
  /\ borrower' = [b \in Borrowers |-> IF b \in Holders THEN "dead" ELSE borrower[b]]
  /\ UNCHANGED <<init, lost>>

DatabaseStarts ==
  /\ db = "down"
  /\ db' = "up"
  /\ UNCHANGED <<init, pool, borrower, lost, outages>>

\* The server closes an idle connection (wait_timeout).
IdleTimeout ==
  /\ \E i \in DOMAIN pool : pool[i] = "live" /\ pool' = [pool EXCEPT ![i] = "dead"]
  /\ UNCHANGED <<init, borrower, lost, environment>>

Next ==
  \/ Init
  \/ \E b \in Borrowers : Call(b) \/ Acquire(b) \/ AcquireFails(b) \/ Release(b)
  \/ DatabaseStops \/ DatabaseStarts \/ IdleTimeout

\* A thread that can take a connection does, and one that holds a connection ends its
\* write and gives it back.  The database may stay down.
Fairness == \A b \in Borrowers : /\ WF_vars(Acquire(b) \/ AcquireFails(b))
                                 /\ WF_vars(Release(b))

Spec == Start /\ [][Next]_vars /\ Fairness

-----------------------------------------------------------------------------
(* Properties.                                                             *)

\* The shape of the pool's state.
TypeOK ==
  /\ init \in {"none", "ok", "failed"}
  /\ pool \in Seq(Connection)
  /\ borrower \in [Borrowers -> {"idle", "waiting"} \cup Connection]
  /\ lost \in Nat
  /\ db \in {"up", "down"}
  /\ outages \in 0..MaxOutages

\* Every slot of the pool is idle, lent or was used up by an Acquire that returned
\* nullptr: the pool never grows past PoolSize, and a thread can find it empty with
\* nobody to refill it only once PoolSize reconnections have failed.
SlotsAccounted ==
  init = "ok" => Len(pool) + Cardinality(Holders) + lost = PoolSize

\* Acquire never hands out a connection that had already died in the pool.
HandsOutLive ==
  [][\A b \in Borrowers :
       borrower[b] = "waiting" /\ borrower'[b] \in Connection => borrower'[b] = "live"]_vars
=============================================================================
