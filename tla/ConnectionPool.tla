---------------------------- MODULE ConnectionPool ----------------------------
(***************************************************************************)
(* The database connection pool every adapter of one process shares        *)
(* (adapters/db_pool.py): a bounded semaphore of slots in front of a       *)
(* psycopg2 ThreadedConnectionPool.  A borrower takes a slot, then a        *)
(* connection, uses it, puts the connection back and only then returns the *)
(* slot.  The lease of a borrower says how far it has come:                *)
(*   "none"     it holds nothing                                           *)
(*   "slot"     it holds a slot and has no connection yet                   *)
(*   "open"     it holds a slot and a usable connection                    *)
(*   "broken"   it holds a slot and a connection the server closed         *)
(*   "returned" its connection is back (or closed), its slot is not         *)
(***************************************************************************)
EXTENDS Naturals, FiniteSets

CONSTANTS Borrower,  \* the threads that borrow
          MinConn,   \* DB_POOL_MIN: connections kept open when idle
          MaxConn    \* DB_POOL_MAX: slots, and connections at most

\* What DBPool.__init__ insists on.
ASSUME PoolAssumption ==
  /\ IsFiniteSet(Borrower)
  /\ MinConn \in Nat /\ MaxConn \in Nat
  /\ 1 <= MinConn /\ MinConn <= MaxConn

VARIABLES slots,  \* the semaphore's value
          idle,   \* open connections waiting in the pool
          lease   \* what each borrower holds

poolVars == <<slots, idle, lease>>

Lease == {"none", "slot", "open", "broken", "returned"}

Holding(held) == {b \in Borrower : lease[b] \in held}

\* The connections handed out, psycopg2's _used.
Used == Holding({"open", "broken"})

-----------------------------------------------------------------------------

\* __init__: a full semaphore, MinConn connections opened at once.
PoolInit ==
  /\ slots = MaxConn
  /\ idle = MinConn
  /\ lease = [b \in Borrower |-> "none"]

\* connection(): the semaphore is taken first.
Acquire(b) ==
  /\ lease[b] = "none" /\ slots > 0
  /\ slots' = slots - 1
  /\ lease' = [lease EXCEPT ![b] = "slot"]
  /\ UNCHANGED idle

\* acquire(timeout) gives up only while no slot is free: PoolTimeoutError.
AcquireTimesOut(b) ==
  /\ lease[b] = "none" /\ slots = 0
  /\ UNCHANGED poolVars

\* getconn(): an idle connection if there is one, else a new one, as long as
\* fewer than MaxConn are handed out.
GetConn(b) ==
  /\ lease[b] = "slot"
  /\ idle > 0 \/ Cardinality(Used) < MaxConn
  /\ idle' = IF idle > 0 THEN idle - 1 ELSE idle
  /\ lease' = [lease EXCEPT ![b] = "open"]
  /\ UNCHANGED slots

\* Mutant: the slot is only released in the block's own finally.
GetConnFailsLeaks(b) ==
  /\ lease[b] = "slot" /\ idle = 0
  /\ lease' = [lease EXCEPT ![b] = "none"]
  /\ UNCHANGED <<slots, idle>>

\* getconn() raises, which it can only do when nothing is idle (the pool is
\* exhausted, or no new connection could be opened): the slot goes back.
GetConnFails(b) ==
  /\ lease[b] = "slot" /\ idle = 0
  /\ slots' = slots + 1
  /\ lease' = [lease EXCEPT ![b] = "none"]
  /\ UNCHANGED idle

\* The server drops the connection while the block runs.
Break(b) ==
  /\ lease[b] = "open"
  /\ lease' = [lease EXCEPT ![b] = "broken"]
  /\ UNCHANGED <<slots, idle>>

\* The finally of connection(): rolled back and put back, or closed when it
\* is broken or the pool already keeps MinConn.
PutConn(b) ==
  /\ lease[b] \in {"open", "broken"}
  /\ idle' = IF lease[b] = "open" /\ idle < MinConn THEN idle + 1 ELSE idle
  /\ lease' = [lease EXCEPT ![b] = "returned"]
  /\ UNCHANGED slots

\* ... and the slot last.
ReleaseSlot(b) ==
  /\ lease[b] = "returned"
  /\ slots' = slots + 1
  /\ lease' = [lease EXCEPT ![b] = "none"]
  /\ UNCHANGED idle

PoolNext ==
  \E b \in Borrower :
    \/ Acquire(b) \/ AcquireTimesOut(b)
    \/ GetConn(b) \/ GetConnFails(b) \/ Break(b)
    \/ PutConn(b) \/ ReleaseSlot(b)

PoolSpec == PoolInit /\ [][PoolNext]_poolVars

-----------------------------------------------------------------------------
PoolTypeOK ==
  /\ slots \in 0..MaxConn
  /\ idle \in 0..MinConn
  /\ lease \in [Borrower -> Lease]

\* No slot is ever lost or minted, whichever way a block ended: the free
\* slots and the holders of one make up the pool.
SlotsConserved ==
  slots + Cardinality(Holding(Lease \ {"none"})) = MaxConn

\* Because the connection is back before the slot is, whoever holds a slot
\* finds a connection: the pool is never exhausted behind the semaphore.
SlotMeansConnection ==
  Holding({"slot"}) # {} => Cardinality(Used) < MaxConn

\* The server sees at most MaxConn connections of this process, idle ones
\* included: the deployment's sizing rule counts on it.
ConnectionsBounded == idle + Cardinality(Used) <= MaxConn

\* The three together: however blocks end, the pool is all there and a slot
\* is worth a connection.
PoolIsSound == SlotsConserved /\ SlotMeansConnection /\ ConnectionsBounded
=============================================================================
