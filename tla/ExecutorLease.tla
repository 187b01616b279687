---------------------------- MODULE ExecutorLease ----------------------------
(***************************************************************************)
(* The singleton executor lease (table executor_lease) and the loops that  *)
(* compete for it (runJobExecutorService).  A loop that acquires the lease *)
(* gets a fresh generation; every durable write it makes afterwards is     *)
(* conditional on the pair (owner, generation) still being the current,    *)
(* unexpired one.                                                          *)
(*                                                                         *)
(* A deadline is kept as the time that remains until it (ttl), because the *)
(* code only ever compares lease_expires_at with the present: ttl > 0 is   *)
(* lease_expires_at > now, and writing now + leaseMs is ttl := LeaseMs.    *)
(***************************************************************************)
EXTENDS Integers

CONSTANTS
    Executors,      \* owner ids of the competing loops
    NoExecutor,     \* the SQL NULL of owner_id
    LeaseMs,        \* lease length, in clock ticks
    MaxGeneration   \* bound: how many times the lease is acquired in a run

ASSUME LeaseAssumption ==
    /\ NoExecutor \notin Executors
    /\ LeaseMs \in Nat \ {0}
    /\ MaxGeneration \in Nat \ {0}

VARIABLES
    executorLease,  \* the row [owner, generation, ttl]
    acquired        \* acquired[e]: the generation e's loop works under, 0 while it is acquiring

leaseVars == <<executorLease, acquired>>

Owners == Executors \cup {NoExecutor}
Generations == 0 .. MaxGeneration

\* The fence every durable executor write carries.
IsExecutorLeaseCurrent(e, g) ==
    /\ executorLease.owner = e
    /\ executorLease.generation = g
    /\ executorLease.ttl > 0

LeaseInit ==
    /\ executorLease = [owner |-> NoExecutor, generation |-> 0, ttl |-> 0]
    /\ acquired = [e \in Executors |-> 0]

\* Refused while any owner, the caller included, holds an unexpired lease.
AcquireExecutorLease(e) ==
    /\ acquired[e] = 0
    /\ executorLease.owner = NoExecutor \/ executorLease.ttl = 0
    /\ executorLease.generation < MaxGeneration
    /\ executorLease' = [owner |-> e,
                         generation |-> executorLease.generation + 1,
                         ttl |-> LeaseMs]
    /\ acquired' = [acquired EXCEPT ![e] = executorLease.generation + 1]

\* The heartbeat, and the renewal loop of every lane.
RenewExecutorLease(e) ==
    /\ acquired[e] # 0
    /\ IsExecutorLeaseCurrent(e, acquired[e])
    /\ executorLease' = [executorLease EXCEPT !.ttl = LeaseMs]
    /\ UNCHANGED acquired

\* The loop gives its generation up and goes back to acquiring; the row keeps
\* its owner, so even this loop waits until the lease it dropped expires.
LoseLease(e) ==
    /\ acquired[e] # 0
    /\ acquired' = [acquired EXCEPT ![e] = 0]
    /\ UNCHANGED executorLease

\* Orderly shutdown: the row is freed without looking at its expiry, and only
\* by the pair that wrote it.
ReleaseExecutorLease(e) ==
    /\ acquired[e] # 0
    /\ acquired' = [acquired EXCEPT ![e] = 0]
    /\ executorLease' =
         IF executorLease.owner = e /\ executorLease.generation = acquired[e]
           THEN [owner |-> NoExecutor, generation |-> executorLease.generation, ttl |-> 0]
           ELSE executorLease

\* The clock.
LeaseTick ==
    /\ executorLease.ttl > 0
    /\ executorLease' = [executorLease EXCEPT !.ttl = @ - 1]
    /\ UNCHANGED acquired

LeaseNext ==
    \/ \E e \in Executors :
         \/ AcquireExecutorLease(e)
         \/ RenewExecutorLease(e)
         \/ LoseLease(e)
         \/ ReleaseExecutorLease(e)
    \/ LeaseTick

LeaseSpec == LeaseInit /\ [][LeaseNext]_leaseVars

-----------------------------------------------------------------------------
LeaseTypeOK ==
    /\ executorLease \in [owner : Owners, generation : Generations, ttl : 0 .. LeaseMs]
    /\ acquired \in [Executors -> Generations]

\* A generation names one loop: no two loops ever work under the same one, no
\* loop is ahead of the row, and a loop working under the row's generation is
\* the owner the row names (or the row has been freed).
GenerationNamesOneLoop ==
    \A e \in Executors : acquired[e] # 0 =>
        /\ acquired[e] <= executorLease.generation
        /\ acquired[e] = executorLease.generation => executorLease.owner = e
        /\ \A f \in Executors : acquired[f] = acquired[e] => f = e
=============================================================================
