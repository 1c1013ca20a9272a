----------------------- MODULE ArtifactOperationLease -----------------------
(***************************************************************************)
(* The guard around every route that reads or writes artifacts             *)
(* (_artifact_operation_dependency and its streaming twin in api.py): a    *)
(* lease in Redis (artifact_operations.py), advisory locks of the request  *)
(* transaction in PostgreSQL, and a limiter in the API process.            *)
(*                                                                         *)
(* The lease has a time to live, a heartbeat and a client that gives up    *)
(* after two seconds, so Redis may forget a running request or keep one    *)
(* that is gone.  The advisory locks are what excludes; they end with the  *)
(* transaction, which commits after the lease was given back.              *)
(***************************************************************************)
EXTENDS Naturals, FiniteSets

CONSTANTS
    Requests,       \* requests, each with an owner token of its own
    Tenants,
    Replicas,       \* API processes
    LockKeys,       \* the 32 bits of a tenant's hash that PostgreSQL locks
    TenantOf,       \* request -> tenant
    ReplicaOf,      \* request -> API process
    KeyOf,          \* tenant -> lock key; two tenants may share one
    Limit,          \* GLOBAL_ARTIFACT_OPERATION_LIMIT
    NoRequest

ASSUME LeaseAssumption ==
    /\ TenantOf \in [Requests -> Tenants]
    /\ ReplicaOf \in [Requests -> Replicas]
    /\ KeyOf \in [Tenants -> LockKeys]
    /\ Limit \in Nat
    /\ NoRequest \notin Requests

VARIABLES
    owner,          \* Redis: tenant -> request whose token the tenant key holds
    active,         \* Redis: members of the global sorted set
    locked,         \* PostgreSQL: lock key -> request holding it
    slots,          \* PostgreSQL: requests that hold one of the global slots
    limiter,        \* requests with a place in their process's limiter
    stage,          \* request -> where it is
    seen,           \* request -> the tenant's data as the route read it
    data            \* tenant -> committed operations

redisVars == <<owner, active>>
leaseVars == <<owner, active, locked, slots, limiter, stage, seen, data>>

\* leased: owns the Redis lease; working: inside the route; returned: the route
\* returned; failing: it was refused, raised or was cancelled; closing: the
\* lease is given back and the transaction is about to commit; aborting: it is
\* about to roll back.
Stages == {"idle", "leased", "working", "returned", "failing", "closing",
           "aborting", "done"}

LeaseInit ==
    /\ owner = [t \in Tenants |-> NoRequest]
    /\ active = {}
    /\ locked = [k \in LockKeys |-> NoRequest]
    /\ slots = {}
    /\ limiter = {}
    /\ stage = [r \in Requests |-> "idle"]
    /\ seen = [r \in Requests |-> 0]
    /\ data = [t \in Tenants |-> 0]

At(r, s) == stage[r] = s
Goes(r, s) == stage' = [stage EXCEPT ![r] = s]
Tenant(r) == TenantOf[r]
LockKey(r) == KeyOf[TenantOf[r]]

-----------------------------------------------------------------------------
(* The Redis scripts                                                       *)

\* _ACQUIRE_SCRIPT refuses a tenant with a key and a full sorted set.
CanAcquire(r) == owner[Tenant(r)] = NoRequest /\ Cardinality(active) < Limit
ScriptAcquires(r) ==
    /\ owner' = [owner EXCEPT ![Tenant(r)] = r]
    /\ active' = active \cup {r}

\* Mutant: the release script does not compare the token.
ScriptReleasesAny(r) ==
    /\ owner' = [owner EXCEPT ![Tenant(r)] = NoRequest]
    /\ active' = active \ {r}

\* _RELEASE_SCRIPT deletes the key only of the token's owner.
ScriptReleases(r) ==
    IF owner[Tenant(r)] = r
    THEN /\ owner' = [owner EXCEPT ![Tenant(r)] = NoRequest]
         /\ active' = active \ {r}
    ELSE UNCHANGED redisVars

-----------------------------------------------------------------------------
(* A request                                                               *)

\* ArtifactOperationLeaseManager.acquire with a decision from Redis.
acquire(r) ==
    /\ At(r, "idle")
    /\ IF CanAcquire(r) THEN ScriptAcquires(r) /\ Goes(r, "leased")
                        ELSE UNCHANGED redisVars /\ Goes(r, "done")
    /\ UNCHANGED <<locked, slots, limiter, seen, data>>

\* The client gives up first: the script may have run all the same, and nobody
\* gives back what it acquired.
acquire_times_out(r) ==
    /\ At(r, "idle")
    /\ CanAcquire(r) /\ ScriptAcquires(r)
    /\ Goes(r, "done")
    /\ UNCHANGED <<locked, slots, limiter, seen, data>>

\* Mutant: the tenant's advisory lock is not asked for.
NeverLocked(r) == TRUE

\* _acquire_database_artifact_operation_locks and the limiter of the process:
\* the tenant's key, one of the slots, the tenant's place in the process.
TenantLockFree(r) == locked[LockKey(r)] = NoRequest

\* Mutant: the slots are counted one too many.
OneSlotTooMany == Cardinality(slots) <= Limit

SlotFree == Cardinality(slots) < Limit
InProcess(r) == {q \in limiter : ReplicaOf[q] = ReplicaOf[r]}
LimiterAdmits(r) ==
    /\ \A q \in InProcess(r) : Tenant(q) # Tenant(r)
    /\ Cardinality(InProcess(r)) < Limit
CanFence(r) == TenantLockFree(r) /\ SlotFree /\ LimiterAdmits(r)

\* The route starts and reads what it will decide on.
fence(r) ==
    /\ At(r, "leased")
    /\ CanFence(r)
    /\ locked' = [locked EXCEPT ![LockKey(r)] = r]
    /\ slots' = slots \cup {r}
    /\ limiter' = limiter \cup {r}
    /\ seen' = [seen EXCEPT ![r] = data[Tenant(r)]]
    /\ Goes(r, "working")
    /\ UNCHANGED <<owner, active, data>>

\* A refused request keeps the locks it got until its transaction ends.
fence_refused(r) ==
    /\ At(r, "leased")
    /\ ~CanFence(r)
    /\ locked' = [locked EXCEPT ![LockKey(r)] =
                     IF TenantLockFree(r) THEN r ELSE locked[LockKey(r)]]
    /\ slots' = IF TenantLockFree(r) /\ SlotFree THEN slots \cup {r} ELSE slots
    /\ Goes(r, "failing")
    /\ UNCHANGED <<owner, active, limiter, seen, data>>

route_returns(r) ==
    /\ At(r, "working")
    /\ Goes(r, "returned")
    /\ UNCHANGED <<owner, active, locked, slots, limiter, seen, data>>

\* The route raises, or the client goes away.
route_raises(r) ==
    /\ At(r, "working")
    /\ Goes(r, "failing")
    /\ UNCHANGED <<owner, active, locked, slots, limiter, seen, data>>

\* maintain_lease: a renewal that finds another token, or no answer, cancels
\* the request; one that finds its own token extends the time to live.  The
\* cleanup awaits a renewal under way, so a returned route can still fail.
heartbeat_fails(r) ==
    /\ At(r, "working") \/ At(r, "returned")
    /\ Goes(r, "failing")
    /\ UNCHANGED <<owner, active, locked, slots, limiter, seen, data>>

\* Mutant: the place in the process is left occupied when the operation failed.
LimiterKeepsFailed(r) == limiter' = IF At(r, "failing") THEN limiter ELSE limiter \ {r}

\* local_lease.close() in the dependency's finally.
LimiterCloses(r) == limiter' = limiter \ {r}

\* PostgreSQL drops the advisory locks with the transactions of R.
LocksEnd(R) ==
    /\ locked' = [k \in LockKeys |-> IF locked[k] \in R THEN NoRequest ELSE locked[k]]
    /\ slots' = slots \ R

\* cleanup_lease and the dependency's finally.  Only a route that returned and
\* whose token was still there goes on to commit, unless the request was
\* cancelled meanwhile.
release(r) ==
    /\ At(r, "returned") \/ At(r, "failing")
    /\ ScriptReleases(r)
    /\ \E cancelled \in BOOLEAN :
          Goes(r, IF At(r, "returned") /\ owner[Tenant(r)] = r /\ ~cancelled
                  THEN "closing" ELSE "aborting")
    /\ LimiterCloses(r)
    /\ UNCHANGED <<locked, slots, seen, data>>

\* Redis does not answer the release, having run it or not: only a log line,
\* the time to live is what cleans up.
release_unavailable(r) ==
    /\ At(r, "returned") \/ At(r, "failing")
    /\ ScriptReleases(r) \/ UNCHANGED redisVars
    /\ Goes(r, IF At(r, "returned") THEN "closing" ELSE "aborting")
    /\ LimiterCloses(r)
    /\ UNCHANGED <<locked, slots, seen, data>>

\* The session dependency, entered before the lease, ends after it.
commit(r) ==
    /\ At(r, "closing")
    /\ data' = [data EXCEPT ![Tenant(r)] = seen[r] + 1]
    /\ LocksEnd({r})
    /\ Goes(r, "done")
    /\ UNCHANGED <<owner, active, limiter, seen>>

\* A rollback; a commit that the database refuses ends like one.
rollback(r) ==
    /\ At(r, "aborting") \/ At(r, "closing")
    /\ LocksEnd({r})
    /\ Goes(r, "done")
    /\ UNCHANGED <<owner, active, limiter, seen, data>>

-----------------------------------------------------------------------------
(* The surroundings                                                        *)

\* An API process dies with all its requests; Redis does not notice.
InFlight(a) == {r \in Requests : ReplicaOf[r] = a /\ stage[r] \notin {"idle", "done"}}
replica_crash(a) ==
    /\ InFlight(a) # {}
    /\ stage' = [r \in Requests |-> IF r \in InFlight(a) THEN "done" ELSE stage[r]]
    /\ LocksEnd(InFlight(a))
    /\ limiter' = limiter \ InFlight(a)
    /\ UNCHANGED <<owner, active, seen, data>>

\* The time to live passes, or Redis restarts without the lease.
lease_expires(t) ==
    /\ owner[t] # NoRequest
    /\ active' = active \ {owner[t]}
    /\ owner' = [owner EXCEPT ![t] = NoRequest]
    /\ UNCHANGED <<locked, slots, limiter, stage, seen, data>>

LeaseNext ==
    \/ \E r \in Requests :
          \/ acquire(r) \/ acquire_times_out(r)
          \/ fence(r) \/ fence_refused(r)
          \/ route_returns(r) \/ route_raises(r) \/ heartbeat_fails(r)
          \/ release(r) \/ release_unavailable(r)
          \/ commit(r) \/ rollback(r)
    \/ \E a \in Replicas : replica_crash(a)
    \/ \E t \in Tenants : lease_expires(t)

\* The route ends (storage_read_deadline), the cleanup runs in a task that
\* cancellation cannot reach, the session dependency always exits, and the
\* time to live passes once nobody renews the lease.
Abandoned(t) == owner[t] # NoRequest /\ stage[owner[t]] = "done"
LeaseFairness ==
    /\ \A r \in Requests :
          /\ WF_leaseVars(fence(r) \/ fence_refused(r))
          /\ WF_leaseVars(route_returns(r) \/ route_raises(r))
          /\ WF_leaseVars(release(r) \/ release_unavailable(r))
          /\ WF_leaseVars(commit(r) \/ rollback(r))
    /\ \A t \in Tenants : WF_leaseVars(Abandoned(t) /\ lease_expires(t))

LeaseSpec == LeaseInit /\ [][LeaseNext]_leaseVars
FairLeaseSpec == LeaseSpec /\ LeaseFairness

-----------------------------------------------------------------------------
(* Properties                                                              *)

\* Every variable keeps its type (the declarations of the three layers).
LeaseTypeOK ==
    /\ owner \in [Tenants -> Requests \cup {NoRequest}]
    /\ active \subseteq Requests
    /\ locked \in [LockKeys -> Requests \cup {NoRequest}]
    /\ slots \subseteq Requests
    /\ limiter \subseteq Requests
    /\ stage \in [Requests -> Stages]
    /\ seen \in [Requests -> Nat]
    /\ data \in [Tenants -> Nat]

\* A request about to commit decided on the tenant's current data: whatever
\* Redis forgot, no operation of the tenant committed since it read
\* (_acquire_database_artifact_operation_locks behind an expired lease).
NoLostUpdate == \A r \in Requests : At(r, "closing") => seen[r] = data[Tenant(r)]

\* Redis counts against the global limit exactly the requests that own a
\* tenant key: no script leaves one half behind (_ACQUIRE_SCRIPT,
\* _RELEASE_SCRIPT), so a slot never leaks.
RedisAccountingAgrees ==
    active = {owner[t] : t \in Tenants} \ {NoRequest}

\* No more than the limit of requests are inside routes at once over all the
\* processes, even when Redis lost its count.
GlobalBound == Cardinality({r \in Requests : At(r, "working")}) <= Limit

\* Behind the advisory locks the limiter of the process never refuses: its
\* place is left before the lock is (local_lease.close()).
LimiterBehindFence ==
    \A r \in Requests : TenantLockFree(r) /\ SlotFree => LimiterAdmits(r)

\* The three layers agree whatever expires, crashes or answers late: a slot
\* never leaks and the limit holds over all the processes.
GuardLayersAgree == RedisAccountingAgrees /\ GlobalBound /\ LimiterBehindFence

\* What the dependency promises its routes, the holder of the tenant's advisory
\* lock being the one that operates: one operation of a tenant after the other.
Serial == INSTANCE TenantSerial WITH
    holder <- [t \in Tenants |->
                  IF locked[KeyOf[t]] \in Requests /\ TenantOf[locked[KeyOf[t]]] = t
                  THEN locked[KeyOf[t]] ELSE NoRequest],
    value <- data
SerialOperations == Serial!SerialSpec

\* Once no request starts any more, everything is given back: the leases that
\* a crash, a lost answer or an unreachable Redis left behind, the advisory
\* locks and the places in the processes.
Quiescent ==
    /\ \A t \in Tenants : owner[t] = NoRequest
    /\ active = {} /\ slots = {} /\ limiter = {}
    /\ \A k \in LockKeys : locked[k] = NoRequest
Starting == \E r \in Requests : At(r, "idle")
NothingStranded == [](~Starting => <>Quiescent)
=============================================================================
