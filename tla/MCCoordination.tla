--------------------------- MODULE MCCoordination ---------------------------
(***************************************************************************)
(* Instances for TLC of what tenants share and must not starve each other *)
(* of: the artifact operation guard and the tenant scheduler.  The two     *)
(* share no state: the variable part picks the one that moves in a         *)
(* behaviour, the other stays as it began.                                 *)
(***************************************************************************)
EXTENDS ArtifactOperationLease, TenantScheduler, TLC

CONSTANTS r1, r2, r3, t1, t2, a1, a2, k1, k2

MCTenantOf == r1 :> t1 @@ r2 :> t1 @@ r3 :> t2
MCReplicaOf == r1 :> a1 @@ r2 :> a2 @@ r3 :> a1
MCKeyOf == t1 :> k1 @@ t2 :> k2

VARIABLE part
vars == <<leaseVars, schedulerVars, part>>

Init ==
    /\ part \in {"lease", "scheduler"}
    /\ LeaseInit /\ SchedulerInit
    /\ part = "lease" => registry = {} /\ poisoned = {}

Next ==
    \/ part = "lease" /\ LeaseNext /\ UNCHANGED <<schedulerVars, part>>
    \/ part = "scheduler" /\ SchedulerNext /\ UNCHANGED <<leaseVars, part>>

Spec ==
    /\ Init /\ [][Next]_vars
    /\ LeaseFairness /\ SchedulerFairness
=============================================================================
