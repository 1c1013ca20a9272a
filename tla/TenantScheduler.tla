--------------------------- MODULE TenantScheduler ---------------------------
(***************************************************************************)
(* The loop that the three periodic tasks of the worker share              *)
(* (dispatch_outbox, recover_stale_jobs, reap_abandoned_storage): a tick   *)
(* takes the next value of a cursor in Redis, rotates the list of          *)
(* organisations to start there, and works through it, one transaction per *)
(* organisation, until its global limit is used up.                        *)
(*                                                                         *)
(* Each task has a cursor of its own, so the model is one task; several    *)
(* workers may run ticks of it at the same time.                           *)
(***************************************************************************)
EXTENDS Naturals, FiniteSets, Sequences

LOCAL INSTANCE SequencesExt

CONSTANTS
    MaxOrgs,        \* bound: organisations 1 .. MaxOrgs, in the order of their ids
    Workers,        \* ticks of the task that may overlap
    GlobalLimit,    \* _scheduler_limit(limit): rows one tick may handle
    TenantLimit,    \* STORAGE_REAPER_TENANT_BATCH_LIMIT: rows of one organisation
    MaxBacklog,     \* bound: rows waiting in one organisation
    MaxFaults,      \* bound: faults of Redis and of workers
    CursorCycle     \* the cursor is kept modulo a multiple of every list length

ASSUME SchedulerAssumption ==
    /\ MaxOrgs \in Nat \ {0} /\ MaxBacklog \in Nat /\ MaxFaults \in Nat
    /\ GlobalLimit \in Nat \ {0} /\ TenantLimit \in 1 .. GlobalLimit
    /\ CursorCycle \in Nat /\ \A n \in 1 .. MaxOrgs : CursorCycle % n = 0

Orgs == 1 .. MaxOrgs

VARIABLES
    registry,       \* rows of the organizations table
    poisoned,       \* organisations whose transaction always fails
    backlog,        \* organisation -> rows a tick would select
    cursor,         \* the Redis counter
    tick,           \* worker -> its tick
    faults,         \* faults so far
    owed,           \* history: worker -> organisations that waited when its tick
                    \* began and that no tick served since
    lastServed      \* history: the organisation served last

schedulerVars ==
    <<registry, poisoned, backlog, cursor, tick, faults, owed, lastServed>>

NoTick == [running |-> FALSE, rest |-> <<>>, remaining |-> 0]

SchedulerInit ==
    /\ registry \in SUBSET Orgs
    /\ poisoned \in SUBSET Orgs
    /\ backlog = [o \in Orgs |-> 0]
    /\ cursor = 0
    /\ tick = [w \in Workers |-> NoTick]
    /\ faults = 0
    /\ owed = [w \in Workers |-> {}]
    /\ lastServed = 0

Waiting(o) == o \in registry \ poisoned /\ backlog[o] > 0

-----------------------------------------------------------------------------

\* _organization_ids: ordered by id.
OrganizationIds == SetToSortSeq(registry, LAMBDA a, b : a < b)

\* Mutant: every tick starts at the first organisation.
StartAtZero(tenantCount) == 0

\* _scheduler_start_index, after the INCR.
SchedulerStartIndex(tenantCount) == cursor % tenantCount

\* _rotated_tenant_ids
RotatedTenantIds(ids, start) ==
    SubSeq(ids, start + 1, Len(ids)) \o SubSeq(ids, 1, start)

\* A tick reads the registry and advances the cursor.  With no organisation it
\* ends there, having touched nothing.
tick_starts(w) ==
    /\ ~tick[w].running /\ registry # {}
    /\ cursor' = (cursor + 1) % CursorCycle
    /\ tick' = [tick EXCEPT ![w] =
          [running |-> TRUE, remaining |-> GlobalLimit,
           rest |-> RotatedTenantIds(OrganizationIds,
                        SchedulerStartIndex(Cardinality(registry)))]]
    /\ owed' = [owed EXCEPT ![w] = {o \in registry : Waiting(o)}]
    /\ UNCHANGED <<registry, poisoned, backlog, faults, lastServed>>

\* Mutant: a tenant whose transaction rolls back ends the tick.
StopsAtFailure(w) ==
    [tick[w] EXCEPT !.rest = IF Head(tick[w].rest) \in poisoned THEN <<>> ELSE Tail(tick[w].rest)]

\* The loop goes on with the next organisation, whether this one failed or not.
NextTenant(w) == [tick[w] EXCEPT !.rest = Tail(tick[w].rest)]

\* One organisation: its rows up to what remains of the limits are handled and
\* committed; a failure is logged, rolls them back and counts for nothing.
HandledOf(w, o) ==
    IF o \in poisoned THEN 0
    ELSE CHOOSE n \in 0 .. backlog[o] :
           /\ n <= tick[w].remaining /\ n <= TenantLimit
           /\ n \in {backlog[o], tick[w].remaining, TenantLimit}

visit(w) ==
    LET o == Head(tick[w].rest)
        handled == HandledOf(w, o)
    IN  /\ tick[w].running /\ tick[w].rest # <<>> /\ tick[w].remaining > 0
        /\ backlog' = [backlog EXCEPT ![o] = @ - handled]
        /\ tick' = [tick EXCEPT ![w] = [NextTenant(w) EXCEPT !.remaining = @ - handled]]
        /\ owed' = IF handled = 0 THEN owed ELSE [v \in Workers |-> owed[v] \ {o}]
        /\ lastServed' = IF handled = 0 THEN lastServed ELSE o
        /\ UNCHANGED <<registry, poisoned, cursor, faults>>

tick_ends(w) ==
    /\ tick[w].running
    /\ tick[w].rest = <<>> \/ tick[w].remaining = 0
    /\ tick' = [tick EXCEPT ![w] = NoTick]
    /\ owed' = [owed EXCEPT ![w] = {}]
    /\ UNCHANGED <<registry, poisoned, backlog, cursor, faults, lastServed>>

-----------------------------------------------------------------------------

\* A faulty step counts against the bound.
Faulty == faults < MaxFaults /\ faults' = faults + 1

\* The worker dies between two organisations; what it committed stays.
tick_dies(w) ==
    /\ tick[w].running
    /\ tick' = [tick EXCEPT ![w] = NoTick]
    /\ owed' = [owed EXCEPT ![w] = {}]
    /\ Faulty
    /\ UNCHANGED <<registry, poisoned, backlog, cursor, lastServed>>

\* Redis advances the cursor and its answer is lost: the tick is given up.
cursor_answer_lost ==
    /\ cursor' = (cursor + 1) % CursorCycle
    /\ Faulty
    /\ UNCHANGED <<registry, poisoned, backlog, tick, owed, lastServed>>

\* Redis restarts without the counter.
cursor_lost ==
    /\ cursor' = 0
    /\ Faulty
    /\ UNCHANGED <<registry, poisoned, backlog, tick, owed, lastServed>>

\* An organisation is added: the ones behind it move in the list.
register(o) ==
    /\ o \notin registry
    /\ registry' = registry \cup {o}
    /\ UNCHANGED <<poisoned, backlog, cursor, tick, faults, owed, lastServed>>

\* Rows become due.
arrive(o) ==
    /\ o \in registry /\ backlog[o] < MaxBacklog
    /\ backlog' = [backlog EXCEPT ![o] = @ + 1]
    /\ UNCHANGED <<registry, poisoned, cursor, tick, faults, owed, lastServed>>

SchedulerNext ==
    \/ \E w \in Workers : tick_starts(w) \/ visit(w) \/ tick_ends(w) \/ tick_dies(w)
    \/ cursor_answer_lost \/ cursor_lost
    \/ \E o \in Orgs : register(o) \/ arrive(o)

\* Celery beat sends the task for ever and a worker takes it to its end.
SchedulerFairness ==
    \A w \in Workers : WF_schedulerVars(tick_starts(w) \/ visit(w) \/ tick_ends(w))

SchedulerSpec == SchedulerInit /\ [][SchedulerNext]_schedulerVars /\ SchedulerFairness

-----------------------------------------------------------------------------
(* Properties                                                              *)

\* A tick that went through its list with some of its limit left has served
\* everybody who waited when it began, whatever transaction failed on the way
\* ("continuing with other tenants").
FailureDelaysNobody ==
    \A w \in Workers :
        tick[w].running /\ tick[w].rest = <<>> /\ tick[w].remaining > 0 => owed[w] = {}

\* However much the other organisations produce, one with rows that are due is
\* served again: the cursor lets everybody be first (_scheduler_start_index),
\* also after it was lost or organisations were added, and nobody waits for the
\* transaction of another to succeed.
NobodyStarves ==
    /\ \A o \in Orgs : Waiting(o) ~> lastServed = o
    /\ []FailureDelaysNobody
==============================================================================
