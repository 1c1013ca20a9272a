---------------------------- MODULE StorageLedger ----------------------------
(***************************************************************************)
(* The storage ledger (the stored_objects rows, their tombstones and the   *)
(* quota counters, behind the custombuild_storage_* functions), the        *)
(* writers that store objects under it, the reaper that deletes abandoned  *)
(* objects, the object store, and as much of the generation jobs as        *)
(* decides whether their objects may be reaped.                            *)
(*                                                                         *)
(* The admission checks of reserve_batch that do not depend on the ledger  *)
(* (maintenance fence, database recovery, capacity evidence) only make a   *)
(* writer fail, which writer_fails allows at any time.  The object counts  *)
(* move with the byte counts, by 1 instead of the size: a model in which   *)
(* every Size is 1 is the model of the counts.  The functions refuse a     *)
(* debit that would make a counter negative: CountersMatchLedger shows     *)
(* that this never happens, and the actions do not repeat the check.       *)
(***************************************************************************)
EXTENDS Integers, FiniteSets, FiniteSetsExt

CONSTANTS Objects,    \* physical object keys with their immutable identity
          Tenants,    \* organisations
          TenantOf,   \* TenantOf[o]: the organisation that owns object o
          Size,       \* Size[o]: size_bytes
          Limit,      \* Limit[s]: byte_limit of a tenant, or of Global
          Global,     \* the scope of storage_global_quotas
          Jobs,       \* generation jobs
          Writers,    \* uploads and generation attempts, each with its lease token
          Batch,      \* Batch[w]: the objects w stores
          JobOf,      \* JobOf[w]: the job of a generation attempt, NoJob of an upload
          NoJob,
          OwnerOf,    \* OwnerOf[o]: the job with owner_id of o, or NoJob
          Reapers,    \* reaper processes
          NoOne       \* no lease token and no claim token

Scopes == Tenants \cup {Global}

ASSUME LedgerAssumption ==
    /\ Global \notin Tenants
    /\ TenantOf \in [Objects -> Tenants]
    /\ Size \in [Objects -> Nat \ {0}]
    /\ Limit \in [Scopes -> Nat]
    /\ NoJob \notin Jobs
    /\ OwnerOf \in [Objects -> Jobs \cup {NoJob}]
    /\ JobOf \in [Writers -> Jobs \cup {NoJob}]
    /\ Batch \in [Writers -> SUBSET Objects]
    /\ \A w \in Writers : /\ Batch[w] # {}
                          /\ \A o \in Batch[w] : OwnerOf[o] = JobOf[w]
                          /\ \A o, p \in Batch[w] : TenantOf[o] = TenantOf[p]
    /\ NoOne \notin Writers \cup Reapers
    /\ Writers \cap Reapers = {}
    /\ {"terminal", "queued"} \cap Writers = {}

ASSUME BatchesAreFinite == \A w \in Writers : IsFiniteSet(Batch[w])

VARIABLES
    row,         \* row[o]: the stored_objects row
    reserved,    \* reserved[s]: reserved_bytes of a scope
    committed,   \* committed[s]: committed_bytes of a scope
    tombstones,  \* objects in storage_object_tombstones
    references,  \* objects a committed domain row refers to
    bytes,       \* objects present in the object store
    stray,       \* objects for which a delayed DELETE may still arrive
    writer,      \* writer[w]: progress of a writer
    reaper,      \* reaper[r]: progress of a reaper
    job          \* job[j]: "terminal", "queued" or the attempt that runs it

counters == <<reserved, committed>>
ledger == <<row, counters, tombstones>>
vars == <<ledger, references, bytes, stray, writer, reaper, job>>

-----------------------------------------------------------------------------
(* Rows and processes *)

\* holder is the lease_token of a reserved row and the claim_token of a reaping
\* one; fresh says that the lease or claim has not expired; marker is the
\* accounting state the claim token carries.
Row == [state  : {"absent", "reserved", "committed", "reaping"},
        holder : Writers \cup Reapers \cup {NoOne},
        fresh  : BOOLEAN,
        marker : {"none", "reserved", "committed"}]

AbsentRow == [state |-> "absent", holder |-> NoOne, fresh |-> FALSE, marker |-> "none"]
ReservedRow(w) == [state |-> "reserved", holder |-> w, fresh |-> TRUE, marker |-> "none"]
CommittedRow == [state |-> "committed", holder |-> NoOne, fresh |-> FALSE,
                 marker |-> "none"]
ReapingRow(r, marker) ==
    [state |-> "reaping", holder |-> r, fresh |-> TRUE, marker |-> marker]

Expired(r) == [r EXCEPT !.fresh = FALSE]

\* A generation attempt is new until it claims its job; an upload starts ready.
WriterRow == [pc     : {"new", "ready", "storing", "committing", "done"},
              stored : SUBSET Objects]
NewWriter(w) == [pc |-> IF JobOf[w] = NoJob THEN "ready" ELSE "new", stored |-> {}]

WithStored(proc, o) == [proc EXCEPT !.stored = proc.stored \cup {o}]

\* A writer or reaper that moves on.
At(proc, pc) == [proc EXCEPT !.pc = pc]

\* A reaper is between two of the steps of reap_storage_claim, working on object.
ReaperRow == [pc     : {"idle", "scanned", "claimed", "deleting", "confirming",
                        "confirmed"},
              object : SUBSET Objects,     \* empty or one object
              marker : {"none", "reserved", "committed"}]
IdleReaper == [pc |-> "idle", object |-> {}, marker |-> "none"]

Init ==
    /\ row = [o \in Objects |-> AbsentRow]
    /\ reserved = [s \in Scopes |-> 0]
    /\ committed = [s \in Scopes |-> 0]
    /\ tombstones = {} /\ references = {} /\ bytes = {} /\ stray = {}
    /\ writer = [w \in Writers |-> NewWriter(w)]
    /\ reaper = [r \in Reapers |-> IdleReaper]
    /\ job = [j \in Jobs |-> "queued"]

-----------------------------------------------------------------------------
(* Helpers *)

Total(objects) == MapThenSumSet(LAMBDA o : Size[o], objects)
InScope(objects, s) == IF s = Global THEN objects
                       ELSE {o \in objects : TenantOf[o] = s}

\* A completion holds the row locks of commit_batch, and the lock of the one
\* storage_global_quotas row, until its transaction ends.
Committing(w) == writer[w].pc = "committing"
GlobalLocked == \E w \in Writers : Committing(w)
ObjectLocked(o) == \E w \in Writers : Committing(w) /\ o \in Batch[w]
JobLocked(j) == \E w \in Writers : Committing(w) /\ JobOf[w] = j

\* A queued or running job, or one with an unexpired lease, protects its objects.
JobLive(j) == j # NoJob /\ job[j] # "terminal"
\* Mutant: only jobs protect their objects, domain rows do not.
ProtectedByJob(o) == JobLive(OwnerOf[o])
Protected(o) == o \in references \/ JobLive(OwnerOf[o])

Owned(j) == {o \in Objects : OwnerOf[o] = j}
HasReapingObject(j) == \E o \in Owned(j) : row[o].state = "reaping"

-----------------------------------------------------------------------------
(* Generation jobs.  The BEFORE trigger on generation_jobs rejects a write that *)
(* leaves the job live while one of its objects is reaping.                     *)

claim_job(w) ==
    LET j == JobOf[w] IN
    /\ writer[w].pc = "new"
    /\ job[j] = "queued"
    /\ ~HasReapingObject(j)
    /\ job' = [job EXCEPT ![j] = w]
    /\ writer' = [writer EXCEPT ![w] = At(writer[w], "ready")]
    /\ UNCHANGED <<ledger, references, bytes, stray, reaper>>

\* A failure or a vanished lease puts the job back into the queue ...
retry_job(j) ==
    /\ job[j] \notin {"terminal", "queued"}
    /\ ~JobLocked(j)
    /\ ~HasReapingObject(j)
    /\ job' = [job EXCEPT ![j] = "queued"]
    /\ UNCHANGED <<ledger, references, bytes, stray, writer, reaper>>

\* ... or ends it, and so does its deadline.
terminalize_job(j) ==
    /\ job[j] # "terminal"
    /\ ~JobLocked(j)
    /\ job' = [job EXCEPT ![j] = "terminal"]
    /\ UNCHANGED <<ledger, references, bytes, stray, writer, reaper>>

\* Manual retry or evidence repair: prepare_generation_retry finds no reaper claim
\* on the job's objects, the artifact rows go, and the job is queued.
requeue_generation(j) ==
    /\ job[j] = "terminal"
    /\ ~HasReapingObject(j)
    /\ references' = references \ Owned(j)
    /\ job' = [job EXCEPT ![j] = "queued"]
    /\ UNCHANGED <<ledger, bytes, stray, writer, reaper>>

-----------------------------------------------------------------------------
(* Writers *)

\* Mutant: a retired key is admitted again.
ReservableRetired(w, o) ==
    \/ row[o].state \in {"absent", "committed"}
    \/ row[o].state = "reserved" /\ (~row[o].fresh \/ row[o].holder = w)

\* reserve_batch admits an absent object, a committed one (which it leaves as it
\* is) and a reserved one whose lease expired or is the writer's own.
Reservable(w, o) ==
    /\ o \notin tombstones
    /\ \/ row[o].state \in {"absent", "committed"}
       \/ row[o].state = "reserved" /\ (~row[o].fresh \/ row[o].holder = w)

NewObjects(w) == {o \in Batch[w] : row[o].state = "absent"}

\* Mutant: the batch is held against the limit of its tenant only.
FitsTenantQuota(objects) ==
    \A s \in Tenants :
        reserved[s] + committed[s] + Total(InScope(objects, s)) <= Limit[s]

FitsQuota(objects) ==
    \A s \in Scopes :
        reserved[s] + committed[s] + Total(InScope(objects, s)) <= Limit[s]

reserve_batch(w) ==
    /\ writer[w].pc = "ready"
    /\ ~GlobalLocked
    /\ \A o \in Batch[w] : Reservable(w, o)
    /\ FitsQuota(NewObjects(w))
    /\ row' = [o \in Objects |->
                 IF o \in Batch[w] /\ row[o].state # "committed"
                 THEN ReservedRow(w) ELSE row[o]]
    /\ reserved' = [s \in Scopes |->
                      reserved[s] + Total(InScope(NewObjects(w), s))]
    /\ writer' = [writer EXCEPT ![w] = At(writer[w], "storing")]
    /\ UNCHANGED <<committed, tombstones, references, bytes, stray, reaper, job>>

\* store_create_once_object: a conditional PUT, then a check of what is stored.
\* Only the writer's own clock stands between an expired lease and a late PUT.
store_object(w, o) ==
    /\ writer[w].pc = "storing"
    /\ o \in Batch[w] \ writer[w].stored
    /\ bytes' = bytes \cup {o}
    /\ writer' = [writer EXCEPT ![w] = WithStored(writer[w], o)]
    /\ UNCHANGED <<ledger, references, stray, reaper, job>>

\* commit_batch, inside the transaction that inserts the domain rows.
Committable(w, o) ==
    \/ row[o].state = "committed"
    \/ row[o].state = "reserved" /\ row[o].holder = w /\ row[o].fresh

commit_batch(w) ==
    /\ writer[w].pc = "storing"
    /\ writer[w].stored = Batch[w]
    /\ JobOf[w] # NoJob => job[JobOf[w]] = w
    /\ ~GlobalLocked
    /\ \A o \in Batch[w] : Committable(w, o)
    /\ writer' = [writer EXCEPT ![w] = At(writer[w], "committing")]
    /\ UNCHANGED <<ledger, references, bytes, stray, reaper, job>>

\* The transaction commits: the deferred trigger finds exact committed rows, and a
\* generation job has succeeded.
MovedObjects(w) == {o \in Batch[w] : row[o].state = "reserved"}

commit_transaction(w) ==
    /\ Committing(w)
    /\ row' = [o \in Objects |-> IF o \in MovedObjects(w) THEN CommittedRow
                                 ELSE row[o]]
    /\ reserved' = [s \in Scopes |-> reserved[s] - Total(InScope(MovedObjects(w), s))]
    /\ committed' = [s \in Scopes |-> committed[s] + Total(InScope(MovedObjects(w), s))]
    /\ references' = references \cup Batch[w]
    /\ writer' = [writer EXCEPT ![w] = At(writer[w], "done")]
    /\ job' = [j \in Jobs |-> IF j = JobOf[w] THEN "terminal" ELSE job[j]]
    /\ UNCHANGED <<tombstones, bytes, stray, reaper>>

\* A refused reservation, a failed PUT, a lost lease, a rollback, or a crash.
writer_fails(w) ==
    /\ writer[w].pc \notin {"new", "done"}
    /\ writer' = [writer EXCEPT ![w] = At(writer[w], "done")]
    /\ UNCHANGED <<ledger, references, bytes, stray, reaper, job>>

-----------------------------------------------------------------------------
(* Reaper *)

\* Mutant: nobody takes over the expired claim of another reaper.
CandidateUnclaimed(o, marker) ==
    \/ marker = "reserved" /\ row[o].state = "reserved" /\ ~row[o].fresh
    \/ marker = "committed" /\ row[o].state = "committed"

\* The columns of the row that make it a candidate of claim_reap.
Candidate(o, marker) ==
    \/ marker = "reserved" /\ row[o].state = "reserved" /\ ~row[o].fresh
    \/ marker = "committed" /\ row[o].state = "committed"
    \/ row[o].state = "reaping" /\ ~row[o].fresh /\ row[o].marker = marker

\* The SELECT of claim_reap evaluates its whole WHERE clause in one snapshot ...
claim_reap_scan(r, o, marker) ==
    /\ reaper[r].pc = "idle"
    /\ Candidate(o, marker)
    /\ ~Protected(o)
    /\ reaper' = [reaper EXCEPT ![r] = [pc |-> "scanned", object |-> {o},
                                        marker |-> marker]]
    /\ UNCHANGED <<ledger, references, bytes, stray, writer, job>>

\* ... and locks the row afterwards.  READ COMMITTED evaluates the columns of a row
\* that has changed in between again, but not the subqueries on other tables.
claim_reap_lock(r, o) ==
    /\ reaper[r].pc = "scanned"
    /\ reaper[r].object = {o}
    /\ IF ~ObjectLocked(o) /\ Candidate(o, reaper[r].marker)
       THEN /\ row' = [row EXCEPT ![o] = ReapingRow(r, reaper[r].marker)]
            /\ reaper' = [reaper EXCEPT ![r] = At(reaper[r], "claimed")]
       ELSE /\ reaper' = [reaper EXCEPT ![r] = IdleReaper]
            /\ UNCHANGED row
    /\ UNCHANGED <<counters, tombstones, references, bytes, stray, writer, job>>

HoldsClaim(r, o) ==
    row[o].state = "reaping" /\ row[o].holder = r /\ row[o].fresh

reap_preflight(r, o) ==
    /\ reaper[r].pc = "claimed"
    /\ reaper[r].object = {o}
    /\ ~GlobalLocked
    /\ reaper' = [reaper EXCEPT ![r] = IF HoldsClaim(r, o) /\ ~Protected(o)
                                       THEN At(reaper[r], "deleting")
                                       ELSE IdleReaper]
    /\ UNCHANGED <<ledger, references, bytes, stray, writer, job>>

\* The HEAD before the DELETE finds nothing to delete, or the DELETE is done; in
\* both cases a duplicate sent by the SDK may still be under way.
delete_object(r, o) ==
    /\ reaper[r].pc = "deleting"
    /\ reaper[r].object = {o}
    /\ IF o \in bytes
       THEN /\ bytes' = bytes \ {o}
            /\ stray' \in {stray, stray \cup {o}}
            /\ reaper' = [reaper EXCEPT ![r] = At(reaper[r], "confirming")]
       ELSE /\ reaper' = [reaper EXCEPT ![r] = At(reaper[r], "confirmed")]
            /\ UNCHANGED <<bytes, stray>>
    /\ UNCHANGED <<ledger, references, writer, job>>

\* A provider error: the DELETE may have been sent, and may arrive later.
delete_object_fails(r, o) ==
    /\ reaper[r].pc = "deleting"
    /\ reaper[r].object = {o}
    /\ stray' \in {stray, stray \cup {o}}
    /\ reaper' = [reaper EXCEPT ![r] = IdleReaper]
    /\ UNCHANGED <<ledger, references, bytes, writer, job>>

confirm_missing(r, o) ==
    /\ reaper[r].pc = "confirming"
    /\ reaper[r].object = {o}
    /\ reaper' = [reaper EXCEPT ![r] = IF o \in bytes THEN IdleReaper
                                       ELSE At(reaper[r], "confirmed")]
    /\ UNCHANGED <<ledger, references, bytes, stray, writer, job>>

\* Mutant: the global counter is not debited.
DebitedTenant(counter, o) ==
    [s \in Scopes |-> IF s = Global THEN counter[s]
                      ELSE counter[s] - Total(InScope({o}, s))]

\* finalize_reap: tombstone, debit and deletion of the row in one transaction.
Debited(counter, o) ==
    [s \in Scopes |-> counter[s] - Total(InScope({o}, s))]

finalize_reap(r, o) ==
    /\ reaper[r].pc = "confirmed"
    /\ reaper[r].object = {o}
    /\ ~GlobalLocked
    /\ IF HoldsClaim(r, o) /\ ~Protected(o)
       THEN /\ tombstones' = tombstones \cup {o}
            /\ row' = [row EXCEPT ![o] = AbsentRow]
            /\ IF reaper[r].marker = "reserved"
               THEN reserved' = Debited(reserved, o) /\ UNCHANGED committed
               ELSE committed' = Debited(committed, o) /\ UNCHANGED reserved
       ELSE UNCHANGED ledger
    /\ reaper' = [reaper EXCEPT ![r] = IdleReaper]
    /\ UNCHANGED <<references, bytes, stray, writer, job>>

reaper_crash(r) ==
    /\ reaper[r].pc # "idle"
    /\ reaper' = [reaper EXCEPT ![r] = IdleReaper]
    /\ UNCHANGED <<ledger, references, bytes, stray, writer, job>>

-----------------------------------------------------------------------------
(* Environment: delayed requests and the clock *)

StrayDelete(o) ==
    /\ o \in stray
    /\ bytes' = bytes \ {o}
    /\ stray' = stray \ {o}
    /\ UNCHANGED <<ledger, references, writer, reaper, job>>

\* A reservation lease or a reaper claim runs out.
LeaseExpires(o) ==
    /\ row[o].fresh
    /\ row' = [row EXCEPT ![o] = Expired(row[o])]
    /\ UNCHANGED <<counters, tombstones, references, bytes, stray, writer, reaper,
                   job>>

-----------------------------------------------------------------------------
JobStep(j) == retry_job(j) \/ terminalize_job(j) \/ requeue_generation(j)

WriterStep(w) ==
    \/ claim_job(w) \/ reserve_batch(w)
    \/ \E o \in Batch[w] : store_object(w, o)
    \/ commit_batch(w) \/ commit_transaction(w) \/ writer_fails(w)

ReapStep(r, o) ==
    \/ \E marker \in {"reserved", "committed"} : claim_reap_scan(r, o, marker)
    \/ claim_reap_lock(r, o) \/ reap_preflight(r, o)
    \/ delete_object(r, o) \/ delete_object_fails(r, o)
    \/ confirm_missing(r, o) \/ finalize_reap(r, o)

Next ==
    \/ \E j \in Jobs : JobStep(j)
    \/ \E w \in Writers : WriterStep(w)
    \/ \E r \in Reapers : reaper_crash(r) \/ \E o \in Objects : ReapStep(r, o)
    \/ \E o \in Objects : StrayDelete(o) \/ LeaseExpires(o)

Spec == Init /\ [][Next]_vars

\* Beat runs the reaper for ever, on every tenant; a job reaches its deadline; an
\* upload or an attempt ends; leases and the claims of dead reapers run out.
Working(o) == \E r \in Reapers : reaper[r].object = {o} /\ HoldsClaim(r, o)

ReaperFairness ==
    \A o \in Objects :
        /\ SF_vars(\E r \in Reapers : \E marker \in {"reserved", "committed"} :
                      claim_reap_scan(r, o, marker))
        /\ \A r \in Reapers :
              WF_vars(\/ claim_reap_lock(r, o) \/ reap_preflight(r, o)
                      \/ delete_object(r, o) \/ confirm_missing(r, o)
                      \/ finalize_reap(r, o))
        /\ WF_vars(LeaseExpires(o) /\ ~Working(o))

WriterFairness ==
    /\ \A w \in Writers : WF_vars(writer_fails(w) \/ commit_transaction(w))
    /\ \A j \in Jobs : WF_vars(terminalize_job(j))

\* From some time on the reaper does not crash, the object store answers it, no late
\* PUT undoes a DELETE, and a claim outlives the work of its reaper.
Calm ==
    /\ \A r \in Reapers : ~reaper_crash(r)
    /\ \A r \in Reapers, o \in Objects : ~delete_object_fails(r, o)
    /\ \A o \in Objects : ~(LeaseExpires(o) /\ Working(o))
    /\ \A w \in Writers, o \in Objects : ~store_object(w, o)

FairSpec == Spec /\ ReaperFairness /\ WriterFairness /\ <>[][Calm]_vars

-----------------------------------------------------------------------------
(* Properties *)

StateTyped ==
    /\ row \in [Objects -> Row]
    /\ tombstones \subseteq Objects
    /\ references \subseteq Objects
    /\ bytes \subseteq Objects
    /\ stray \subseteq Objects
    /\ writer \in [Writers -> WriterRow]
    /\ reaper \in [Reapers -> ReaperRow]
    /\ job \in [Jobs -> {"terminal", "queued"} \cup Writers]

\* Rows, processes and counters are of their types.
TypeOK ==
    /\ StateTyped
    /\ reserved \in [Scopes -> Int]
    /\ committed \in [Scopes -> Int]

\* The counters of every scope are the sums over its rows; a row that is being
\* reaped still counts under the accounting state its claim token carries.
Accounted(state) ==
    {o \in Objects : \/ row[o].state = state
                     \/ row[o].state = "reaping" /\ row[o].marker = state}

CountersMatchLedger ==
    \A s \in Scopes :
        /\ reserved[s] = Total(InScope(Accounted("reserved"), s))
        /\ committed[s] = Total(InScope(Accounted("committed"), s))

\* The rows of a tenant, and of all tenants together, never exceed their limit,
\* whatever batches, takeovers and reaps interleave.
LedgerFitsQuota ==
    \A s \in Scopes :
        Total(InScope({o \in Objects : row[o].state # "absent"}, s)) <= Limit[s]

\* Both: the limits hold for what is really there, because the counters they
\* are compared with never drift (_custombuild_storage_reserve_batch, Debited).
QuotaIsExact == CountersMatchLedger /\ LedgerFitsQuota

\* Its inductive strengthening: finitely many rows exist, what is reaped carries one
\* of the two accounting states, the reaper that holds a claim debits the state that
\* the claim carries, and no counter pair exceeds its limit.
ClaimsCarryTheirState ==
    /\ \A o \in Objects : row[o].state = "reaping" => row[o].marker \in {"reserved", "committed"}
    /\ \A r \in Reapers, o \in Objects :
          /\ reaper[r].object = {o} /\ reaper[r].pc \notin {"idle", "scanned"}
          /\ row[o].state = "reaping" /\ row[o].holder = r
          => row[o].marker = reaper[r].marker

CountersFitQuota == \A s \in Scopes : reserved[s] + committed[s] <= Limit[s]

Present == {o \in Objects : row[o].state # "absent"}

QuotaInv ==
    /\ reserved \in [Scopes -> Int] /\ committed \in [Scopes -> Int]
    /\ IsFiniteSet(Present)
    /\ ClaimsCarryTheirState
    /\ CountersMatchLedger /\ CountersFitQuota

\* An object that a domain row refers to is in the object store: no reaper, and no
\* delayed or duplicated DELETE of an earlier reaper, removes it.
ReferencedBytesExist == references \subseteq bytes

\* A retired key stays retired: no later reservation, commit or reference binds it.
RetiredStaysRetired ==
    \A o \in tombstones : row[o] = AbsentRow /\ o \notin references

\* The inductive strengthening of the two: what a DELETE may still hit is no longer
\* referenced and can never be bound again; what is committed, or stored by a writer
\* whose row nobody reaps, is in the object store; and an open completion holds the
\* locks of rows that are reserved or committed.
Doomed(o) ==
    o \notin references /\ (row[o].state = "reaping" \/ o \in tombstones)

DeletesAreDoomed ==
    /\ \A o \in stray : Doomed(o)
    /\ \A r \in Reapers :
          reaper[r].pc \in {"deleting", "confirming", "confirmed"}
          => \A o \in reaper[r].object : Doomed(o)

StoredBytesExist ==
    /\ \A o \in Objects : row[o].state = "committed" => o \in bytes
    /\ \A w \in Writers : \A o \in writer[w].stored :
          o \in bytes \/ row[o].state = "reaping" \/ o \in tombstones

CompletionsHoldTheirRows ==
    \A w \in Writers :
        Committing(w) => /\ writer[w].stored = Batch[w]
                         /\ \A o \in Batch[w] : row[o].state \in {"reserved", "committed"}

LedgerInv ==
    /\ StateTyped
    /\ ReferencedBytesExist /\ RetiredStaysRetired
    /\ DeletesAreDoomed /\ StoredBytesExist /\ CompletionsHoldTheirRows

\* A row leaves reaping only into its tombstone: an expired claim passes to another
\* reaper, never back to a writer.
ReapingIsOneWay ==
    [][\A o \in Objects :
         row[o].state = "reaping" /\ row'[o].state # "reaping"
         => row'[o].state = "absent" /\ o \in tombstones']_vars

\* A job that is queued or running has no object under a reaper claim (the liveness
\* trigger and its KEY SHARE lock are there to exclude it).
ReapingExcludesLiveJob ==
    \A j \in Jobs : HasReapingObject(j) => ~JobLive(j)

\* A reservation ends: its quota is committed, or returned by the reaper.
ReservationEnds ==
    \A o \in Objects :
        row[o].state \in {"reserved", "reaping"} ~> row[o].state \in {"committed", "absent"}
=============================================================================
