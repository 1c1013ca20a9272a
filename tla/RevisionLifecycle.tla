-------------------------- MODULE RevisionLifecycle --------------------------
(***************************************************************************)
(* The revisions of one project and the review gates between a draft and   *)
(* an immutable release: create_version, validate_version,                 *)
(* approve_version, generate_version and release_version of                *)
(* services/api/app/api.py and save_draft of furniture_api.py, with the    *)
(* generation workers and the loss of evidence running beside them.        *)
(*                                                                         *)
(* A route reads, performs object-store I/O and commits later, so it is    *)
(* two actions of an API process: the first evaluates the route's          *)
(* conditions and keeps what it read in op[p], the second applies the      *)
(* writes of the transaction.  _artifact_operation_dependency makes the    *)
(* routes of api.py exclude each other per tenant.  save_draft and the     *)
(* workers do not take that lock: they meet the routes at row locks only.  *)
(***************************************************************************)
EXTENDS Naturals, FiniteSets

CONSTANTS
    Processes,      \* API processes serving requests of the tenant
    Users,          \* reviewers
    Reviews,        \* contents of a design review: reason, overrides, evidence
    Requests,       \* contents of a generation request
    FourEyes,       \* settings.production_four_eyes_required
    MaxRevision,    \* bound on the project's revisions
    MaxJobs,        \* bound on the project's generation jobs
    MaxBuilds,      \* bound on the successful runs of one job
    MaxDrafts       \* bound on the saved furniture drafts

ASSUME SetsAssumption == FourEyes \in BOOLEAN /\ Reviews \cap Requests = {}
ASSUME BoundsAssumption ==
    /\ MaxRevision \in Nat
    /\ MaxJobs \in Nat
    /\ MaxBuilds \in Nat
    /\ MaxDrafts \in Nat

VARIABLES
    draft,          \* project.draft_revision of the furniture workspace
    current,        \* project.current_revision
    version,        \* revision -> its design_versions row
    design,         \* revision -> its design approval
    cam,            \* revision -> its CAM approval
    release,        \* revision -> its releases row
    created,        \* number of generation jobs, numbered in creation order
    job,            \* job -> its generation_jobs row
    completing,     \* jobs whose completion transaction holds the row lock
    intact,         \* jobs whose stored artifacts still verify
    stale,          \* reviews and requests whose evidence lapsed
    op              \* API process -> the request it is serving

vars == <<draft, current, version, design, cam, release, created, job,
          completing, intact, stale, op>>

Revisions == 1..MaxRevision
Jobs == 1..MaxJobs

-----------------------------------------------------------------------------
(* Rows                                                                    *)

\* A design_versions row; source is the furniture draft it was derived from,
\* 0 when it was not derived from one.
DesignStatuses == {"draft", "design_validated", "approved", "released", "superseded"}
VersionRow == [status : DesignStatuses, immutable : BOOLEAN, source : 0..MaxDrafts]
AbsentVersion == [status |-> "none", immutable |-> FALSE, source |-> 0]
NewVersion(source) == [status |-> "draft", immutable |-> FALSE, source |-> source]
InStatus(row, status) == [row EXCEPT !.status = status]
Superseded(row) == [InStatus(row, "superseded") EXCEPT !.immutable = TRUE]
Released(row) == [InStatus(row, "released") EXCEPT !.immutable = TRUE]

\* The approvals of a revision, at most one of each type.  A design approval
\* is its own snapshot: _design_approval_snapshot keeps every field of it, and
\* the approved_at of its overrides makes a repeated review with overrides new.
NoApproval == [kind |-> "none"]
DesignApproval == [kind : {"design"}, by : Users, review : Reviews]
CamApproval == [kind : {"cam"}, by : Users, job : Jobs, build : 1..MaxBuilds]

NoRelease == [kind |-> "none"]
ReleaseRow == [kind : {"release"}, job : Jobs, build : 1..MaxBuilds,
               design : DesignApproval, cam : CamApproval]

\* A generation_jobs row.  Revision, request and approval snapshot are hashed
\* into its idempotency key; build numbers its successful runs.
JobRow == [rev : Revisions, request : Requests, design : DesignApproval,
           status : {"queued", "running", "succeeded", "failed", "cancelled"},
           build : 0..MaxBuilds]
AbsentJob == [status |-> "none"]
NewJob(r, q, approval) == [rev |-> r, request |-> q, design |-> approval,
                           status |-> "queued", build |-> 0]
WithStatus(row, status) == [row EXCEPT !.status = status]
Built(row) == [WithStatus(row, "succeeded") EXCEPT !.build = row.build + 1]

Idle == [kind |-> "idle"]
CreateOp == [kind : {"create"}, source : 0..MaxDrafts,
             prior : SUBSET Revisions, active : SUBSET Jobs]
ValidateOp == [kind : {"validate"}, rev : Revisions]
DesignOp == [kind : {"approve_design"}, rev : Revisions, approval : DesignApproval]
CamOp == [kind : {"approve_cam"}, rev : Revisions, approval : CamApproval]
GenerateOp == [kind : {"generate"}, rev : Revisions, request : Requests,
               approval : DesignApproval, reset : BOOLEAN]
RequeueOp == [kind : {"retry", "repair"}, rev : Revisions, job : Jobs]
ReleaseOp == [kind : {"release"}, rev : Revisions, record : ReleaseRow]
Operations == {Idle} \cup CreateOp \cup ValidateOp \cup DesignOp \cup CamOp
              \cup GenerateOp \cup RequeueOp \cup ReleaseOp

Init ==
    /\ draft = 0
    /\ current = 0
    /\ version = [r \in Revisions |-> AbsentVersion]
    /\ design = [r \in Revisions |-> NoApproval]
    /\ cam = [r \in Revisions |-> NoApproval]
    /\ release = [r \in Revisions |-> NoRelease]
    /\ created = 0
    /\ job = [j \in Jobs |-> AbsentJob]
    /\ completing = {}
    /\ intact = {}
    /\ stale = {}
    /\ op = [p \in Processes |-> Idle]

-----------------------------------------------------------------------------
(* Locks                                                                   *)

\* Mutant: requests of one tenant do not exclude each other.
TenantUnlocked == TRUE

\* _acquire_database_artifact_operation_locks: pg_try_advisory_xact_lock on
\* the tenant, held until the request's transaction ends.
TenantLockFree == \A p \in Processes : op[p] = Idle

\* Rows that an open request holds FOR UPDATE.
ProjectLocked == \E p \in Processes : op[p].kind = "create"
\* Mutant: save_draft reads the revisions without FOR UPDATE.
VersionUnlocked(r) == FALSE
VersionLocked(r) ==
    \E p \in Processes :
        /\ op[p].kind \notin {"idle", "create", "validate"}
        /\ op[p].rev = r

Begin(p, request) ==
    /\ TenantLockFree
    /\ op' = [op EXCEPT ![p] = request]
    /\ UNCHANGED <<draft, current, version, design, cam, release, created, job,
                   completing, intact, stale>>

End(p) == op' = [op EXCEPT ![p] = Idle]

-----------------------------------------------------------------------------
(* What the routes require                                                 *)

Reviewable == {"design_validated", "approved"}
ActiveStatuses == {"queued", "running"}

JobsOf(r) == {j \in 1..created : job[j].rev = r}
IsLatest(j, r) == j \in JobsOf(r) /\ \A k \in JobsOf(r) : k <= j
Active(R) == {j \in 1..created : job[j].rev \in R /\ job[j].status \in ActiveStatuses}

\* _require_current_design_approval: an approval whose evidence still stands.
DesignCurrent(r) == design[r] # NoApproval /\ design[r].review \notin stale

\* _require_four_eyes_approval_separation.
FourEyesSeparated(designer, reviewer) == FourEyes => designer # reviewer

\* _require_current_bound_job_evidence: the job was generated from exactly the
\* current design approval, and neither that nor its request went stale.
BoundToCurrent(j) ==
    LET r == job[j].rev IN
    /\ DesignCurrent(r)
    /\ job[j].design = design[r]
    /\ job[j].request \notin stale

\* The gate that CAM approval and release share: the latest job of the
\* revision, succeeded, bound to the current approval, with artifacts that
\* still verify (_require_review_evidence).
Reviewed(r, j) ==
    /\ IsLatest(j, r)
    /\ job[j].status = "succeeded"
    /\ BoundToCurrent(j)
    /\ j \in intact

-----------------------------------------------------------------------------
(* Revisions                                                               *)

\* create_version under the project row lock: the earlier revisions and their
\* unfinished jobs are read here and overwritten when the session flushes.
\* The early return of an unchanged current revision writes nothing.
create_version(p) ==
    /\ current < MaxRevision
    /\ LET prior == {r \in 1..current : version[r].status # "superseded"} IN
       Begin(p, [kind |-> "create", source |-> draft, prior |-> prior,
                 active |-> Active(1..current)])

\* The flush waits for a completion that holds one of the job rows.
create_version_commit(p) ==
    /\ op[p].kind = "create"
    /\ op[p].active \cap completing = {}
    /\ current' = current + 1
    /\ version' = [r \in Revisions |->
          IF r = current + 1 THEN NewVersion(op[p].source)
          ELSE IF r \in op[p].prior THEN Superseded(version[r]) ELSE version[r]]
    /\ job' = [j \in Jobs |->
          IF j \in op[p].active THEN WithStatus(job[j], "cancelled") ELSE job[j]]
    /\ End(p)
    /\ UNCHANGED <<draft, design, cam, release, created, completing, intact, stale>>

\* Mutant: a new draft leaves immutable revisions alone.
DerivedMutable ==
    {r \in 1..current : ~version[r].immutable /\ version[r].source # 0}

\* save_draft of the furniture workspace supersedes every revision derived
\* from an earlier draft and cancels its unfinished jobs.  It locks the
\* project, the open revisions and those jobs, and reads them after locking.
Derived == {r \in 1..current : version[r].status # "superseded" /\ version[r].source # 0}
save_draft ==
    /\ draft < MaxDrafts
    /\ ~ProjectLocked
    /\ \A r \in 1..current : version[r].status # "superseded" => ~VersionLocked(r)
    /\ Active(Derived) \cap completing = {}
    /\ draft' = draft + 1
    /\ version' = [r \in Revisions |->
          IF r \in Derived THEN Superseded(version[r]) ELSE version[r]]
    /\ job' = [j \in Jobs |->
          IF j \in Active(Derived) THEN WithStatus(job[j], "cancelled") ELSE job[j]]
    /\ UNCHANGED <<current, design, cam, release, created, completing, intact,
                   stale, op>>

\* validate_version takes no row lock; it only changes a draft.
validate_version(p, r) ==
    /\ version[r].status = "draft"
    /\ ~version[r].immutable
    /\ Begin(p, [kind |-> "validate", rev |-> r])

validate_version_commit(p) ==
    /\ op[p].kind = "validate"
    /\ LET r == op[p].rev IN
       version' = [version EXCEPT ![r] = InStatus(version[r], "design_validated")]
    /\ End(p)
    /\ UNCHANGED <<draft, current, design, cam, release, created, job,
                   completing, intact, stale>>

-----------------------------------------------------------------------------
(* Approvals                                                               *)

\* approve_version, type design.  Repeating the current approval writes
\* nothing; a changed one deletes the CAM approval it no longer supports.
approve_design(p, r, u, v) ==
    LET approval == [kind |-> "design", by |-> u, review |-> v] IN
    /\ version[r].status \in Reviewable
    /\ ~version[r].immutable
    /\ v \notin stale
    /\ design[r] # approval
    /\ Begin(p, [kind |-> "approve_design", rev |-> r, approval |-> approval])

approve_design_commit(p) ==
    /\ op[p].kind = "approve_design"
    /\ LET r == op[p].rev IN
       /\ design' = [design EXCEPT ![r] = op[p].approval]
       /\ cam' = [cam EXCEPT ![r] = NoApproval]
       /\ version' = [version EXCEPT ![r] = InStatus(version[r], "design_validated")]
    /\ End(p)
    /\ UNCHANGED <<draft, current, release, created, job, completing, intact, stale>>

\* approve_version, type cam: no condition on the status of the revision.
approve_cam(p, r, u, j) ==
    /\ ~version[r].immutable
    /\ DesignCurrent(r)
    /\ FourEyesSeparated(design[r].by, u)
    /\ Reviewed(r, j)
    /\ Begin(p, [kind |-> "approve_cam", rev |-> r,
                 approval |-> [kind |-> "cam", by |-> u, job |-> j, build |-> job[j].build]])

approve_cam_commit(p) ==
    /\ op[p].kind = "approve_cam"
    /\ LET r == op[p].rev IN
       /\ cam' = [cam EXCEPT ![r] = op[p].approval]
       /\ version' = [version EXCEPT ![r] = InStatus(version[r], "approved")]
    /\ End(p)
    /\ UNCHANGED <<draft, current, design, release, created, job, completing,
                   intact, stale>>

-----------------------------------------------------------------------------
(* Generation requests                                                     *)

\* Mutant: a released revision may be generated again.
GeneratableReleased(r, q) ==
    /\ version[r].status \in Reviewable \cup {"released"}
    /\ DesignCurrent(r)
    /\ q \notin stale

\* The conditions generate_version checks before it looks for the job with
\* the same idempotency key; immutability is not among them.
Generatable(r, q) ==
    /\ version[r].status \in Reviewable
    /\ DesignCurrent(r)
    /\ q \notin stale
SameKey(r, q) == {j \in JobsOf(r) : job[j].request = q /\ job[j].design = design[r]}

\* No job has the key: a new one is inserted, and a CAM approval of an
\* approved revision is withdrawn.
generate_new(p, r, q) ==
    /\ Generatable(r, q)
    /\ SameKey(r, q) = {}
    /\ created < MaxJobs
    /\ Begin(p, [kind |-> "generate", rev |-> r, request |-> q,
                 approval |-> design[r], reset |-> version[r].status = "approved"])

generate_new_commit(p) ==
    /\ op[p].kind = "generate"
    /\ LET r == op[p].rev IN
       /\ cam' = [cam EXCEPT ![r] = IF op[p].reset THEN NoApproval ELSE cam[r]]
       /\ version' = [version EXCEPT ![r] =
             IF op[p].reset THEN InStatus(version[r], "design_validated") ELSE version[r]]
       /\ created' = created + 1
       /\ job' = [job EXCEPT ![created + 1] = NewJob(r, op[p].request, op[p].approval)]
    /\ End(p)
    /\ UNCHANGED <<draft, current, design, release, completing, intact, stale>>

\* The job with the key failed: it is queued again, its artifacts deleted.
generate_retry(p, r, q) ==
    /\ Generatable(r, q)
    /\ \E j \in SameKey(r, q) :
        /\ job[j].status = "failed"
        /\ Begin(p, [kind |-> "retry", rev |-> r, job |-> j])

\* The job with the key succeeded but its evidence no longer verifies: only
\* the latest job may be repaired, and its CAM approval is withdrawn.
generate_repair(p, r, q) ==
    /\ Generatable(r, q)
    /\ \E j \in SameKey(r, q) :
        /\ job[j].status = "succeeded"
        /\ j \notin intact
        /\ IsLatest(j, r)
        /\ job[j].build < MaxBuilds
        /\ Begin(p, [kind |-> "repair", rev |-> r, job |-> j])

\* Mutant: the repair does not look for a CAM approval of the job.
NoCamOfJob(r, j) == FALSE

\* Both requeues; a repair deletes the CAM approval bound to the job and
\* demotes the revision when no other CAM approval remains.
CamOfJob(r, j) == cam[r] # NoApproval /\ cam[r].job = j
requeue_commit(p) ==
    /\ op[p].kind \in {"retry", "repair"}
    /\ LET r == op[p].rev
           j == op[p].job
           repair == op[p].kind = "repair"
           bound == repair /\ CamOfJob(r, j)
       IN
       /\ cam' = [cam EXCEPT ![r] = IF bound THEN NoApproval ELSE cam[r]]
       /\ version' = [version EXCEPT ![r] =
             IF repair /\ (bound \/ cam[r] = NoApproval) /\ version[r].status = "approved"
             THEN InStatus(version[r], "design_validated") ELSE version[r]]
       /\ job' = [job EXCEPT ![j] = WithStatus(job[j], "queued")]
       /\ intact' = intact \ {j}
    /\ End(p)
    /\ UNCHANGED <<draft, current, design, release, created, completing, stale>>

-----------------------------------------------------------------------------
(* Release                                                                 *)

\* release_version.  Repeating it for a released revision only rereads.
release_version(p, r) ==
    /\ version[r].status = "approved"
    /\ ~version[r].immutable
    /\ DesignCurrent(r)
    /\ cam[r] # NoApproval
    /\ FourEyesSeparated(design[r].by, cam[r].by)
    /\ Reviewed(r, cam[r].job)
    /\ cam[r].build = job[cam[r].job].build
    /\ Begin(p, [kind |-> "release", rev |-> r,
                 record |-> [kind |-> "release", job |-> cam[r].job, build |-> cam[r].build,
                             design |-> design[r], cam |-> cam[r]]])

release_version_commit(p) ==
    /\ op[p].kind = "release"
    /\ LET r == op[p].rev IN
       /\ release' = [release EXCEPT ![r] = op[p].record]
       /\ version' = [version EXCEPT ![r] = Released(version[r])]
    /\ End(p)
    /\ UNCHANGED <<draft, current, design, cam, created, job, completing, intact, stale>>

\* A request that raises, or whose process dies, rolls its transaction back.
abort(p) ==
    /\ op[p] # Idle
    /\ End(p)
    /\ UNCHANGED <<draft, current, version, design, cam, release, created, job,
                   completing, intact, stale>>

-----------------------------------------------------------------------------
(* Workers and the environment                                             *)

\* The attempt of GenerationJob, as far as the review gates can tell.
JobMoves(j, from, to) ==
    /\ j <= created
    /\ j \notin completing
    /\ job[j].status \in from
    /\ job' = [job EXCEPT ![j] = WithStatus(job[j], to)]
    /\ UNCHANGED <<draft, current, version, design, cam, release, created,
                   completing, intact, stale, op>>
worker_claims(j) == JobMoves(j, {"queued"}, "running")
worker_retries(j) == JobMoves(j, {"running"}, "queued")
worker_fails(j) == JobMoves(j, ActiveStatuses, "failed")

\* _complete_job: under the job's row lock the evidence gate finds the job
\* bound to the current approval ...
complete_job(j) ==
    /\ j <= created
    /\ j \notin completing
    /\ job[j].status = "running"
    /\ job[j].build < MaxBuilds
    /\ BoundToCurrent(j)
    /\ completing' = completing \cup {j}
    /\ UNCHANGED <<draft, current, version, design, cam, release, created, job,
                   intact, stale, op>>

\* ... and the transaction commits success, or rolls back, some time later.
complete_job_commit(j) ==
    /\ j \in completing
    /\ completing' = completing \ {j}
    /\ \/ /\ job' = [job EXCEPT ![j] = Built(job[j])]
          /\ intact' = intact \cup {j}
       \/ UNCHANGED <<job, intact>>
    /\ UNCHANGED <<draft, current, version, design, cam, release, created, stale, op>>

\* Evidence expires or is revoked; stored artifacts go missing or corrupt.
EvidenceLapses(x) ==
    /\ stale' = stale \cup {x}
    /\ UNCHANGED <<draft, current, version, design, cam, release, created, job,
                   completing, intact, op>>
ArtifactsLost(j) ==
    /\ intact' = intact \ {j}
    /\ UNCHANGED <<draft, current, version, design, cam, release, created, job,
                   completing, stale, op>>

-----------------------------------------------------------------------------

ReadRequest(p) ==
    \/ create_version(p)
    \/ \E r \in 1..current :
        \/ validate_version(p, r)
        \/ \E u \in Users, v \in Reviews : approve_design(p, r, u, v)
        \/ \E u \in Users, j \in 1..created : approve_cam(p, r, u, j)
        \/ \E q \in Requests : \/ generate_new(p, r, q)
                               \/ generate_retry(p, r, q)
                               \/ generate_repair(p, r, q)
        \/ release_version(p, r)

CommitRequest(p) ==
    \/ create_version_commit(p)
    \/ validate_version_commit(p)
    \/ approve_design_commit(p)
    \/ approve_cam_commit(p)
    \/ generate_new_commit(p)
    \/ requeue_commit(p)
    \/ release_version_commit(p)
    \/ abort(p)

WorkerStep(j) ==
    \/ worker_claims(j)
    \/ worker_retries(j)
    \/ worker_fails(j)
    \/ complete_job(j)
    \/ complete_job_commit(j)

Next ==
    \/ \E p \in Processes : ReadRequest(p) \/ CommitRequest(p)
    \/ save_draft
    \/ \E j \in Jobs : WorkerStep(j)
    \/ \E x \in (Reviews \cup Requests) \ stale : EvidenceLapses(x)
    \/ \E j \in intact : ArtifactsLost(j)

Spec == Init /\ [][Next]_vars
-----------------------------------------------------------------------------
(* Properties                                                              *)

\* Every row, approval, release and pending request is of its type.
TypeOK ==
    /\ draft \in 0..MaxDrafts
    /\ current \in 0..MaxRevision
    /\ version \in [Revisions -> VersionRow \cup {AbsentVersion}]
    /\ design \in [Revisions -> DesignApproval \cup {NoApproval}]
    /\ cam \in [Revisions -> CamApproval \cup {NoApproval}]
    /\ release \in [Revisions -> ReleaseRow \cup {NoRelease}]
    /\ created \in 0..MaxJobs
    /\ job \in [Jobs -> JobRow \cup {AbsentJob}]
    /\ completing \subseteq Jobs
    /\ intact \subseteq Jobs
    /\ stale \subseteq Reviews \cup Requests
    /\ op \in [Processes -> Operations]

\* Both approvals of revision r stand for one package: the build of the job
\* that the CAM reviewer accepted is the latest job's, the job was generated
\* from the design approval on record, and the reviewers are separate.
Corroborated(r, approval, review) ==
    /\ review.kind = "cam"
    /\ approval.kind = "design"
    /\ IsLatest(review.job, r)
    /\ job[review.job].status = "succeeded"
    /\ job[review.job].build = review.build
    /\ job[review.job].design = approval
    /\ FourEyesSeparated(approval.by, review.by)

\* The status "approved" is never left standing on withdrawn grounds: whatever
\* re-approvals, new generations and repairs went before, both approvals exist
\* and agree with the latest package (approve_version, generate_version).
ApprovedIsCorroborated ==
    \A r \in Revisions :
        version[r].status = "approved" => Corroborated(r, design[r], cam[r])

\* A release freezes exactly what was reviewed: its record still equals both
\* approvals, and its package is still the latest, succeeded and unrebuilt
\* (release_version, also after the revision was superseded).
ReleaseIsWhatWasReviewed ==
    \A r \in Revisions : release[r] # NoRelease =>
        /\ version[r].immutable
        /\ Corroborated(r, design[r], cam[r])
        /\ release[r].design = design[r]
        /\ release[r].cam = cam[r]
        /\ release[r].job = cam[r].job /\ release[r].build = cam[r].build

\* Every revision but the current one is superseded and has no unfinished
\* job left (create_version: a later revision cancels the unfinished work).
OldRevisionsAreClosed ==
    /\ \A r \in Revisions : r < current => version[r].status = "superseded"
    /\ \A r \in Revisions : version[r].status = "superseded" => Active({r}) = {}

\* An approved or released revision derives from the furniture draft as it is
\* saved now (save_draft supersedes it together with the new draft).
ApprovedSourceIsSaved ==
    \A r \in Revisions :
        /\ version[r].status \in {"approved", "released"}
        /\ version[r].source # 0
        => version[r].source = draft

\* Immutability is one-way: an immutable revision keeps the flag, both of its
\* approvals and its release, and a released one can only be superseded.
ImmutableIsFrozen ==
    [][\A r \in Revisions : version[r].immutable =>
          /\ version'[r].immutable
          /\ design'[r] = design[r] /\ cam'[r] = cam[r] /\ release'[r] = release[r]
          /\ version[r].status = "released" =>
                version'[r].status \in {"released", "superseded"}]_vars

\* What save_draft's comment claims: "A saved furniture/profile change
\* immediately invalidates derived production revisions".  A revision that is
\* not superseded derives from the saved draft.
DerivedIsCurrent ==
    \A r \in Derived : version[r].source = draft

\* What approve_version's refusal promises ("not bound to the current
\* design-warning approval; generate a new job"): when the latest job is not
\* bound to the current approval, generating does not answer with an older
\* finished job, which no CAM approval accepts.
StaleReviewCanBeRegenerated ==
    \A r \in 1..current, j \in 1..created :
        /\ version[r].status \in Reviewable
        /\ ~version[r].immutable
        /\ IsLatest(j, r)
        /\ job[j].design # design[r]
        => \A q \in Requests : \A k \in SameKey(r, q) :
               ~(job[k].status = "succeeded" /\ k \in intact)
-----------------------------------------------------------------------------
(* The inductive invariant behind the two review invariants                *)

\* The tenant lock: at most one request is between reading and committing.
LockHeldOnce ==
    \A p, q \in Processes : op[p] # Idle /\ op[q] # Idle => p = q

\* Jobs are numbered as they are created; what succeeded was built; and only a
\* running job completes.
JobsNumbered ==
    /\ \A j \in Jobs : j \in 1..created <=> job[j].status # "none"
    /\ \A j \in Jobs : job[j].status = "succeeded" => job[j].build > 0
    /\ \A j \in completing :
          j \in 1..created /\ job[j].status = "running" /\ job[j].build < MaxBuilds

\* Status, flag, approvals and release of one revision agree.
RowAgrees(r) ==
    /\ r > current => version[r].status = "none"
    /\ version[r].status \in {"none", "draft"} => design[r] = NoApproval
    /\ version[r].status \in {"released", "superseded"} => version[r].immutable
    /\ version[r].immutable /\ version[r].status \in Reviewable => design[r] = NoApproval
    /\ cam[r] # NoApproval => version[r].status \in {"approved", "released", "superseded"}
    /\ version[r].status = "approved" => Corroborated(r, design[r], cam[r])
    /\ release[r] # NoRelease =>
          /\ version[r].status \in {"released", "superseded"}
          /\ Corroborated(r, design[r], cam[r])
          /\ release[r].design = design[r]
          /\ release[r].cam = cam[r]
          /\ release[r].job = cam[r].job /\ release[r].build = cam[r].build

\* What a request read still holds when it commits.
CreateHolds(o) ==
    /\ current < MaxRevision
    /\ \A r \in 1..current : version[r].status # "superseded" => r \in o.prior
    /\ o.prior \subseteq 1..current
    /\ o.active \subseteq 1..created
    /\ \A r \in Revisions : release[r] # NoRelease => release[r].job \notin o.active
ValidateHolds(o) ==
    /\ o.rev <= current
    /\ version[o.rev].status \in {"draft", "superseded"}
    /\ design[o.rev] = NoApproval /\ cam[o.rev] = NoApproval
    /\ release[o.rev] = NoRelease
OpenForReview(r) ==
    r <= current /\ version[r].status \in Reviewable /\ ~version[r].immutable
CamHolds(o) == OpenForReview(o.rev) /\ Corroborated(o.rev, design[o.rev], o.approval)
GenerateHolds(o) ==
    /\ OpenForReview(o.rev)
    /\ created < MaxJobs
    /\ o.approval = design[o.rev]
    /\ o.reset = (version[o.rev].status = "approved")
RequeueHolds(o) ==
    /\ OpenForReview(o.rev)
    /\ o.job \in 1..created
    /\ job[o.job].rev = o.rev
    /\ o.kind = "retry" => job[o.job].status = "failed"
    /\ o.kind = "repair" => job[o.job].status = "succeeded" /\ IsLatest(o.job, o.rev)
ReleaseHolds(o) ==
    /\ OpenForReview(o.rev) /\ version[o.rev].status = "approved"
    /\ o.record.design = design[o.rev] /\ o.record.cam = cam[o.rev]
    /\ o.record.job = cam[o.rev].job /\ o.record.build = cam[o.rev].build

RequestHolds(o) ==
    /\ o.kind = "create" => CreateHolds(o)
    /\ o.kind = "validate" => ValidateHolds(o)
    /\ o.kind = "approve_design" => OpenForReview(o.rev)
    /\ o.kind = "approve_cam" => CamHolds(o)
    /\ o.kind = "generate" => GenerateHolds(o)
    /\ o.kind \in {"retry", "repair"} => RequeueHolds(o)
    /\ o.kind = "release" => ReleaseHolds(o)

ReviewInv ==
    /\ TypeOK
    /\ LockHeldOnce
    /\ JobsNumbered
    /\ \A r \in Revisions : RowAgrees(r)
    /\ \A p \in Processes : RequestHolds(op[p])
-----------------------------------------------------------------------------
(* The inductive invariants behind the two closure properties              *)

\* Beside OldRevisionsAreClosed: a job belongs to an existing revision, an open
\* create_version has read every unfinished job, and what validate_version read
\* is the current revision still.
ClosureInv ==
    /\ OldRevisionsAreClosed
    /\ \A j \in 1..created : job[j].rev <= current
    /\ \A p \in Processes :
          /\ op[p].kind = "create" => Active(1..current) \subseteq op[p].active
          /\ op[p].kind = "validate" => op[p].rev = current

\* Whatever may still be approved, and whatever is released, derives from the
\* saved draft; and so will the revision that an open create_version inserts.
SourceInv ==
    /\ \A r \in Revisions :
          /\ ~version[r].immutable \/ version[r].status = "released"
          /\ version[r].source # 0
          => version[r].source = draft
    /\ \A p \in Processes : op[p].kind = "create" => op[p].source = draft
=============================================================================
