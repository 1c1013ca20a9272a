----------------------- MODULE RevisionLifecycleProofs -----------------------
(* Proofs of RevisionLifecycle: what stands approved or released was reviewed *)
(* as one package, for any number of processes, revisions and jobs.           *)
EXTENDS RevisionLifecycle, TLAPS

-----------------------------------------------------------------------------
(* Rows *)

\* What the writers of a design_versions row change, and that they keep it one.
LEMMA VersionWriters ==
  ASSUME NEW row \in VersionRow \cup {AbsentVersion}
  PROVE  /\ \A status \in DesignStatuses :
              /\ InStatus(row, status) \in VersionRow
              /\ InStatus(row, status).status = status
              /\ InStatus(row, status).immutable = row.immutable
         /\ Superseded(row) \in VersionRow
         /\ Superseded(row).status = "superseded" /\ Superseded(row).immutable = TRUE
         /\ Released(row) \in VersionRow
         /\ Released(row).status = "released" /\ Released(row).immutable = TRUE
         /\ \A source \in 0..MaxDrafts :
              /\ NewVersion(source) \in VersionRow
              /\ NewVersion(source).status = "draft" /\ ~NewVersion(source).immutable
<1>1. /\ row.immutable \in BOOLEAN /\ row.source \in 0..MaxDrafts
      /\ row = [status |-> row.status, immutable |-> row.immutable, source |-> row.source]
  <2>1. CASE row \in VersionRow
    BY <2>1 DEF VersionRow
  <2>2. CASE row = AbsentVersion
    BY <2>2, BoundsAssumption DEF AbsentVersion
  <2> QED BY <2>1, <2>2
<1>2. ASSUME NEW status \in DesignStatuses
      PROVE  /\ InStatus(row, status) \in VersionRow
             /\ InStatus(row, status).status = status
             /\ InStatus(row, status).immutable = row.immutable
  <2>1. InStatus(row, status) = [status |-> status, immutable |-> row.immutable,
                                 source |-> row.source]
    BY <1>1 DEF InStatus
  <2> QED BY <1>1, <2>1 DEF VersionRow
<1>3. ASSUME NEW x \in VersionRow, NEW b \in BOOLEAN
      PROVE  /\ [x EXCEPT !.immutable = b] \in VersionRow
             /\ [x EXCEPT !.immutable = b].status = x.status
             /\ [x EXCEPT !.immutable = b].immutable = b
  BY DEF VersionRow
<1>4. /\ Superseded(row) \in VersionRow
      /\ Superseded(row).status = "superseded" /\ Superseded(row).immutable = TRUE
      /\ Released(row) \in VersionRow
      /\ Released(row).status = "released" /\ Released(row).immutable = TRUE
  BY <1>2, <1>3 DEF Superseded, Released, DesignStatuses
<1>5. ASSUME NEW source \in 0..MaxDrafts
      PROVE  /\ NewVersion(source) \in VersionRow
             /\ NewVersion(source).status = "draft" /\ ~NewVersion(source).immutable
  BY DEF NewVersion, VersionRow, DesignStatuses
<1> QED BY <1>2, <1>4, <1>5

\* What the writers of a generation_jobs row change, and that they keep it one.
LEMMA JobWriters ==
  ASSUME NEW row \in JobRow
  PROVE  /\ \A status \in {"queued", "running", "succeeded", "failed", "cancelled"} :
              /\ WithStatus(row, status) \in JobRow
              /\ WithStatus(row, status).status = status
              /\ WithStatus(row, status).rev = row.rev
              /\ WithStatus(row, status).build = row.build
         /\ row.build < MaxBuilds => Built(row) \in JobRow
         /\ Built(row).status = "succeeded" /\ Built(row).rev = row.rev
         /\ Built(row).build > 0
<1>1. /\ row.rev \in Revisions /\ row.request \in Requests /\ row.design \in DesignApproval
      /\ row.build \in 0..MaxBuilds
      /\ row = [rev |-> row.rev, request |-> row.request, design |-> row.design,
                status |-> row.status, build |-> row.build]
  BY DEF JobRow
<1>2. ASSUME NEW status \in {"queued", "running", "succeeded", "failed", "cancelled"}
      PROVE  /\ WithStatus(row, status) \in JobRow
             /\ WithStatus(row, status).status = status
             /\ WithStatus(row, status).rev = row.rev
             /\ WithStatus(row, status).build = row.build
  <2>1. WithStatus(row, status) = [rev |-> row.rev, request |-> row.request,
                                   design |-> row.design, status |-> status,
                                   build |-> row.build]
    BY <1>1 DEF WithStatus
  <2> QED BY <1>1, <2>1 DEF JobRow
<1>3. Built(row) = [rev |-> row.rev, request |-> row.request, design |-> row.design,
                    status |-> "succeeded", build |-> row.build + 1]
  <2>1. WithStatus(row, "succeeded") = [rev |-> row.rev, request |-> row.request,
                                        design |-> row.design, status |-> "succeeded",
                                        build |-> row.build]
    BY <1>1 DEF WithStatus
  <2> QED BY <1>1, <2>1 DEF Built
<1>4. row.build + 1 > 0 /\ (row.build < MaxBuilds => row.build + 1 \in 0..MaxBuilds)
  BY <1>1, BoundsAssumption
<1>5. row.build < MaxBuilds => Built(row) \in JobRow
  BY <1>1, <1>3, <1>4 DEF JobRow
<1>6. /\ Built(row).status = "succeeded" /\ Built(row).rev = row.rev
      /\ Built(row).build > 0
  BY <1>3, <1>4
<1> QED BY <1>2, <1>5, <1>6

\* A new job is a queued row of its revision.
LEMMA NewJobTyped ==
  ASSUME NEW r \in Revisions, NEW q \in Requests, NEW a \in DesignApproval
  PROVE  /\ NewJob(r, q, a) \in JobRow
         /\ NewJob(r, q, a).status = "queued" /\ NewJob(r, q, a).rev = r
  BY BoundsAssumption DEF NewJob, JobRow

\* The kind of a pending request tells its fields.
LEMMA OperationKinds ==
  ASSUME NEW o \in Operations
  PROVE  /\ o.kind = "create" => o \in CreateOp
         /\ o.kind = "validate" => o \in ValidateOp
         /\ o.kind = "approve_design" => o \in DesignOp
         /\ o.kind = "approve_cam" => o \in CamOp
         /\ o.kind = "generate" => o \in GenerateOp
         /\ o.kind \in {"retry", "repair"} => o \in RequeueOp
         /\ o.kind = "release" => o \in ReleaseOp
         /\ o.kind = "idle" => o = Idle
  BY DEF Operations, Idle, CreateOp, ValidateOp, DesignOp, CamOp, GenerateOp,
     RequeueOp, ReleaseOp

\* The pending requests that the routes create are operations.
LEMMA OperationsTyped ==
  ASSUME NEW r \in Revisions
  PROVE  /\ Idle \in Operations
         /\ \A d \in 0..MaxDrafts, P \in SUBSET Revisions, A \in SUBSET Jobs :
              [kind |-> "create", source |-> d, prior |-> P, active |-> A] \in Operations
         /\ [kind |-> "validate", rev |-> r] \in Operations
         /\ \A a \in DesignApproval :
              [kind |-> "approve_design", rev |-> r, approval |-> a] \in Operations
         /\ \A a \in CamApproval :
              [kind |-> "approve_cam", rev |-> r, approval |-> a] \in Operations
         /\ \A q \in Requests, a \in DesignApproval, b \in BOOLEAN :
              [kind |-> "generate", rev |-> r, request |-> q, approval |-> a, reset |-> b]
                \in Operations
         /\ \A j \in Jobs : /\ [kind |-> "retry", rev |-> r, job |-> j] \in Operations
                            /\ [kind |-> "repair", rev |-> r, job |-> j] \in Operations
         /\ \A x \in ReleaseRow : [kind |-> "release", rev |-> r, record |-> x] \in Operations
  BY DEF Operations, Idle, CreateOp, ValidateOp, DesignOp, CamOp, GenerateOp,
     RequeueOp, ReleaseOp

-----------------------------------------------------------------------------
(* What keeps the invariant *)

\* Every created job has a row.
LEMMA CreatedJobs ==
  ASSUME TypeOK, JobsNumbered
  PROVE  /\ \A j \in 1..created : j \in Jobs /\ job[j] \in JobRow
         /\ \A j \in Jobs : job[j].status # "none" => j \in 1..created
  BY BoundsAssumption DEF TypeOK, JobsNumbered, Jobs, AbsentJob

\* Every revision has a row or is absent.
LEMMA VersionTyped ==
  ASSUME TypeOK, NEW r \in Revisions
  PROVE  /\ version[r] \in VersionRow \cup {AbsentVersion}
         /\ version[r].immutable \in BOOLEAN
<1>1. version[r] \in VersionRow \cup {AbsentVersion}
  BY DEF TypeOK
<1>2. CASE version[r] \in VersionRow
  BY <1>2 DEF VersionRow
<1>3. CASE version[r] = AbsentVersion
  BY <1>3 DEF AbsentVersion
<1> QED BY <1>1, <1>2, <1>3

\* Two approvals of a revision stay corroborated while its list of jobs stays
\* and the reviewed job is not written.
LEMMA CorroboratedKept ==
  ASSUME NEW r, NEW a, NEW c, Corroborated(r, a, c),
         1..created \subseteq 1..created',
         JobsOf(r)' \subseteq JobsOf(r),
         job'[c.job] = job[c.job]
  PROVE  /\ c.kind = "cam" /\ a.kind = "design"
         /\ IsLatest(c.job, r)'
         /\ job'[c.job].status = "succeeded"
         /\ job'[c.job].build = c.build
         /\ job'[c.job].design = a
         /\ FourEyesSeparated(a.by, c.by)
<1>1. c.job \in JobsOf(r)'
  BY DEF Corroborated, IsLatest, JobsOf
<1> QED BY <1>1 DEF Corroborated, IsLatest

\* The jobs of revision r are the same and none that succeeded is written.
PackagesKept(r) ==
    /\ JobsOf(r)' = JobsOf(r)
    /\ \A j \in JobsOf(r) : job[j].status = "succeeded" => job'[j] = job[j]

\* A revision whose row, approvals, release and finished jobs are not written
\* still agrees.
LEMMA RowKept ==
  ASSUME NEW r \in Revisions, RowAgrees(r), TypeOK, PackagesKept(r),
         current' \in Nat, current' >= current, 1..created \subseteq 1..created',
         version'[r] = version[r], design'[r] = design[r], cam'[r] = cam[r],
         release'[r] = release[r]
  PROVE  RowAgrees(r)'
<1>1. Corroborated(r, design[r], cam[r]) => Corroborated(r, design[r], cam[r])'
  <2>1. SUFFICES ASSUME Corroborated(r, design[r], cam[r])
                 PROVE  Corroborated(r, design[r], cam[r])'
    OBVIOUS
  <2>2. cam[r].job \in JobsOf(r) /\ job[cam[r].job].status = "succeeded"
    BY <2>1 DEF Corroborated, IsLatest
  <2> QED BY <2>1, <2>2, CorroboratedKept DEF Corroborated, PackagesKept
<1>2. r > current' => r > current
  BY BoundsAssumption DEF TypeOK, Revisions
<1> QED BY <1>1, <1>2 DEF RowAgrees

\* So does one that is superseded, whatever it was before, if the job it was
\* released with is not written.
LEMMA RowSuperseded ==
  ASSUME NEW r \in Revisions, RowAgrees(r), TypeOK,
         JobsOf(r)' \subseteq JobsOf(r), 1..created \subseteq 1..created',
         r <= current', current' \in Nat,
         release[r] # NoRelease => job'[release[r].job] = job[release[r].job],
         version'[r].status = "superseded", version'[r].immutable = TRUE,
         design'[r] = design[r], cam'[r] = cam[r], release'[r] = release[r]
  PROVE  RowAgrees(r)'
<1>1. release[r] # NoRelease => Corroborated(r, design[r], cam[r])'
  BY CorroboratedKept DEF RowAgrees, Corroborated
<1>2. ~(r > current')
  BY BoundsAssumption DEF TypeOK, Revisions
<1> QED BY <1>1, <1>2 DEF RowAgrees, Reviewable

\* Whatever a request reads, it begins by remembering that and writes no row.
LEMMA ReadBegins ==
  ASSUME NEW p \in Processes, ReadRequest(p)
  PROVE  \E o : Begin(p, o)
<1>1. CASE create_version(p)
  BY <1>1 DEF create_version
<1>2. ASSUME NEW r \in 1..current, validate_version(p, r) PROVE \E o : Begin(p, o)
  BY <1>2 DEF validate_version
<1>3. ASSUME NEW r \in 1..current, release_version(p, r) PROVE \E o : Begin(p, o)
  BY <1>3 DEF release_version
<1>4. ASSUME NEW r \in 1..current, NEW u \in Users, NEW v \in Reviews,
             approve_design(p, r, u, v)
      PROVE  \E o : Begin(p, o)
  BY <1>4 DEF approve_design
<1>5. ASSUME NEW r \in 1..current, NEW u \in Users, NEW j \in 1..created,
             approve_cam(p, r, u, j)
      PROVE  \E o : Begin(p, o)
  BY <1>5 DEF approve_cam
<1>6. ASSUME NEW r \in 1..current, NEW q \in Requests, generate_new(p, r, q)
      PROVE  \E o : Begin(p, o)
  BY <1>6 DEF generate_new
<1>7. ASSUME NEW r \in 1..current, NEW q \in Requests, generate_retry(p, r, q)
      PROVE  \E o : Begin(p, o)
  BY <1>7 DEF generate_retry
<1>8. ASSUME NEW r \in 1..current, NEW q \in Requests, generate_repair(p, r, q)
      PROVE  \E o : Begin(p, o)
  BY <1>8 DEF generate_repair
<1> QED BY <1>1, <1>2, <1>3, <1>4, <1>5, <1>6, <1>7, <1>8 DEF ReadRequest

\* A request that has read its rows: nothing is written, and what it read holds.
LEMMA BeginKeeps ==
  ASSUME ReviewInv, NEW p \in Processes, NEW o \in Operations, RequestHolds(o), Begin(p, o)
  PROVE  ReviewInv'
<1>1. \A q \in Processes : op'[q] = IF q = p THEN o ELSE op[q]
  BY DEF Begin, ReviewInv, TypeOK
<1>2. TypeOK'
  BY DEF ReviewInv, TypeOK, Begin
<1>3. LockHeldOnce'
  BY <1>1 DEF Begin, TenantLockFree, LockHeldOnce
<1>4. JobsNumbered' /\ \A r \in Revisions : RowAgrees(r)'
  BY DEF ReviewInv, Begin, JobsNumbered, RowAgrees, Corroborated, IsLatest, JobsOf
<1>5. ASSUME NEW q \in Processes
      PROVE  RequestHolds(op[q])'
  <2>1. RequestHolds(op'[q])
    BY <1>1 DEF ReviewInv
  <2>2. UNCHANGED <<draft, current, version, design, cam, release, created, job>>
    BY DEF Begin
  <2> QED BY <2>1, <2>2, SMTT(30) DEF RequestHolds, CreateHolds, ValidateHolds, OpenForReview,
             CamHolds, GenerateHolds, RequeueHolds, ReleaseHolds, Corroborated, IsLatest, JobsOf
<1> QED BY <1>2, <1>3, <1>4, <1>5 DEF ReviewInv

\* A request that ends leaves no other one open.
LEMMA EndKeeps ==
  ASSUME ReviewInv, NEW p \in Processes, op[p] # Idle, End(p),
         TypeOK', JobsNumbered', \A r \in Revisions : RowAgrees(r)'
  PROVE  ReviewInv'
<1>1. \A q \in Processes : op'[q] = Idle
  BY DEF End, ReviewInv, TypeOK, LockHeldOnce
<1>2. LockHeldOnce'
  BY <1>1 DEF LockHeldOnce
<1>3. \A q \in Processes : op'[q].kind = "idle"
  BY <1>1 DEF Idle
<1>4. \A q \in Processes : RequestHolds(op[q])'
  BY <1>3 DEF RequestHolds
<1> QED BY <1>2, <1>4 DEF ReviewInv

-----------------------------------------------------------------------------
(* Reading: the conditions of each route establish what its commit relies on *)

\* The empty project satisfies the invariant.
LEMMA ReviewInvInit == Init => ReviewInv
<1> SUFFICES ASSUME Init PROVE ReviewInv
  OBVIOUS
<1>1. TypeOK
  BY BoundsAssumption DEF Init, TypeOK, Operations
<1>2. LockHeldOnce /\ JobsNumbered
  BY DEF Init, LockHeldOnce, JobsNumbered, AbsentJob
<1>3. ASSUME NEW r \in Revisions
      PROVE  RowAgrees(r)
  BY DEF Init, RowAgrees, AbsentVersion, Reviewable
<1>4. \A p \in Processes : RequestHolds(op[p])
  BY DEF Init, RequestHolds, Idle
<1> QED BY <1>1, <1>2, <1>3, <1>4 DEF ReviewInv

\* Under the project lock: every open revision will be superseded, and no
\* released job is among those to cancel.
LEMMA CreateReads ==
  ASSUME ReviewInv, NEW p \in Processes, create_version(p)
  PROVE  ReviewInv'
<1> DEFINE P == {r \in 1..current : version[r].status # "superseded"}
           o == [kind |-> "create", source |-> draft, prior |-> P, active |-> Active(1..current)]
<1>1. /\ 1 \in Revisions /\ P \in SUBSET Revisions /\ Active(1..current) \in SUBSET Jobs
      /\ Active(1..current) \subseteq 1..created
  BY BoundsAssumption DEF ReviewInv, TypeOK, create_version, Revisions, Jobs, Active
<1>2. o \in Operations
  BY <1>1, OperationsTyped DEF ReviewInv, TypeOK
<1>3. ASSUME NEW r \in Revisions, release[r] # NoRelease
      PROVE  release[r].job \notin Active(1..current)
  BY <1>3 DEF ReviewInv, RowAgrees, Corroborated, Active, ActiveStatuses
<1>4. CreateHolds(o)
  BY <1>1, <1>3 DEF CreateHolds, create_version
<1>5. RequestHolds(o)
  BY <1>4 DEF RequestHolds
<1>6. Begin(p, o)
  BY DEF create_version
<1> QED BY <1>2, <1>5, <1>6, BeginKeeps

\* A draft has no approval and no release (validate_version).
LEMMA ValidateReads ==
  ASSUME ReviewInv, NEW p \in Processes, NEW r \in 1..current, validate_version(p, r)
  PROVE  ReviewInv'
<1> DEFINE o == [kind |-> "validate", rev |-> r]
<1>1. r \in Revisions /\ r <= current
  BY BoundsAssumption DEF ReviewInv, TypeOK, Revisions
<1>2. o \in Operations
  BY <1>1, OperationsTyped
<1>3. ValidateHolds(o)
  BY <1>1 DEF ReviewInv, RowAgrees, ValidateHolds, validate_version
<1>4. RequestHolds(o)
  BY <1>3 DEF RequestHolds
<1> QED BY <1>2, <1>4, BeginKeeps DEF validate_version

\* approve_version, type design, asks for a revision open for review.
LEMMA ApproveDesignReads ==
  ASSUME ReviewInv, NEW p \in Processes, NEW r \in 1..current, NEW u \in Users,
         NEW v \in Reviews, approve_design(p, r, u, v)
  PROVE  ReviewInv'
<1> DEFINE a == [kind |-> "design", by |-> u, review |-> v]
           o == [kind |-> "approve_design", rev |-> r, approval |-> a]
<1>1. r \in Revisions /\ r <= current
  BY BoundsAssumption DEF ReviewInv, TypeOK, Revisions
<1>2. o \in Operations
  BY <1>1, OperationsTyped DEF DesignApproval
<1>3. OpenForReview(r)
  BY <1>1 DEF OpenForReview, approve_design
<1>4. RequestHolds(o)
  BY <1>3 DEF RequestHolds
<1> QED BY <1>2, <1>4, BeginKeeps DEF approve_design

\* The route has no condition on the status: that the revision is under review
\* follows from its having a design approval and not being immutable.
LEMMA ApproveCamReads ==
  ASSUME ReviewInv, NEW p \in Processes, NEW r \in 1..current, NEW u \in Users,
         NEW j \in 1..created, approve_cam(p, r, u, j)
  PROVE  ReviewInv'
<1> DEFINE a == [kind |-> "cam", by |-> u, job |-> j, build |-> job[j].build]
           o == [kind |-> "approve_cam", rev |-> r, approval |-> a]
<1>1. r \in Revisions /\ r <= current
  BY BoundsAssumption DEF ReviewInv, TypeOK, Revisions
<1>2. j \in Jobs /\ job[j] \in JobRow /\ job[j].status = "succeeded"
  BY CreatedJobs DEF ReviewInv, approve_cam, Reviewed
<1>3. job[j].build \in 1..MaxBuilds
  BY <1>2, BoundsAssumption DEF ReviewInv, JobsNumbered, JobRow
<1>4. o \in Operations
  BY <1>1, <1>2, <1>3, OperationsTyped DEF CamApproval
<1>5. /\ design[r] # NoApproval /\ design[r].kind = "design"
      /\ job[j].rev = r /\ job[j].design = design[r]
  BY <1>1 DEF ReviewInv, TypeOK, DesignApproval, approve_cam, DesignCurrent, Reviewed,
     IsLatest, JobsOf, BoundToCurrent
<1>6. OpenForReview(r)
  <2>1. version[r] \in VersionRow \cup {AbsentVersion}
    BY <1>1 DEF ReviewInv, TypeOK
  <2>2. version[r].status \in DesignStatuses \cup {"none"}
    BY <2>1 DEF VersionRow, AbsentVersion
  <2> QED BY <1>1, <1>5, <2>2 DEF OpenForReview, ReviewInv, RowAgrees, approve_cam,
             Reviewable, DesignStatuses
<1>7. Corroborated(r, design[r], a)
  BY <1>2, <1>5 DEF Corroborated, approve_cam, Reviewed
<1>8. RequestHolds(o)
  BY <1>6, <1>7 DEF RequestHolds, CamHolds
<1> QED BY <1>4, <1>8, BeginKeeps DEF approve_cam

\* generate_version does not ask whether the revision is immutable; a design
\* approval of a revision under review implies that it is not.
LEMMA GeneratableIsOpen ==
  ASSUME ReviewInv, NEW r \in 1..current, NEW q, Generatable(r, q)
  PROVE  r \in Revisions /\ OpenForReview(r) /\ design[r] \in DesignApproval
<1>1. r \in Revisions /\ r <= current
  BY BoundsAssumption DEF ReviewInv, TypeOK, Revisions
<1>2. design[r] # NoApproval
  BY DEF Generatable, DesignCurrent
<1> QED BY <1>1, <1>2 DEF ReviewInv, TypeOK, RowAgrees, OpenForReview, Generatable

\* generate_version, new job: the approval it hashes is the one on record.
LEMMA GenerateReads ==
  ASSUME ReviewInv, NEW p \in Processes, NEW r \in 1..current, NEW q \in Requests,
         generate_new(p, r, q)
  PROVE  ReviewInv'
<1> DEFINE b == version[r].status = "approved"
           o == [kind |-> "generate", rev |-> r, request |-> q,
                 approval |-> design[r], reset |-> b]
<1>1. r \in Revisions /\ OpenForReview(r) /\ design[r] \in DesignApproval
  BY GeneratableIsOpen DEF generate_new
<1>2. b \in BOOLEAN
  OBVIOUS
<1> HIDE DEF b
<1>3. o \in Operations
  BY <1>1, <1>2, OperationsTyped
<1>4. GenerateHolds(o)
  BY <1>1 DEF GenerateHolds, generate_new, b
<1>5. RequestHolds(o)
  BY <1>4 DEF RequestHolds
<1>6. Begin(p, o)
  BY DEF generate_new, b
<1> QED BY <1>3, <1>5, <1>6, BeginKeeps

\* generate_version, retry of a failed or repair of the latest job.
LEMMA RequeueReads ==
  ASSUME ReviewInv, NEW p \in Processes, NEW r \in 1..current, NEW q \in Requests,
         generate_retry(p, r, q) \/ generate_repair(p, r, q)
  PROVE  ReviewInv'
<1>1. r \in Revisions /\ OpenForReview(r)
  BY GeneratableIsOpen DEF generate_retry, generate_repair
<1>2. ASSUME generate_retry(p, r, q)
      PROVE  ReviewInv'
  <2>1. PICK j \in SameKey(r, q) :
           job[j].status = "failed" /\ Begin(p, [kind |-> "retry", rev |-> r, job |-> j])
    BY <1>2 DEF generate_retry
  <2>2. j \in 1..created /\ job[j].rev = r /\ j \in Jobs
    BY CreatedJobs DEF SameKey, JobsOf, ReviewInv
  <2> DEFINE o == [kind |-> "retry", rev |-> r, job |-> j]
  <2>3. o \in Operations
    BY <1>1, <2>2, OperationsTyped
  <2>4. RequestHolds(o)
    BY <1>1, <2>1, <2>2 DEF RequestHolds, RequeueHolds
  <2> QED BY <2>1, <2>3, <2>4, BeginKeeps
<1>3. ASSUME generate_repair(p, r, q)
      PROVE  ReviewInv'
  <2>1. PICK j \in SameKey(r, q) :
           /\ job[j].status = "succeeded" /\ IsLatest(j, r)
           /\ Begin(p, [kind |-> "repair", rev |-> r, job |-> j])
    BY <1>3 DEF generate_repair
  <2>2. j \in 1..created /\ job[j].rev = r /\ j \in Jobs
    BY CreatedJobs DEF SameKey, JobsOf, ReviewInv
  <2> DEFINE o == [kind |-> "repair", rev |-> r, job |-> j]
  <2>3. o \in Operations
    BY <1>1, <2>2, OperationsTyped
  <2>4. RequestHolds(o)
    BY <1>1, <2>1, <2>2 DEF RequestHolds, RequeueHolds
  <2> QED BY <2>1, <2>3, <2>4, BeginKeeps
<1> QED BY <1>2, <1>3

\* release_version records the approvals it read.
LEMMA ReleaseReads ==
  ASSUME ReviewInv, NEW p \in Processes, NEW r \in 1..current, release_version(p, r)
  PROVE  ReviewInv'
<1> DEFINE x == [kind |-> "release", job |-> cam[r].job, build |-> cam[r].build,
                 design |-> design[r], cam |-> cam[r]]
           o == [kind |-> "release", rev |-> r, record |-> x]
<1>1. r \in Revisions /\ r <= current
  BY BoundsAssumption DEF ReviewInv, TypeOK, Revisions
<1>2. cam[r] \in CamApproval /\ design[r] \in DesignApproval
  BY <1>1 DEF ReviewInv, TypeOK, release_version, DesignCurrent
<1>3. x \in ReleaseRow
  BY <1>2 DEF ReleaseRow, CamApproval
<1>4. o \in Operations
  BY <1>1, <1>3, OperationsTyped
<1>5. ReleaseHolds(o)
  BY <1>1 DEF ReleaseHolds, OpenForReview, Reviewable, release_version
<1>6. RequestHolds(o)
  BY <1>5 DEF RequestHolds
<1> QED BY <1>4, <1>6, BeginKeeps DEF release_version

-----------------------------------------------------------------------------
(* Committing: only the rows of the request's revision change *)

\* create_version supersedes every earlier revision and cancels what it read as
\* unfinished, also a job that has succeeded since; no release names such a job.
LEMMA CreateCommits ==
  ASSUME ReviewInv, NEW p \in Processes, create_version_commit(p)
  PROVE  ReviewInv'
<1>1. op[p] \in CreateOp /\ op[p] # Idle /\ CreateHolds(op[p])
  BY OperationKinds DEF ReviewInv, TypeOK, create_version_commit, Idle, RequestHolds
<1>2. /\ current \in Nat /\ current + 1 \in Revisions /\ current' = current + 1
      /\ current' \in 0..MaxRevision
  BY <1>1, BoundsAssumption DEF CreateHolds, create_version_commit, ReviewInv, TypeOK, Revisions
<1>3. \A r \in Revisions : version'[r] =
         IF r = current + 1 THEN NewVersion(op[p].source)
         ELSE IF r \in op[p].prior THEN Superseded(version[r]) ELSE version[r]
  BY DEF create_version_commit
<1>4. \A j \in Jobs : job'[j] =
         IF j \in op[p].active THEN WithStatus(job[j], "cancelled") ELSE job[j]
  BY DEF create_version_commit
<1>5. \A j \in op[p].active :
         /\ j \in 1..created /\ j \in Jobs /\ j \notin completing
         /\ job'[j] \in JobRow /\ job'[j].status = "cancelled" /\ job'[j].rev = job[j].rev
  BY <1>1, <1>4, CreatedJobs, JobWriters DEF CreateHolds, ReviewInv, create_version_commit
<1>6. \A r : JobsOf(r)' = JobsOf(r)
  BY <1>4, <1>5, CreatedJobs DEF JobsOf, ReviewInv, create_version_commit
<1>7. TypeOK'
  <2>1. op[p].source \in 0..MaxDrafts
    BY <1>1 DEF CreateOp
  <2>2. version' \in [Revisions -> VersionRow \cup {AbsentVersion}]
    <3>1. ASSUME NEW r \in Revisions
          PROVE  version'[r] \in VersionRow \cup {AbsentVersion}
      <4>1. version[r] \in VersionRow \cup {AbsentVersion}
        BY VersionTyped DEF ReviewInv
      <4>2. Superseded(version[r]) \in VersionRow /\ NewVersion(op[p].source) \in VersionRow
        BY <2>1, <4>1, VersionWriters
      <4> QED BY <1>3, <4>1, <4>2
    <3> QED BY <3>1 DEF create_version_commit
  <2>3. job' \in [Jobs -> JobRow \cup {AbsentJob}]
    <3>1. \A j \in Jobs : job'[j] \in JobRow \cup {AbsentJob}
      BY <1>4, <1>5 DEF ReviewInv, TypeOK
    <3> QED BY <3>1 DEF create_version_commit
  <2>4. op' \in [Processes -> Operations]
    BY DEF create_version_commit, End, ReviewInv, TypeOK, Operations
  <2> QED BY <1>2, <2>2, <2>3, <2>4 DEF create_version_commit, ReviewInv, TypeOK
<1>8. JobsNumbered'
  BY <1>4, <1>5 DEF JobsNumbered, ReviewInv, TypeOK, create_version_commit
<1>9. ASSUME NEW r \in Revisions
      PROVE  RowAgrees(r)'
  <2>1. /\ design'[r] = design[r] /\ cam'[r] = cam[r] /\ release'[r] = release[r]
        /\ RowAgrees(r) /\ created' = created
    BY DEF create_version_commit, ReviewInv
  <2>2. release[r] # NoRelease => job'[release[r].job] = job[release[r].job]
    <3>1. SUFFICES ASSUME release[r] # NoRelease
                   PROVE  job'[release[r].job] = job[release[r].job]
      OBVIOUS
    <3>2. release[r].job \in Jobs /\ release[r].job \notin op[p].active
      BY <1>1, <3>1 DEF CreateHolds, ReviewInv, TypeOK, ReleaseRow
    <3> QED BY <3>2, <1>4
  <2>3. CASE r = current + 1
    <3>1. design[r] = NoApproval /\ cam[r] = NoApproval /\ release[r] = NoRelease
      BY <2>1, <2>3, <1>2 DEF RowAgrees
    <3>2. version'[r].status = "draft" /\ version'[r].immutable = FALSE
      BY <1>1, <1>3, <2>3 DEF CreateOp, NewVersion
    <3> QED BY <1>2, <2>1, <2>3, <3>1, <3>2 DEF RowAgrees, Reviewable
  <2>4. CASE r \in op[p].prior
    <3>1. r <= current /\ r # current + 1
      BY <1>1, <1>2, <2>4 DEF CreateHolds
    <3>2. version'[r].status = "superseded" /\ version'[r].immutable = TRUE
      <4>1. version[r] \in VersionRow \cup {AbsentVersion}
        BY VersionTyped DEF ReviewInv
      <4>2. version'[r] = Superseded(version[r])
        BY <1>3, <2>4, <3>1
      <4>3. /\ Superseded(version[r]).status = "superseded"
            /\ Superseded(version[r]).immutable = TRUE
        BY <4>1, VersionWriters
      <4> QED BY <4>2, <4>3
    <3>3. r <= current' /\ current' \in Nat
      BY <1>2, <3>1 DEF Revisions
    <3> QED BY <1>6, <2>1, <2>2, <3>2, <3>3, RowSuperseded DEF ReviewInv
  <2>5. CASE r # current + 1 /\ r \notin op[p].prior
    <3>1. version'[r] = version[r]
      BY <1>3, <2>5
    <3>2. CASE r <= current
      <4>1. version[r].status = "superseded" /\ version[r].immutable
        BY <1>1, <1>2, <2>1, <2>5, <3>2 DEF CreateHolds, Revisions, RowAgrees
      <4>2. version[r].immutable \in BOOLEAN
        BY VersionTyped DEF ReviewInv
      <4>3. version'[r].status = "superseded" /\ version'[r].immutable = TRUE
        BY <3>1, <4>1, <4>2
      <4>4. r <= current' /\ current' \in Nat
        BY <1>2, <3>2 DEF Revisions
      <4> QED BY <1>6, <2>1, <2>2, <4>3, <4>4, RowSuperseded DEF ReviewInv
    <3>3. CASE r > current
      <4>1. /\ version[r].status = "none" /\ design[r] = NoApproval /\ cam[r] = NoApproval
            /\ release[r] = NoRelease
        BY <2>1, <3>3 DEF RowAgrees
      <4> QED BY <2>1, <3>1, <4>1 DEF RowAgrees, Reviewable
    <3> QED BY <1>2, <3>2, <3>3 DEF Revisions
  <2> QED BY <2>3, <2>4, <2>5
<1> QED BY <1>1, <1>7, <1>8, <1>9, EndKeeps DEF create_version_commit

\* A commit that writes the row and approvals of one revision and no job.
LEMMA ReviewCommits ==
  ASSUME ReviewInv, NEW p \in Processes, op[p] # Idle, End(p), NEW r \in Revisions,
         UNCHANGED <<draft, current, created, job, completing, intact, stale>>,
         version' \in [Revisions -> VersionRow \cup {AbsentVersion}],
         design' \in [Revisions -> DesignApproval \cup {NoApproval}],
         cam' \in [Revisions -> CamApproval \cup {NoApproval}],
         release' \in [Revisions -> ReleaseRow \cup {NoRelease}],
         RowAgrees(r)',
         \A s \in Revisions \ {r} : /\ version'[s] = version[s] /\ design'[s] = design[s]
                                    /\ cam'[s] = cam[s] /\ release'[s] = release[s]
  PROVE  ReviewInv'
<1>1. TypeOK'
  BY DEF ReviewInv, TypeOK, End, Operations
<1>2. JobsNumbered'
  BY DEF ReviewInv, JobsNumbered
<1>3. ASSUME NEW s \in Revisions, s # r
      PROVE  RowAgrees(s)'
  <2>1. PackagesKept(s)
    BY DEF PackagesKept, JobsOf
  <2>2. current' \in Nat /\ current' >= current /\ 1..created \subseteq 1..created'
    BY DEF ReviewInv, TypeOK
  <2> QED BY <1>3, <2>1, <2>2, RowKept DEF ReviewInv
<1> QED BY <1>1, <1>2, <1>3, EndKeeps

\* A revision may have been superseded since the request read it as a draft.
LEMMA ValidateCommits ==
  ASSUME ReviewInv, NEW p \in Processes, validate_version_commit(p)
  PROVE  ReviewInv'
<1>1. op[p] \in ValidateOp /\ op[p] # Idle /\ ValidateHolds(op[p])
  BY OperationKinds DEF ReviewInv, TypeOK, validate_version_commit, Idle, RequestHolds
<1>2. PICK r \in Revisions : r = op[p].rev
  BY <1>1 DEF ValidateOp
<1>3. /\ InStatus(version[r], "design_validated") \in VersionRow
      /\ InStatus(version[r], "design_validated").status = "design_validated"
  BY VersionTyped, VersionWriters DEF ReviewInv, DesignStatuses
<1>4. /\ version' \in [Revisions -> VersionRow \cup {AbsentVersion}]
      /\ version'[r].status = "design_validated"
      /\ \A s \in Revisions \ {r} : version'[s] = version[s]
  BY <1>2, <1>3 DEF validate_version_commit, ReviewInv, TypeOK
<1>5. RowAgrees(r)'
  BY <1>1, <1>2, <1>4, BoundsAssumption DEF validate_version_commit, ValidateHolds,
     RowAgrees, Reviewable, ReviewInv, TypeOK, Revisions
<1>6. /\ design' \in [Revisions -> DesignApproval \cup {NoApproval}]
      /\ cam' \in [Revisions -> CamApproval \cup {NoApproval}]
      /\ release' \in [Revisions -> ReleaseRow \cup {NoRelease}]
  BY DEF validate_version_commit, ReviewInv, TypeOK
<1> QED BY <1>1, <1>4, <1>5, <1>6, ReviewCommits DEF validate_version_commit

\* A new design approval demotes the revision and drops its CAM approval.
LEMMA ApproveDesignCommits ==
  ASSUME ReviewInv, NEW p \in Processes, approve_design_commit(p)
  PROVE  ReviewInv'
<1>1. op[p] \in DesignOp /\ op[p] # Idle /\ OpenForReview(op[p].rev)
  BY OperationKinds DEF ReviewInv, TypeOK, approve_design_commit, Idle, RequestHolds
<1>2. PICK r \in Revisions : r = op[p].rev
  BY <1>1 DEF DesignOp
<1>3. /\ InStatus(version[r], "design_validated") \in VersionRow
      /\ InStatus(version[r], "design_validated").status = "design_validated"
      /\ InStatus(version[r], "design_validated").immutable = version[r].immutable
  BY VersionTyped, VersionWriters DEF ReviewInv, DesignStatuses
<1>4. /\ version' \in [Revisions -> VersionRow \cup {AbsentVersion}]
      /\ version'[r].status = "design_validated"
      /\ version'[r].immutable = version[r].immutable
      /\ \A s \in Revisions \ {r} : version'[s] = version[s]
  BY <1>2, <1>3 DEF approve_design_commit, ReviewInv, TypeOK
<1>5. /\ design' \in [Revisions -> DesignApproval \cup {NoApproval}]
      /\ cam' \in [Revisions -> CamApproval \cup {NoApproval}]
      /\ release' \in [Revisions -> ReleaseRow \cup {NoRelease}]
      /\ cam'[r] = NoApproval
      /\ \A s \in Revisions \ {r} :
           design'[s] = design[s] /\ cam'[s] = cam[s] /\ release'[s] = release[s]
  BY <1>1, <1>2 DEF approve_design_commit, ReviewInv, TypeOK, DesignOp
<1>6. release'[r] = NoRelease /\ ~version[r].immutable /\ ~(r > current')
  BY <1>1, <1>2, BoundsAssumption DEF approve_design_commit, OpenForReview, Reviewable,
     ReviewInv, RowAgrees, TypeOK, Revisions
<1>7. RowAgrees(r)'
  BY <1>4, <1>5, <1>6 DEF RowAgrees
<1> QED BY <1>1, <1>4, <1>5, <1>7, ReviewCommits DEF approve_design_commit

\* The CAM approval and the design approval agree with the latest package.
LEMMA ApproveCamCommits ==
  ASSUME ReviewInv, NEW p \in Processes, approve_cam_commit(p)
  PROVE  ReviewInv'
<1>1. op[p] \in CamOp /\ op[p] # Idle /\ CamHolds(op[p])
  BY OperationKinds DEF ReviewInv, TypeOK, approve_cam_commit, Idle, RequestHolds
<1>2. PICK r \in Revisions : r = op[p].rev
  BY <1>1 DEF CamOp
<1>3. /\ InStatus(version[r], "approved") \in VersionRow
      /\ InStatus(version[r], "approved").status = "approved"
      /\ InStatus(version[r], "approved").immutable = version[r].immutable
  BY VersionTyped, VersionWriters DEF ReviewInv, DesignStatuses
<1>4. /\ version' \in [Revisions -> VersionRow \cup {AbsentVersion}]
      /\ version'[r].status = "approved"
      /\ version'[r].immutable = version[r].immutable
      /\ \A s \in Revisions \ {r} : version'[s] = version[s]
  BY <1>2, <1>3 DEF approve_cam_commit, ReviewInv, TypeOK
<1>5. /\ design' \in [Revisions -> DesignApproval \cup {NoApproval}]
      /\ cam' \in [Revisions -> CamApproval \cup {NoApproval}]
      /\ release' \in [Revisions -> ReleaseRow \cup {NoRelease}]
      /\ cam'[r] = op[p].approval
      /\ \A s \in Revisions \ {r} :
           design'[s] = design[s] /\ cam'[s] = cam[s] /\ release'[s] = release[s]
  BY <1>1, <1>2 DEF approve_cam_commit, ReviewInv, TypeOK, CamOp
<1>6. release'[r] = NoRelease /\ ~version[r].immutable /\ ~(r > current')
  BY <1>1, <1>2, BoundsAssumption DEF approve_cam_commit, CamHolds, OpenForReview, Reviewable,
     ReviewInv, RowAgrees, TypeOK, Revisions
<1>7. Corroborated(r, design[r], cam[r])'
  BY <1>1, <1>2, <1>5 DEF approve_cam_commit, CamHolds, Corroborated, IsLatest, JobsOf
<1>8. RowAgrees(r)'
  BY <1>4, <1>6, <1>7 DEF RowAgrees
<1> QED BY <1>1, <1>4, <1>5, <1>8, ReviewCommits DEF approve_cam_commit

\* The release copies the two approvals of an approved revision.
LEMMA ReleaseCommits ==
  ASSUME ReviewInv, NEW p \in Processes, release_version_commit(p)
  PROVE  ReviewInv'
<1>1. op[p] \in ReleaseOp /\ op[p] # Idle /\ ReleaseHolds(op[p])
  BY OperationKinds DEF ReviewInv, TypeOK, release_version_commit, Idle, RequestHolds
<1>2. PICK r \in Revisions : r = op[p].rev
  BY <1>1 DEF ReleaseOp
<1>3. /\ Released(version[r]) \in VersionRow
      /\ Released(version[r]).status = "released" /\ Released(version[r]).immutable = TRUE
  BY VersionTyped, VersionWriters DEF ReviewInv
<1>4. /\ version' \in [Revisions -> VersionRow \cup {AbsentVersion}]
      /\ version'[r].status = "released" /\ version'[r].immutable = TRUE
      /\ \A s \in Revisions \ {r} : version'[s] = version[s]
  BY <1>2, <1>3 DEF release_version_commit, ReviewInv, TypeOK
<1>5. /\ design' \in [Revisions -> DesignApproval \cup {NoApproval}]
      /\ cam' \in [Revisions -> CamApproval \cup {NoApproval}]
      /\ release' \in [Revisions -> ReleaseRow \cup {NoRelease}]
      /\ release'[r] = op[p].record
      /\ \A s \in Revisions \ {r} :
           design'[s] = design[s] /\ cam'[s] = cam[s] /\ release'[s] = release[s]
  BY <1>1, <1>2 DEF release_version_commit, ReviewInv, TypeOK, ReleaseOp
<1>6. ~(r > current') /\ version[r].status = "approved"
  BY <1>1, <1>2, BoundsAssumption DEF release_version_commit, ReleaseHolds, OpenForReview,
     ReviewInv, TypeOK, Revisions
<1>7. Corroborated(r, design[r], cam[r])'
  BY <1>6 DEF release_version_commit, ReviewInv, RowAgrees, Corroborated, IsLatest, JobsOf
<1>8. /\ release'[r].design = design'[r] /\ release'[r].cam = cam'[r]
      /\ release'[r].job = cam'[r].job /\ release'[r].build = cam'[r].build
  BY <1>1, <1>2, <1>5 DEF ReleaseHolds, release_version_commit
<1>9. RowAgrees(r)'
  BY <1>4, <1>6, <1>7, <1>8 DEF RowAgrees, Reviewable
<1> QED BY <1>1, <1>4, <1>5, <1>9, ReviewCommits DEF release_version_commit

\* A rolled back request leaves no trace.
LEMMA Aborts ==
  ASSUME ReviewInv, NEW p \in Processes, abort(p)
  PROVE  ReviewInv'
<1>1. TypeOK'
  BY DEF abort, End, ReviewInv, TypeOK, Operations
<1>2. JobsNumbered' /\ \A r \in Revisions : RowAgrees(r)'
  BY DEF abort, ReviewInv, JobsNumbered, RowAgrees, Corroborated, IsLatest, JobsOf
<1> QED BY <1>1, <1>2, EndKeeps DEF abort

\* The new job becomes the latest of its revision, which is no longer approved.
LEMMA GenerateCommits ==
  ASSUME ReviewInv, NEW p \in Processes, generate_new_commit(p)
  PROVE  ReviewInv'
<1>1. op[p] \in GenerateOp /\ op[p] # Idle /\ GenerateHolds(op[p])
  BY OperationKinds DEF ReviewInv, TypeOK, generate_new_commit, Idle, RequestHolds
<1>2. PICK r \in Revisions : r = op[p].rev
  BY <1>1 DEF GenerateOp
<1>3. PICK n \in Jobs : n = created + 1
  BY <1>1, BoundsAssumption DEF GenerateHolds, ReviewInv, TypeOK, Jobs
<1>4. /\ created \in Nat /\ created' = n /\ n \notin 1..created /\ n \in 0..MaxJobs
      /\ 1..created' = 1..created \cup {n}
  BY <1>3, BoundsAssumption DEF generate_new_commit, ReviewInv, TypeOK, Jobs
<1>5. /\ job' \in [Jobs -> JobRow \cup {AbsentJob}]
      /\ job'[n].status = "queued" /\ job'[n].rev = r
      /\ \A j \in Jobs \ {n} : job'[j] = job[j]
  BY <1>1, <1>2, <1>3, NewJobTyped DEF generate_new_commit, ReviewInv, TypeOK, GenerateOp
<1>6. /\ InStatus(version[r], "design_validated") \in VersionRow
      /\ InStatus(version[r], "design_validated").status = "design_validated"
      /\ InStatus(version[r], "design_validated").immutable = version[r].immutable
  BY VersionTyped, VersionWriters DEF ReviewInv, DesignStatuses
<1>7. OpenForReview(r) /\ op[p].reset = (version[r].status = "approved")
  BY <1>1, <1>2 DEF GenerateHolds
<1>8. /\ version' \in [Revisions -> VersionRow \cup {AbsentVersion}]
      /\ version'[r].status = "design_validated"
      /\ version'[r].immutable = version[r].immutable
      /\ \A s \in Revisions \ {r} : version'[s] = version[s]
  <2>1. version' = [version EXCEPT ![r] =
           IF op[p].reset THEN InStatus(version[r], "design_validated") ELSE version[r]]
    BY <1>2 DEF generate_new_commit
  <2>2. CASE op[p].reset
    BY <1>6, <2>1, <2>2 DEF ReviewInv, TypeOK
  <2>3. CASE ~op[p].reset
    BY <1>7, <2>1, <2>3 DEF ReviewInv, TypeOK, OpenForReview, Reviewable
  <2> QED BY <2>2, <2>3
<1>9. /\ cam' \in [Revisions -> CamApproval \cup {NoApproval}]
      /\ cam'[r] = NoApproval
      /\ \A s \in Revisions \ {r} : cam'[s] = cam[s]
  <2>1. cam' = [cam EXCEPT ![r] = IF op[p].reset THEN NoApproval ELSE cam[r]]
    BY <1>2 DEF generate_new_commit
  <2>2. ~op[p].reset => cam[r] = NoApproval
    BY <1>7 DEF ReviewInv, RowAgrees, OpenForReview, Reviewable
  <2> QED BY <2>1, <2>2 DEF ReviewInv, TypeOK
<1>10. TypeOK'
  <2>1. op' \in [Processes -> Operations]
    BY DEF generate_new_commit, End, ReviewInv, TypeOK, Operations
  <2> QED BY <1>4, <1>5, <1>8, <1>9, <2>1 DEF generate_new_commit, ReviewInv, TypeOK
<1>11. JobsNumbered'
  BY <1>3, <1>4, <1>5 DEF generate_new_commit, ReviewInv, TypeOK, JobsNumbered
<1>12. ASSUME NEW s \in Revisions
       PROVE  RowAgrees(s)'
  <2>1. CASE s = r
    <3>1. release'[r] = NoRelease /\ ~version[r].immutable /\ ~(r > current')
      BY <1>7, BoundsAssumption DEF generate_new_commit, OpenForReview, Reviewable,
         ReviewInv, RowAgrees, TypeOK, Revisions
    <3> QED BY <1>8, <1>9, <2>1, <3>1 DEF RowAgrees
  <2>2. CASE s # r
    <3>1. JobsOf(s)' = JobsOf(s)
      BY <1>4, <1>5, <2>2, CreatedJobs DEF JobsOf, ReviewInv
    <3>2. PackagesKept(s)
      BY <1>4, <1>5, <3>1, CreatedJobs DEF PackagesKept, JobsOf, ReviewInv
    <3>3. /\ version'[s] = version[s] /\ cam'[s] = cam[s]
          /\ design'[s] = design[s] /\ release'[s] = release[s]
          /\ current' \in Nat /\ current' >= current
      BY <1>8, <1>9, <2>2 DEF generate_new_commit, ReviewInv, TypeOK
    <3> QED BY <1>4, <3>2, <3>3, RowKept DEF ReviewInv
  <2> QED BY <2>1, <2>2
<1> QED BY <1>1, <1>10, <1>11, <1>12, EndKeeps DEF generate_new_commit

\* A retry writes a failed job, which nothing is approved with; a repair writes
\* the latest job, and so withdraws the approval of an approved revision.
LEMMA RequeueCommits ==
  ASSUME ReviewInv, NEW p \in Processes, requeue_commit(p)
  PROVE  ReviewInv'
<1>1. op[p] \in RequeueOp /\ op[p] # Idle /\ RequeueHolds(op[p])
  BY OperationKinds DEF ReviewInv, TypeOK, requeue_commit, Idle, RequestHolds
<1>2. PICK r \in Revisions, k \in Jobs : r = op[p].rev /\ k = op[p].job
  BY <1>1 DEF RequeueOp
<1>3. OpenForReview(r) /\ k \in 1..created /\ job[k] \in JobRow /\ job[k].rev = r
  BY <1>1, <1>2, CreatedJobs DEF RequeueHolds, ReviewInv
<1>4. /\ WithStatus(job[k], "queued") \in JobRow
      /\ WithStatus(job[k], "queued").status = "queued"
      /\ WithStatus(job[k], "queued").rev = r
  BY <1>3, JobWriters
<1>5. /\ job' \in [Jobs -> JobRow \cup {AbsentJob}]
      /\ job'[k].status = "queued" /\ job'[k].rev = r
      /\ \A j \in Jobs \ {k} : job'[j] = job[j]
  BY <1>2, <1>4 DEF requeue_commit, ReviewInv, TypeOK
<1>6. \A s : JobsOf(s)' = JobsOf(s)
  BY <1>3, <1>5, CreatedJobs DEF JobsOf, ReviewInv, requeue_commit
<1>7. k \notin completing
  BY <1>1, <1>2 DEF RequeueHolds, RequeueOp, ReviewInv, JobsNumbered
<1>8. /\ InStatus(version[r], "design_validated") \in VersionRow
      /\ InStatus(version[r], "design_validated").status = "design_validated"
      /\ InStatus(version[r], "design_validated").immutable = version[r].immutable
  BY VersionTyped, VersionWriters DEF ReviewInv, DesignStatuses
<1> DEFINE repair == op[p].kind = "repair"
           bound == repair /\ CamOfJob(r, k)
           demoted == /\ repair /\ (bound \/ cam[r] = NoApproval)
                      /\ version[r].status = "approved"
<1>9. /\ cam' = [cam EXCEPT ![r] = IF bound THEN NoApproval ELSE cam[r]]
      /\ version' = [version EXCEPT ![r] =
            IF demoted THEN InStatus(version[r], "design_validated") ELSE version[r]]
  BY <1>2 DEF requeue_commit
<1>10. version[r].status = "approved" /\ repair => bound
  <2>1. SUFFICES ASSUME version[r].status = "approved", repair
                 PROVE  CamOfJob(r, k)
    OBVIOUS
  <2>2. Corroborated(r, design[r], cam[r]) /\ IsLatest(k, r)
    BY <1>1, <1>2, <2>1 DEF ReviewInv, RowAgrees, RequeueHolds
  <2>3. cam[r].job \in 1..created /\ cam[r].job <= k /\ k <= cam[r].job /\ created \in Nat
    BY <2>2 DEF Corroborated, IsLatest, JobsOf, ReviewInv, TypeOK
  <2>4. cam[r].job = k
    BY <1>3, <2>3
  <2> QED BY <2>2, <2>4 DEF Corroborated, CamOfJob, NoApproval
<1>11. /\ version' \in [Revisions -> VersionRow \cup {AbsentVersion}]
       /\ cam' \in [Revisions -> CamApproval \cup {NoApproval}]
       /\ \A s \in Revisions \ {r} : version'[s] = version[s] /\ cam'[s] = cam[s]
  BY <1>8, <1>9 DEF ReviewInv, TypeOK
<1>12. TypeOK'
  <2>1. op' \in [Processes -> Operations]
    BY DEF requeue_commit, End, ReviewInv, TypeOK, Operations
  <2> QED BY <1>5, <1>11, <2>1 DEF requeue_commit, ReviewInv, TypeOK
<1>13. JobsNumbered'
  BY <1>3, <1>5, <1>7 DEF requeue_commit, ReviewInv, TypeOK, JobsNumbered
<1>14. /\ design' = design /\ release' = release /\ current' = current
       /\ created' = created /\ current \in Nat
  BY DEF requeue_commit, ReviewInv, TypeOK
<1>15. ASSUME NEW s \in Revisions, s # r
       PROVE  RowAgrees(s)'
  <2>1. PackagesKept(s)
    BY <1>3, <1>5, <1>6, <1>15, CreatedJobs DEF PackagesKept, JobsOf, ReviewInv
  <2> QED BY <1>11, <1>14, <1>15, <2>1, RowKept DEF ReviewInv
<1>16. RowAgrees(r)'
  <2>1. release[r] = NoRelease /\ ~version[r].immutable /\ ~(r > current)
        /\ version[r].status \in Reviewable
    BY <1>3, BoundsAssumption DEF OpenForReview, Reviewable, ReviewInv, RowAgrees, TypeOK,
       Revisions
  <2>2. CASE repair /\ version[r].status = "approved"
    <3>1. cam'[r] = NoApproval /\ version'[r] = InStatus(version[r], "design_validated")
      BY <1>9, <1>10, <2>2 DEF ReviewInv, TypeOK
    <3>2. version'[r].status = "design_validated" /\ version'[r].immutable = version[r].immutable
      BY <1>8, <3>1
    <3> QED BY <1>14, <2>1, <3>1, <3>2 DEF RowAgrees
  <2>3. CASE version[r].status # "approved"
    <3>1. cam[r] = NoApproval /\ version[r].status = "design_validated"
      BY <2>1, <2>3 DEF ReviewInv, RowAgrees, Reviewable
    <3>2. cam'[r] = NoApproval /\ version'[r] = version[r]
      BY <1>9, <2>3, <3>1 DEF ReviewInv, TypeOK
    <3> QED BY <1>14, <2>1, <3>1, <3>2 DEF RowAgrees
  <2>4. CASE ~repair
    <3>1. job[k].status = "failed"
      BY <1>1, <1>2, <2>4 DEF RequeueHolds, RequeueOp
    <3>2. PackagesKept(r)
      BY <1>5, <1>6, <3>1, CreatedJobs DEF PackagesKept, JobsOf, ReviewInv
    <3>3. cam'[r] = cam[r] /\ version'[r] = version[r]
      BY <1>9, <2>4 DEF ReviewInv, TypeOK
    <3> QED BY <1>14, <3>2, <3>3, RowKept DEF ReviewInv
  <2> QED BY <2>2, <2>3, <2>4
<1> QED BY <1>1, <1>12, <1>13, <1>15, <1>16, EndKeeps DEF requeue_commit

-----------------------------------------------------------------------------
(* Steps beside the tenant lock: workers, save_draft, loss of evidence *)

\* Only unfinished jobs are written, and none changes its revision.
JobsAdvance ==
    /\ created' = created
    /\ \A j \in Jobs : \/ job'[j] = job[j]
                       \/ job[j].status \in ActiveStatuses /\ job'[j].rev = job[j].rev

\* Then the finished jobs of every revision stay.
LEMMA AdvanceKeepsPackages ==
  ASSUME TypeOK, JobsNumbered, JobsAdvance, NEW r
  PROVE  PackagesKept(r)
<1>1. \A j \in 1..created : j \in Jobs
  BY CreatedJobs
<1>2. JobsOf(r)' = JobsOf(r)
  BY <1>1 DEF JobsOf, JobsAdvance
<1> QED BY <1>1, <1>2 DEF PackagesKept, JobsAdvance, JobsOf, ActiveStatuses

\* Such a step leaves every revision and what any open request read as it was.
LEMMA WorkerKeeps ==
  ASSUME ReviewInv, JobsAdvance, UNCHANGED <<current, version, design, cam, release, op>>,
         TypeOK', JobsNumbered'
  PROVE  ReviewInv'
<1>1. \A r : PackagesKept(r)
  BY AdvanceKeepsPackages DEF ReviewInv
<1>2. LockHeldOnce'
  BY DEF ReviewInv, LockHeldOnce
<1>3. created' = created /\ current' = current /\ current \in Nat
  BY DEF JobsAdvance, ReviewInv, TypeOK
<1>4. ASSUME NEW r \in Revisions
      PROVE  RowAgrees(r)'
  BY <1>1, <1>3, RowKept DEF ReviewInv
<1>5. ASSUME NEW p \in Processes
      PROVE  RequestHolds(op[p])'
  <2>1. RequestHolds(op[p]) /\ op[p] \in Operations /\ op'[p] = op[p]
    BY DEF ReviewInv, TypeOK
  <2>2. \A r : OpenForReview(r)' <=> OpenForReview(r)
    BY DEF OpenForReview
  <2>3. op[p].kind = "create" => CreateHolds(op[p])'
    BY <1>3, <2>1 DEF RequestHolds, CreateHolds
  <2>4. op[p].kind = "validate" => ValidateHolds(op[p])'
    BY <1>3, <2>1 DEF RequestHolds, ValidateHolds
  <2>5. op[p].kind = "approve_cam" => CamHolds(op[p])'
    <3>1. SUFFICES ASSUME op[p].kind = "approve_cam" PROVE CamHolds(op[p])'
      OBVIOUS
    <3> DEFINE r == op[p].rev
               c == op[p].approval
    <3>2. Corroborated(r, design[r], c) /\ OpenForReview(r)
      BY <2>1, <3>1 DEF RequestHolds, CamHolds
    <3>3. job'[c.job] = job[c.job]
      BY <1>1, <3>2 DEF PackagesKept, Corroborated, IsLatest
    <3>4. JobsOf(r)' = JobsOf(r)
      BY <1>1 DEF PackagesKept
    <3>5. IsLatest(c.job, r)'
      BY <3>2, <3>4 DEF Corroborated, IsLatest
    <3>6. /\ c.kind = "cam" /\ design[r].kind = "design"
          /\ job'[c.job].status = "succeeded" /\ job'[c.job].build = c.build
          /\ job'[c.job].design = design[r] /\ FourEyesSeparated(design[r].by, c.by)
      BY <3>2, <3>3 DEF Corroborated
    <3> QED BY <2>1, <2>2, <3>2, <3>5, <3>6 DEF CamHolds, Corroborated, IsLatest, JobsOf,
               OpenForReview, FourEyesSeparated
  <2>6. op[p].kind = "generate" => GenerateHolds(op[p])'
    BY <1>3, <2>1 DEF RequestHolds, GenerateHolds, OpenForReview
  <2>7. op[p].kind \in {"retry", "repair"} => RequeueHolds(op[p])'
    <3>1. SUFFICES ASSUME op[p].kind \in {"retry", "repair"} PROVE RequeueHolds(op[p])'
      OBVIOUS
    <3> DEFINE r == op[p].rev
               k == op[p].job
    <3>2. RequeueHolds(op[p])
      BY <2>1, <3>1 DEF RequestHolds
    <3>3. k \in 1..created /\ k \in Jobs /\ job[k].status \in {"failed", "succeeded"}
      BY <3>1, <3>2, CreatedJobs DEF RequeueHolds, ReviewInv
    <3>4. job'[k] = job[k]
      BY <3>3 DEF JobsAdvance, ActiveStatuses
    <3>5. IsLatest(k, r) => IsLatest(k, r)'
      BY <1>1 DEF IsLatest, PackagesKept
    <3> QED BY <1>3, <2>1, <3>2, <3>4, <3>5 DEF RequeueHolds, OpenForReview, IsLatest, JobsOf
  <2>8. op[p].kind = "release" => ReleaseHolds(op[p])'
    BY <2>1 DEF RequestHolds, ReleaseHolds, OpenForReview
  <2>9. op[p].kind = "approve_design" => OpenForReview(op[p].rev)'
    BY <2>1, <2>2 DEF RequestHolds, OpenForReview
  <2> QED BY <2>1, <2>3, <2>4, <2>5, <2>6, <2>7, <2>8, <2>9 DEF RequestHolds
<1> QED BY <1>2, <1>4, <1>5 DEF ReviewInv

\* A worker claims, retries or fails an unfinished job.
LEMMA WorkerMoves ==
  ASSUME ReviewInv, NEW k \in Jobs, NEW from, NEW to \in {"queued", "running", "failed"},
         from \subseteq ActiveStatuses, JobMoves(k, from, to)
  PROVE  ReviewInv'
<1>1. k \in 1..created /\ job[k] \in JobRow /\ job[k].status \in ActiveStatuses
  BY CreatedJobs, BoundsAssumption DEF JobMoves, ReviewInv, TypeOK, Jobs
<1>2. /\ WithStatus(job[k], to) \in JobRow /\ WithStatus(job[k], to).status = to
      /\ WithStatus(job[k], to).rev = job[k].rev
  BY <1>1, JobWriters
<1>3. /\ job' \in [Jobs -> JobRow \cup {AbsentJob}]
      /\ job'[k].status = to /\ job'[k].rev = job[k].rev
      /\ \A j \in Jobs \ {k} : job'[j] = job[j]
  BY <1>2 DEF JobMoves, ReviewInv, TypeOK
<1>4. TypeOK'
  BY <1>3 DEF JobMoves, ReviewInv, TypeOK
<1>5. JobsNumbered'
  BY <1>1, <1>3 DEF JobMoves, ReviewInv, TypeOK, JobsNumbered
<1>6. JobsAdvance
  BY <1>1, <1>3 DEF JobMoves, JobsAdvance
<1> QED BY <1>4, <1>5, <1>6, WorkerKeeps DEF JobMoves

\* So do completions: only a running job becomes a finished one.
LEMMA WorkerSteps ==
  ASSUME ReviewInv, NEW k \in Jobs, WorkerStep(k)
  PROVE  ReviewInv'
<1>1. ASSUME worker_claims(k) \/ worker_retries(k) \/ worker_fails(k)
      PROVE  ReviewInv'
  BY <1>1, WorkerMoves DEF worker_claims, worker_retries, worker_fails, ActiveStatuses
<1>2. ASSUME complete_job(k)
      PROVE  ReviewInv'
  <2>1. k \in 1..created
    BY <1>2, BoundsAssumption DEF complete_job, ReviewInv, TypeOK, Jobs
  <2>2. TypeOK' /\ JobsNumbered'
    BY <1>2, <2>1 DEF complete_job, ReviewInv, TypeOK, JobsNumbered
  <2>3. JobsAdvance
    BY <1>2 DEF complete_job, JobsAdvance
  <2> QED BY <1>2, <2>2, <2>3, WorkerKeeps DEF complete_job
<1>3. ASSUME complete_job_commit(k)
      PROVE  ReviewInv'
  <2>1. /\ k \in 1..created /\ job[k] \in JobRow /\ job[k].status = "running"
        /\ job[k].build < MaxBuilds
    BY <1>3, CreatedJobs DEF complete_job_commit, ReviewInv, JobsNumbered
  <2>2. /\ Built(job[k]) \in JobRow /\ Built(job[k]).status = "succeeded"
        /\ Built(job[k]).rev = job[k].rev /\ Built(job[k]).build > 0
    BY <2>1, JobWriters
  <2>3. CASE job' = [job EXCEPT ![k] = Built(job[k])] /\ intact' = intact \cup {k}
    <3>1. /\ job' \in [Jobs -> JobRow \cup {AbsentJob}]
          /\ job'[k] = Built(job[k])
          /\ \A j \in Jobs \ {k} : job'[j] = job[j]
      BY <2>2, <2>3 DEF ReviewInv, TypeOK
    <3>2. TypeOK'
      BY <1>3, <2>3, <3>1 DEF complete_job_commit, ReviewInv, TypeOK
    <3>3. JobsNumbered'
      BY <1>3, <2>1, <2>2, <3>1 DEF complete_job_commit, ReviewInv, TypeOK, JobsNumbered
    <3>4. JobsAdvance
      BY <1>3, <2>1, <2>2, <3>1 DEF complete_job_commit, JobsAdvance, ActiveStatuses
    <3> QED BY <1>3, <3>2, <3>3, <3>4, WorkerKeeps DEF complete_job_commit
  <2>4. CASE UNCHANGED <<job, intact>>
    <3>1. TypeOK' /\ JobsNumbered' /\ JobsAdvance
      BY <1>3, <2>4 DEF complete_job_commit, ReviewInv, TypeOK, JobsNumbered, JobsAdvance
    <3> QED BY <1>3, <3>1, WorkerKeeps DEF complete_job_commit
  <2> QED BY <1>3, <2>3, <2>4 DEF complete_job_commit
<1> QED BY <1>1, <1>2, <1>3 DEF WorkerStep

\* Lapsed evidence and lost artifacts open gates for nobody.
LEMMA EnvironmentSteps ==
  ASSUME ReviewInv,
         \/ \E x \in (Reviews \cup Requests) \ stale : EvidenceLapses(x)
         \/ \E j \in intact : ArtifactsLost(j)
         \/ UNCHANGED vars
  PROVE  ReviewInv'
<1>1. UNCHANGED <<draft, current, version, design, cam, release, created, job, completing, op>>
  BY DEF EvidenceLapses, ArtifactsLost, vars
<1>2. stale' \subseteq Reviews \cup Requests /\ intact' \subseteq Jobs
  BY DEF EvidenceLapses, ArtifactsLost, vars, ReviewInv, TypeOK
<1>3. TypeOK' /\ JobsNumbered' /\ JobsAdvance
  BY <1>1, <1>2 DEF ReviewInv, TypeOK, JobsNumbered, JobsAdvance
<1> QED BY <1>1, <1>3, WorkerKeeps

\* save_draft waits for every request that holds an open revision, so the only
\* request it can meet is a validation, which may lose its draft.
LEMMA SaveDraftSteps ==
  ASSUME ReviewInv, save_draft
  PROVE  ReviewInv'
<1>1. \A j \in Jobs : job'[j] =
         IF j \in Active(Derived) THEN WithStatus(job[j], "cancelled") ELSE job[j]
  BY DEF save_draft
<1>2. \A j \in Active(Derived) :
         /\ j \in 1..created /\ j \in Jobs /\ j \notin completing
         /\ job[j].status \in ActiveStatuses
         /\ job'[j] \in JobRow /\ job'[j].status = "cancelled" /\ job'[j].rev = job[j].rev
  BY <1>1, CreatedJobs, JobWriters DEF Active, ReviewInv, save_draft
<1>3. JobsAdvance /\ created' = created /\ current' = current /\ op' = op
      /\ design' = design /\ cam' = cam /\ release' = release /\ current \in Nat
  <2>1. /\ created' = created /\ current' = current /\ op' = op
        /\ design' = design /\ cam' = cam /\ release' = release /\ current \in Nat
    BY DEF save_draft, ReviewInv, TypeOK
  <2>2. JobsAdvance
    BY <1>1, <1>2, <2>1 DEF JobsAdvance
  <2> QED BY <2>1, <2>2
<1>4. \A r \in Revisions :
         version'[r] = IF r \in Derived THEN Superseded(version[r]) ELSE version[r]
  BY DEF save_draft
<1>5. ASSUME NEW r \in Revisions
      PROVE  /\ version'[r] \in VersionRow \cup {AbsentVersion}
             /\ r \in Derived => version'[r].status = "superseded" /\ version'[r].immutable = TRUE
  <2>1. version[r] \in VersionRow \cup {AbsentVersion}
    BY VersionTyped DEF ReviewInv
  <2>2. /\ Superseded(version[r]) \in VersionRow
        /\ Superseded(version[r]).status = "superseded" /\ Superseded(version[r]).immutable = TRUE
    BY <2>1, VersionWriters
  <2> QED BY <1>4, <2>1, <2>2
<1>6. TypeOK'
  <2>1. version' \in [Revisions -> VersionRow \cup {AbsentVersion}]
    BY <1>5 DEF save_draft
  <2>2. job' \in [Jobs -> JobRow \cup {AbsentJob}]
    <3>1. \A j \in Jobs : job'[j] \in JobRow \cup {AbsentJob}
      BY <1>1, <1>2 DEF ReviewInv, TypeOK
    <3> QED BY <3>1 DEF save_draft
  <2>3. draft' \in 0..MaxDrafts
    BY BoundsAssumption DEF save_draft, ReviewInv, TypeOK
  <2> QED BY <2>1, <2>2, <2>3 DEF save_draft, ReviewInv, TypeOK
<1>7. JobsNumbered'
  BY <1>1, <1>2 DEF JobsNumbered, ReviewInv, TypeOK, save_draft
<1>8. LockHeldOnce'
  BY <1>3 DEF ReviewInv, LockHeldOnce
<1>9. ASSUME NEW r \in Revisions
      PROVE  RowAgrees(r)'
  <2>1. PackagesKept(r)
    BY <1>3, AdvanceKeepsPackages DEF ReviewInv
  <2>2. CASE r \notin Derived
    BY <1>3, <1>4, <2>1, <2>2, RowKept DEF ReviewInv
  <2>3. CASE r \in Derived
    <3>1. r <= current
      BY <2>3 DEF Derived
    <3>2. release[r] # NoRelease => job'[release[r].job] = job[release[r].job]
      BY <2>1 DEF PackagesKept, ReviewInv, RowAgrees, Corroborated, IsLatest
    <3> QED BY <1>3, <1>5, <2>1, <2>3, <3>1, <3>2, RowSuperseded DEF ReviewInv, PackagesKept
  <2> QED BY <2>2, <2>3
<1>10. ASSUME NEW p \in Processes
       PROVE  RequestHolds(op[p])'
  <2>1. RequestHolds(op[p]) /\ op[p] \in Operations
    BY DEF ReviewInv, TypeOK
  <2>2. op[p].kind # "create"
    BY DEF save_draft, ProjectLocked
  <2>3. ASSUME NEW r \in Revisions, OpenForReview(r), op[p].rev = r,
               op[p].kind \notin {"idle", "create", "validate"}
        PROVE  FALSE
    <3>1. r \in 1..current /\ version[r].status # "superseded"
      BY <1>3, <2>3 DEF OpenForReview, Reviewable, Revisions
    <3>2. VersionLocked(r)
      BY <2>3 DEF VersionLocked
    <3> QED BY <3>1, <3>2 DEF save_draft
  <2>4. op[p].kind \in {"idle", "validate"}
    <3>1. op[p].kind \notin {"approve_design", "approve_cam", "generate", "retry", "repair", "release"}
      <4>1. SUFFICES ASSUME op[p].kind \in {"approve_design", "approve_cam", "generate",
                                             "retry", "repair", "release"}
                     PROVE  FALSE
        OBVIOUS
      <4>2. OpenForReview(op[p].rev)
        BY <2>1, <4>1 DEF RequestHolds, CamHolds, GenerateHolds, RequeueHolds, ReleaseHolds
      <4>3. op[p].rev \in Revisions
        BY <2>1, <4>1, OperationKinds DEF DesignOp, CamOp, GenerateOp, RequeueOp, ReleaseOp
      <4> QED BY <2>3, <4>1, <4>2, <4>3
    <3> QED BY <2>1, <2>2, <3>1 DEF Operations, Idle, CreateOp, ValidateOp, DesignOp, CamOp,
               GenerateOp, RequeueOp, ReleaseOp
  <2>5. op[p].kind = "validate" => ValidateHolds(op[p])'
    <3>1. SUFFICES ASSUME op[p].kind = "validate" PROVE ValidateHolds(op[p])'
      OBVIOUS
    <3>2. op[p].rev \in Revisions /\ ValidateHolds(op[p])
      BY <2>1, <3>1, OperationKinds DEF ValidateOp, RequestHolds
    <3> QED BY <1>3, <1>4, <1>5, <3>2 DEF ValidateHolds
  <2> QED BY <1>3, <2>4, <2>5 DEF RequestHolds
<1> QED BY <1>6, <1>7, <1>8, <1>9, <1>10 DEF ReviewInv

-----------------------------------------------------------------------------
(* Theorems *)

\* Every step of the system keeps the invariant.
LEMMA ReviewInvNext == ReviewInv /\ [Next]_vars => ReviewInv'
<1> SUFFICES ASSUME ReviewInv, [Next]_vars
             PROVE  ReviewInv'
  OBVIOUS
<1>1. ASSUME NEW p \in Processes, ReadRequest(p)
      PROVE  ReviewInv'
  <2>1. CASE create_version(p)
    BY <2>1, CreateReads
  <2>2. ASSUME NEW r \in 1..current, validate_version(p, r) \/ release_version(p, r)
        PROVE  ReviewInv'
    BY <2>2, ValidateReads, ReleaseReads
  <2>3. ASSUME NEW r \in 1..current, NEW u \in Users, NEW v \in Reviews, approve_design(p, r, u, v)
        PROVE  ReviewInv'
    BY <2>3, ApproveDesignReads
  <2>4. ASSUME NEW r \in 1..current, NEW u \in Users, NEW j \in 1..created, approve_cam(p, r, u, j)
        PROVE  ReviewInv'
    BY <2>4, ApproveCamReads
  <2>5. ASSUME NEW r \in 1..current, NEW q \in Requests,
               generate_new(p, r, q) \/ generate_retry(p, r, q) \/ generate_repair(p, r, q)
        PROVE  ReviewInv'
    BY <2>5, GenerateReads, RequeueReads
  <2> QED BY <1>1, <2>1, <2>2, <2>3, <2>4, <2>5 DEF ReadRequest
<1>2. ASSUME NEW p \in Processes, CommitRequest(p)
      PROVE  ReviewInv'
  BY <1>2, CreateCommits, ValidateCommits, ApproveDesignCommits, ApproveCamCommits,
     GenerateCommits, RequeueCommits, ReleaseCommits, Aborts DEF CommitRequest
<1> QED BY <1>1, <1>2, SaveDraftSteps, WorkerSteps, EnvironmentSteps DEF Next

\* The inductive invariant: rows, approvals, releases and jobs agree, and what
\* an open request of api.py read still holds when it commits.
THEOREM ReviewInvariant == Spec => []ReviewInv
<1> QED BY ReviewInvInit, ReviewInvNext, PTL DEF Spec

\* The rows, approvals, releases and pending requests keep their types.
THEOREM LifecycleTyped == Spec => []TypeOK
<1>1. ReviewInv => TypeOK
  BY DEF ReviewInv
<1> QED BY <1>1, ReviewInvariant, PTL

\* An approved revision has both approvals, and they agree with its latest
\* package: approve_version and generate_version, with save_draft and any
\* number of workers between their reads and their commits.
THEOREM ApprovalsCorroborate == Spec => []ApprovedIsCorroborated
<1>1. ReviewInv => ApprovedIsCorroborated
  BY DEF ReviewInv, RowAgrees, ApprovedIsCorroborated
<1> QED BY <1>1, ReviewInvariant, PTL

\* release_version freezes exactly what was reviewed, for ever.
THEOREM ReleasesAreReviewed == Spec => []ReleaseIsWhatWasReviewed
<1>1. ReviewInv => ReleaseIsWhatWasReviewed
  BY DEF ReviewInv, RowAgrees, ReleaseIsWhatWasReviewed
<1> QED BY <1>1, ReviewInvariant, PTL

\* What one step may do to revision r.
KeptFrozen(r) ==
    version[r].immutable =>
        /\ version'[r].immutable
        /\ design'[r] = design[r] /\ cam'[r] = cam[r] /\ release'[r] = release[r]
        /\ version[r].status = "released" => version'[r].status \in {"released", "superseded"}

\* A revision that is superseded may have been immutable before; every other
\* commit writes a revision open for review, or the status of a lost draft.
LEMMA FrozenNext == ReviewInv /\ [Next]_vars => \A r \in Revisions : KeptFrozen(r)
<1> SUFFICES ASSUME ReviewInv, [Next]_vars, NEW r \in Revisions
             PROVE  KeptFrozen(r)
  OBVIOUS
<1>1. ASSUME UNCHANGED <<version, design, cam, release>>
      PROVE  KeptFrozen(r)
  BY <1>1 DEF KeptFrozen
<1>2. version[r] \in VersionRow \cup {AbsentVersion}
  BY VersionTyped DEF ReviewInv
<1>3. Superseded(version[r]).status = "superseded" /\ Superseded(version[r]).immutable = TRUE
  BY <1>2, VersionWriters
<1>4. ASSUME NEW p \in Processes, ReadRequest(p) \/ abort(p)
      PROVE  KeptFrozen(r)
  <2>1. UNCHANGED <<version, design, cam, release>>
    BY <1>4, ReadBegins DEF abort, Begin
  <2> QED BY <1>1, <2>1
<1>5. ASSUME NEW p \in Processes, create_version_commit(p)
      PROVE  KeptFrozen(r)
  <2>1. version'[r] = IF r = current + 1 THEN NewVersion(op[p].source)
                      ELSE IF r \in op[p].prior THEN Superseded(version[r]) ELSE version[r]
    BY <1>5 DEF create_version_commit
  <2>2. design' = design /\ cam' = cam /\ release' = release
    BY <1>5 DEF create_version_commit
  <2>3. r = current + 1 => ~version[r].immutable
    <3>1. SUFFICES ASSUME r = current + 1 PROVE ~version[r].immutable
      OBVIOUS
    <3>2. version[r].status = "none"
      BY <3>1 DEF ReviewInv, RowAgrees, TypeOK
    <3>3. version[r] \notin VersionRow
      BY <3>2 DEF VersionRow, DesignStatuses
    <3> QED BY <1>2, <3>3 DEF AbsentVersion
  <2> QED BY <1>3, <2>1, <2>2, <2>3 DEF KeptFrozen
<1>6. ASSUME NEW p \in Processes, validate_version_commit(p)
      PROVE  KeptFrozen(r)
  <2>1. op[p].rev \in Revisions /\ ValidateHolds(op[p])
    BY <1>6, OperationKinds DEF ReviewInv, TypeOK, validate_version_commit, RequestHolds, ValidateOp
  <2>2. /\ r = op[p].rev => version'[r] = InStatus(version[r], "design_validated")
        /\ r # op[p].rev => version'[r] = version[r]
        /\ design' = design /\ cam' = cam /\ release' = release
    BY <1>6, <2>1 DEF validate_version_commit, ReviewInv, TypeOK
  <2>3. InStatus(version[r], "design_validated").immutable = version[r].immutable
    BY <1>2, VersionWriters DEF DesignStatuses
  <2>4. r = op[p].rev => version[r].status # "released"
    BY <2>1 DEF ValidateHolds
  <2> QED BY <2>2, <2>3, <2>4 DEF KeptFrozen
<1>7. ASSUME NEW p \in Processes,
             \/ approve_design_commit(p) \/ approve_cam_commit(p) \/ generate_new_commit(p)
             \/ requeue_commit(p) \/ release_version_commit(p)
      PROVE  KeptFrozen(r)
  <2>1. op[p].kind \in {"approve_design", "approve_cam", "generate", "retry", "repair", "release"}
    BY <1>7 DEF approve_design_commit, approve_cam_commit, generate_new_commit, requeue_commit,
       release_version_commit
  <2>2. RequestHolds(op[p])
    BY DEF ReviewInv
  <2>3. ~version[op[p].rev].immutable
    BY <2>1, <2>2 DEF RequestHolds, CamHolds, GenerateHolds, RequeueHolds, ReleaseHolds, OpenForReview
  <2>4. r # op[p].rev => /\ version'[r] = version[r] /\ design'[r] = design[r]
                         /\ cam'[r] = cam[r] /\ release'[r] = release[r]
    BY <1>7 DEF approve_design_commit, approve_cam_commit, generate_new_commit, requeue_commit,
       release_version_commit, ReviewInv, TypeOK
  <2> QED BY <2>3, <2>4 DEF KeptFrozen
<1>8. ASSUME save_draft
      PROVE  KeptFrozen(r)
  <2>1. /\ version'[r] = IF r \in Derived THEN Superseded(version[r]) ELSE version[r]
        /\ design' = design /\ cam' = cam /\ release' = release
    BY <1>8 DEF save_draft
  <2> QED BY <1>3, <2>1 DEF KeptFrozen
<1>9. ASSUME \/ \E j \in Jobs : WorkerStep(j)
             \/ \E x \in (Reviews \cup Requests) \ stale : EvidenceLapses(x)
             \/ \E j \in intact : ArtifactsLost(j)
             \/ UNCHANGED vars
      PROVE  KeptFrozen(r)
  <2>1. UNCHANGED <<version, design, cam, release>>
    BY <1>9 DEF WorkerStep, worker_claims, worker_retries, worker_fails, JobMoves, complete_job,
       complete_job_commit, EvidenceLapses, ArtifactsLost, vars
  <2> QED BY <1>1, <2>1
<1> QED BY <1>4, <1>5, <1>6, <1>7, <1>8, <1>9 DEF Next, CommitRequest

\* An immutable revision keeps its flag, its approvals and its release, and a
\* released one can only be superseded, in every step of the routes of api.py,
\* save_draft and the workers.
THEOREM ImmutableStaysFrozen == Spec => ImmutableIsFrozen
<1>1. ReviewInv /\ [Next]_vars => [\A r \in Revisions : version[r].immutable =>
          /\ version'[r].immutable
          /\ design'[r] = design[r] /\ cam'[r] = cam[r] /\ release'[r] = release[r]
          /\ version[r].status = "released" =>
                version'[r].status \in {"released", "superseded"}]_vars
  BY FrozenNext DEF KeptFrozen
<1> QED BY <1>1, ReviewInvariant, PTL DEF Spec, ImmutableIsFrozen

-----------------------------------------------------------------------------
(* Old revisions are closed *)

\* Revision r has no unfinished job.
NoneActive(r) == \A j \in 1..created : job[j].rev = r => job[j].status \notin ActiveStatuses

\* The set that create_version and save_draft cancel is empty for such a revision.
LEMMA NoneActiveIsEmpty == ASSUME NEW r PROVE NoneActive(r) <=> Active({r}) = {}
  BY DEF NoneActive, Active

\* The two closure conjuncts in terms of rows.
LEMMA ClosedRows ==
  OldRevisionsAreClosed <=>
    /\ \A r \in Revisions : r < current => version[r].status = "superseded"
    /\ \A r \in Revisions : version[r].status = "superseded" => NoneActive(r)
  BY NoneActiveIsEmpty DEF OldRevisionsAreClosed

\* A committing request was the only one.
LEMMA EndsIdle ==
  ASSUME ReviewInv, NEW p \in Processes, op[p] # Idle, End(p)
  PROVE  \A q \in Processes : op'[q].kind = "idle"
<1>1. \A q \in Processes : op'[q] = Idle
  BY DEF End, ReviewInv, TypeOK, LockHeldOnce
<1> QED BY <1>1 DEF Idle

\* A step that writes no revision, makes no job unfinished and opens no request.
LEMMA ClosureKept ==
  ASSUME ClosureInv, UNCHANGED <<current, version, created>>,
         \A j \in 1..created : /\ job'[j].rev = job[j].rev
                               /\ job'[j].status \in ActiveStatuses => job[j].status \in ActiveStatuses,
         \A p \in Processes : op'[p] = op[p] \/ op'[p].kind = "idle"
  PROVE  ClosureInv'
<1>1. \A r : NoneActive(r) => NoneActive(r)'
  BY DEF NoneActive
<1>2. OldRevisionsAreClosed'
  <2>1. \A r \in Revisions : version[r].status = "superseded" => NoneActive(r)'
    BY <1>1, ClosedRows DEF ClosureInv
  <2>2. \A r \in Revisions : version'[r].status = "superseded" => Active({r})' = {}
    BY <2>1 DEF NoneActive, Active
  <2> QED BY <2>2 DEF ClosureInv, OldRevisionsAreClosed
<1>3. Active(1..current)' \subseteq Active(1..current)
  BY DEF Active
<1> QED BY <1>2, <1>3 DEF ClosureInv

\* The revision that a review request writes is the current one.
LEMMA OpenIsCurrent ==
  ASSUME ReviewInv, ClosureInv, NEW r \in Revisions, OpenForReview(r)
  PROVE  r = current
  BY BoundsAssumption DEF ReviewInv, TypeOK, ClosureInv, OldRevisionsAreClosed, OpenForReview,
     Reviewable, Revisions

\* Reading changes no row; what the two requests without a row lock read is as
\* ClosureInv says.
LEMMA ClosureReads ==
  ASSUME ReviewInv, ClosureInv, NEW p \in Processes, ReadRequest(p)
  PROVE  ClosureInv'
<1>1. /\ UNCHANGED <<current, version, created, job>>
      /\ \A q \in Processes : q # p => op'[q] = op[q]
  BY ReadBegins DEF Begin, ReviewInv, TypeOK
<1>2. OldRevisionsAreClosed' /\ Active(1..current)' = Active(1..current)
  BY <1>1 DEF ClosureInv, OldRevisionsAreClosed, Active
<1>3. /\ op'[p].kind = "create" => Active(1..current) \subseteq op'[p].active
      /\ op'[p].kind = "validate" => op'[p].rev = current
  <2>1. CASE create_version(p)
    BY <2>1 DEF create_version, Begin, ReviewInv, TypeOK
  <2>2. ASSUME NEW r \in 1..current, validate_version(p, r)
        PROVE  op'[p].kind = "validate" /\ op'[p].rev = current
    <3>1. op'[p] = [kind |-> "validate", rev |-> r] /\ version[r].status = "draft"
      BY <2>2 DEF validate_version, Begin, ReviewInv, TypeOK
    <3>2. r \in Revisions
      BY <2>2, BoundsAssumption DEF ReviewInv, TypeOK, Revisions
    <3>3. ~(r < current)
      BY <3>1, <3>2 DEF ClosureInv, OldRevisionsAreClosed
    <3>4. r = current
      BY <3>3 DEF ReviewInv, TypeOK
    <3> QED BY <3>1, <3>4
  <2>3. ASSUME NEW r \in 1..current,
               \/ \E u \in Users, v \in Reviews : approve_design(p, r, u, v)
               \/ \E u \in Users, j \in 1..created : approve_cam(p, r, u, j)
               \/ \E q \in Requests : \/ generate_new(p, r, q) \/ generate_retry(p, r, q)
                                      \/ generate_repair(p, r, q)
               \/ release_version(p, r)
        PROVE  op'[p].kind \notin {"create", "validate"}
    <3>1. ASSUME NEW o, Begin(p, o) PROVE op'[p] = o
      BY <3>1 DEF Begin, ReviewInv, TypeOK
    <3>2. ASSUME NEW u \in Users, NEW v \in Reviews, approve_design(p, r, u, v)
          PROVE  op'[p].kind = "approve_design"
      BY <3>1, <3>2 DEF approve_design
    <3>3. ASSUME NEW u \in Users, NEW j \in 1..created, approve_cam(p, r, u, j)
          PROVE  op'[p].kind = "approve_cam"
      BY <3>1, <3>3 DEF approve_cam
    <3>4. ASSUME NEW q \in Requests,
                 generate_new(p, r, q) \/ generate_retry(p, r, q) \/ generate_repair(p, r, q)
          PROVE  op'[p].kind \in {"generate", "retry", "repair"}
      <4>1. CASE generate_new(p, r, q)
        <5>1. op'[p] = [kind |-> "generate", rev |-> r, request |-> q, approval |-> design[r],
                        reset |-> version[r].status = "approved"]
          BY <3>1, <4>1 DEF generate_new
        <5> QED BY <5>1
      <4>2. CASE generate_retry(p, r, q)
        BY <3>1, <4>2 DEF generate_retry
      <4>3. CASE generate_repair(p, r, q)
        BY <3>1, <4>3 DEF generate_repair
      <4> QED BY <3>4, <4>1, <4>2, <4>3
    <3>5. CASE release_version(p, r)
      BY <3>1, <3>5 DEF release_version
    <3> QED BY <2>3, <3>2, <3>3, <3>4, <3>5
  <2> QED BY <2>1, <2>2, <2>3 DEF ReadRequest
<1> QED BY <1>1, <1>2, <1>3 DEF ClosureInv

\* create_version supersedes every open revision and cancels every unfinished job.
LEMMA ClosureCreates ==
  ASSUME ReviewInv, ClosureInv, NEW p \in Processes, create_version_commit(p)
  PROVE  ClosureInv'
<1>1. op[p] \in CreateOp /\ op[p] # Idle /\ CreateHolds(op[p])
  BY OperationKinds DEF ReviewInv, TypeOK, create_version_commit, Idle, RequestHolds
<1>2. \A q \in Processes : op'[q].kind = "idle"
  BY <1>1, EndsIdle DEF create_version_commit
<1>3. current \in Nat /\ current' = current + 1 /\ created' = created
  BY DEF ReviewInv, TypeOK, create_version_commit
<1>4. ASSUME NEW j \in 1..created
      PROVE  job'[j].rev = job[j].rev /\ job'[j].status \notin ActiveStatuses
  <2>1. j \in Jobs /\ job[j] \in JobRow
    BY CreatedJobs DEF ReviewInv
  <2>2. CASE j \in op[p].active
    <3>1. job'[j] = WithStatus(job[j], "cancelled")
      BY <2>1, <2>2 DEF create_version_commit
    <3> QED BY <2>1, <3>1, JobWriters DEF ActiveStatuses
  <2>3. CASE j \notin op[p].active
    <3>1. job'[j] = job[j]
      BY <2>1, <2>3 DEF create_version_commit
    <3>2. job[j].rev \in 1..current
      BY <2>1 DEF ClosureInv, ReviewInv, TypeOK, JobRow, Revisions
    <3> QED BY <2>3, <3>1, <3>2 DEF ClosureInv, Active, create_version_commit
  <2> QED BY <2>2, <2>3
<1>5. \A r \in Revisions : NoneActive(r)'
  BY <1>3, <1>4 DEF NoneActive
<1>6. ASSUME NEW r \in Revisions, r < current'
      PROVE  version'[r].status = "superseded"
  <2>1. r \in 1..current /\ r # current + 1
    BY <1>3, <1>6 DEF Revisions
  <2>2. CASE r \in op[p].prior
    <3>1. version'[r] = Superseded(version[r])
      BY <2>1, <2>2 DEF create_version_commit
    <3>2. version[r] \in VersionRow \cup {AbsentVersion}
      BY VersionTyped DEF ReviewInv
    <3>3. Superseded(version[r]).status = "superseded"
      BY <3>2, VersionWriters
    <3> QED BY <3>1, <3>3
  <2>3. CASE r \notin op[p].prior
    <3>1. version'[r] = version[r]
      BY <2>1, <2>3 DEF create_version_commit
    <3> QED BY <1>1, <2>1, <2>3, <3>1 DEF CreateHolds
  <2> QED BY <2>2, <2>3
<1>7. OldRevisionsAreClosed'
  BY <1>5, <1>6, NoneActiveIsEmpty DEF OldRevisionsAreClosed, NoneActive, Active
<1>8. \A j \in 1..created' : job'[j].rev <= current'
  <2>1. ASSUME NEW j \in 1..created PROVE job[j].rev <= current /\ job[j].rev \in Nat
    BY CreatedJobs DEF ReviewInv, ClosureInv, JobRow, Revisions
  <2> QED BY <1>3, <1>4, <2>1
<1> QED BY <1>2, <1>7, <1>8 DEF ClosureInv

\* The other commits write the current revision, which is then not superseded.
LEMMA ClosureCommits ==
  ASSUME ReviewInv, ClosureInv, NEW p \in Processes, op[p] # Idle, End(p),
         UNCHANGED current, version'[current].status # "superseded",
         \A s \in Revisions \ {current} : version'[s] = version[s],
         \A j \in 1..created' : /\ job'[j].rev \in 1..current
                                /\ job'[j].rev # current =>
                                      j \in 1..created /\ job'[j] = job[j]
  PROVE  ClosureInv'
<1>1. \A q \in Processes : op'[q].kind = "idle"
  BY EndsIdle
<1>2. \A r \in Revisions \ {current} : NoneActive(r) => NoneActive(r)'
  BY DEF NoneActive
<1>3. \A r \in Revisions : version'[r].status = "superseded" => NoneActive(r)'
  BY <1>2, ClosedRows DEF ClosureInv
<1>4. \A r \in Revisions : version'[r].status = "superseded" => Active({r})' = {}
  BY <1>3 DEF NoneActive, Active
<1>5. \A r \in Revisions : r < current => version'[r].status = "superseded"
  BY DEF ClosureInv, OldRevisionsAreClosed, ReviewInv, TypeOK
<1>6. OldRevisionsAreClosed'
  BY <1>4, <1>5 DEF OldRevisionsAreClosed
<1>7. \A j \in 1..created' : job'[j].rev <= current
  BY DEF ReviewInv, TypeOK
<1> QED BY <1>1, <1>6, <1>7 DEF ClosureInv

\* A revision that a step does not write keeps its unfinished jobs closed.
LEMMA JobRevisions ==
  ASSUME ReviewInv, ClosureInv
  PROVE  \A j \in 1..created : j \in Jobs /\ job[j] \in JobRow /\ job[j].rev \in 1..current
<1> SUFFICES ASSUME NEW j \in 1..created
             PROVE  j \in Jobs /\ job[j] \in JobRow /\ job[j].rev \in 1..current
  OBVIOUS
<1>1. j \in Jobs /\ job[j] \in JobRow
  BY CreatedJobs DEF ReviewInv
<1>2. job[j].rev \in Revisions /\ job[j].rev <= current
  BY <1>1 DEF JobRow, ClosureInv
<1> QED BY <1>1, <1>2 DEF Revisions, ReviewInv, TypeOK

\* The routes that write one revision and no job: validate_version moves only the current
\* revision, which the tenant lock kept current since it read it; an approval and a
\* release leave a superseded revision superseded.
LEMMA ClosureReviews ==
  ASSUME ReviewInv, ClosureInv, NEW p \in Processes,
         \/ validate_version_commit(p) \/ approve_design_commit(p) \/ approve_cam_commit(p)
         \/ release_version_commit(p)
  PROVE  ClosureInv'
<1>1. /\ op[p].kind \in {"validate", "approve_design", "approve_cam", "release"}
      /\ op[p] # Idle /\ End(p) /\ UNCHANGED <<current, created, job>>
  BY DEF validate_version_commit, approve_design_commit, approve_cam_commit,
     release_version_commit, Idle
<1>2. op[p].rev \in Revisions /\ RequestHolds(op[p])
  BY <1>1, OperationKinds DEF ReviewInv, TypeOK, ValidateOp, DesignOp, CamOp, ReleaseOp
<1>3. op[p].rev = current
  <2>1. CASE op[p].kind = "validate"
    BY <2>1 DEF ClosureInv
  <2>2. CASE op[p].kind # "validate"
    <3>1. OpenForReview(op[p].rev)
      BY <1>1, <1>2, <2>2 DEF RequestHolds, CamHolds, ReleaseHolds
    <3> QED BY <1>2, <3>1, OpenIsCurrent
  <2> QED BY <2>1, <2>2
<1>4. current \in Revisions /\ version[current] \in VersionRow \cup {AbsentVersion}
  BY <1>2, <1>3, VersionTyped DEF ReviewInv
<1>5. /\ InStatus(version[current], "design_validated").status = "design_validated"
      /\ InStatus(version[current], "approved").status = "approved"
      /\ Released(version[current]).status = "released"
  BY <1>4, VersionWriters DEF DesignStatuses
<1>6. /\ version'[current].status # "superseded"
      /\ \A s \in Revisions \ {current} : version'[s] = version[s]
  BY <1>3, <1>4, <1>5 DEF validate_version_commit, approve_design_commit, approve_cam_commit,
     release_version_commit, ReviewInv, TypeOK
<1>7. \A j \in 1..created' : /\ job'[j].rev \in 1..current
                             /\ job'[j].rev # current => j \in 1..created /\ job'[j] = job[j]
  BY <1>1, JobRevisions
<1> QED BY <1>1, <1>6, <1>7, ClosureCommits

\* A job is queued, or queued again, for the current revision only.
LEMMA ClosureGenerates ==
  ASSUME ReviewInv, ClosureInv, NEW p \in Processes,
         generate_new_commit(p) \/ requeue_commit(p)
  PROVE  ClosureInv'
<1>1. /\ op[p].kind \in {"generate", "retry", "repair"} /\ op[p] # Idle /\ End(p)
      /\ UNCHANGED current
  BY DEF generate_new_commit, requeue_commit, Idle
<1>2. op[p].rev \in Revisions /\ RequestHolds(op[p])
  BY <1>1, OperationKinds DEF ReviewInv, TypeOK, GenerateOp, RequeueOp
<1>3. OpenForReview(op[p].rev)
  BY <1>1, <1>2 DEF RequestHolds, GenerateHolds, RequeueHolds
<1>4. op[p].rev = current /\ current \in Revisions
  BY <1>2, <1>3, OpenIsCurrent
<1>5. InStatus(version[current], "design_validated").status = "design_validated"
  <2>1. version[current] \in VersionRow \cup {AbsentVersion}
    BY <1>4, VersionTyped DEF ReviewInv
  <2> QED BY <2>1, VersionWriters DEF DesignStatuses
<1>6. /\ version'[current].status # "superseded"
      /\ \A s \in Revisions \ {current} : version'[s] = version[s]
  BY <1>3, <1>4, <1>5 DEF generate_new_commit, requeue_commit, ReviewInv, TypeOK,
     OpenForReview, Reviewable
<1>7. ASSUME NEW j \in 1..created'
      PROVE  /\ job'[j].rev \in 1..current
             /\ job'[j].rev # current => j \in 1..created /\ job'[j] = job[j]
  <2>0. current \in 1..current
    BY <1>4 DEF Revisions
  <2>1. CASE generate_new_commit(p)
    <3>1. op[p] \in GenerateOp /\ created < MaxJobs /\ created' = created + 1
      BY <1>2, <2>1, OperationKinds DEF ReviewInv, TypeOK, generate_new_commit, RequestHolds,
         GenerateHolds
    <3>2. CASE j = created + 1
      <4>1. j \in Jobs
        BY <3>1, <3>2, BoundsAssumption DEF ReviewInv, TypeOK, Jobs
      <4>2. job'[j] = NewJob(current, op[p].request, op[p].approval)
        BY <1>4, <2>1, <3>2, <4>1 DEF generate_new_commit, ReviewInv, TypeOK
      <4>3. job'[j].rev = current
        BY <4>2 DEF NewJob
      <4> QED BY <2>0, <4>3
    <3>3. CASE j # created + 1
      <4>1. j \in 1..created
        BY <3>1, <3>3 DEF ReviewInv, TypeOK
      <4>2. job'[j] = job[j]
        BY <2>1, <3>3, <4>1, JobRevisions DEF generate_new_commit, ReviewInv, TypeOK
      <4> QED BY <4>1, <4>2, JobRevisions
    <3> QED BY <3>2, <3>3
  <2>2. CASE requeue_commit(p)
    <3>1. created' = created /\ op[p].job \in 1..created /\ job[op[p].job].rev = current
      BY <1>2, <1>4, <2>2 DEF requeue_commit, RequestHolds, RequeueHolds
    <3>2. CASE j = op[p].job
      <4>1. job'[j] = WithStatus(job[j], "queued") /\ job[j] \in JobRow
        BY <2>2, <3>1, <3>2, JobRevisions DEF requeue_commit, ReviewInv, TypeOK
      <4>2. job'[j].rev = job[j].rev
        BY <4>1, JobWriters
      <4> QED BY <2>0, <3>1, <3>2, <4>2
    <3>3. CASE j # op[p].job
      <4>1. job'[j] = job[j] /\ j \in 1..created
        BY <2>2, <3>1, <3>3, JobRevisions DEF requeue_commit, ReviewInv, TypeOK
      <4> QED BY <4>1, JobRevisions
    <3> QED BY <3>2, <3>3
  <2> QED BY <1>7, <2>1, <2>2
<1> QED BY <1>1, <1>6, <1>7, ClosureCommits

\* save_draft closes the unfinished jobs of every revision it supersedes; an open
\* create_version excludes it.
LEMMA ClosureSaves ==
  ASSUME ReviewInv, ClosureInv, save_draft
  PROVE  ClosureInv'
<1>1. /\ UNCHANGED <<current, created, op>>
      /\ \A p \in Processes : op[p].kind # "create"
  BY DEF save_draft, ProjectLocked
<1>2. \A r \in Revisions : /\ r \notin Derived => version'[r] = version[r]
                           /\ r \in Derived => version'[r].status = "superseded"
  <2>1. ASSUME NEW r \in Revisions, r \in Derived PROVE version'[r].status = "superseded"
    <3>1. version'[r] = Superseded(version[r])
      BY <2>1 DEF save_draft
    <3>2. version[r] \in VersionRow \cup {AbsentVersion}
      BY VersionTyped DEF ReviewInv
    <3>3. Superseded(version[r]).status = "superseded"
      BY <3>2, VersionWriters
    <3> QED BY <3>1, <3>3
  <2> QED BY <2>1 DEF save_draft
<1>3. ASSUME NEW j \in 1..created
      PROVE  /\ job'[j].rev = job[j].rev
             /\ job'[j].status \in ActiveStatuses =>
                   job[j].status \in ActiveStatuses /\ job[j].rev \notin Derived
  <2>1. j \in Jobs /\ job[j] \in JobRow
    BY JobRevisions
  <2>2. CASE j \in Active(Derived)
    <3>1. job'[j] = WithStatus(job[j], "cancelled")
      BY <2>1, <2>2 DEF save_draft
    <3>2. /\ WithStatus(job[j], "cancelled").rev = job[j].rev
          /\ WithStatus(job[j], "cancelled").status = "cancelled"
      BY <2>1, JobWriters
    <3> QED BY <3>1, <3>2 DEF ActiveStatuses
  <2>3. CASE j \notin Active(Derived)
    <3>1. job'[j] = job[j]
      BY <2>1, <2>3 DEF save_draft
    <3> QED BY <2>3, <3>1 DEF Active
  <2> QED BY <2>2, <2>3
<1>4. ASSUME NEW r \in Revisions, version'[r].status = "superseded"
      PROVE  NoneActive(r)'
  <2>1. CASE r \in Derived
    BY <1>1, <1>3, <2>1 DEF NoneActive
  <2>2. CASE r \notin Derived
    <3>1. NoneActive(r)
      BY <1>2, <1>4, <2>2, ClosedRows DEF ClosureInv
    <3> QED BY <1>1, <1>3, <3>1 DEF NoneActive
  <2> QED BY <2>1, <2>2
<1>5. \A r \in Revisions : version'[r].status = "superseded" => Active({r})' = {}
  BY <1>4 DEF NoneActive, Active
<1>6. OldRevisionsAreClosed'
  BY <1>1, <1>2, <1>5 DEF OldRevisionsAreClosed, ClosureInv
<1> QED BY <1>1, <1>3, <1>6 DEF ClosureInv

\* The workers move a job between the unfinished statuses or finish it.
LEMMA ClosureWorks ==
  ASSUME ReviewInv, ClosureInv, NEW i \in Jobs, WorkerStep(i)
  PROVE  ClosureInv'
<1>1. UNCHANGED <<current, version, created, op>>
  BY DEF WorkerStep, worker_claims, worker_retries, worker_fails, JobMoves, complete_job,
     complete_job_commit
<1>2. ASSUME NEW j \in 1..created
      PROVE  /\ job'[j].rev = job[j].rev
             /\ job'[j].status \in ActiveStatuses => job[j].status \in ActiveStatuses
  <2>0. j \in Jobs /\ job[j] \in JobRow
    BY JobRevisions
  <2>1. CASE job'[j] = job[j]
    BY <2>1
  <2>2. CASE job'[j] # job[j]
    <3>1. CASE worker_claims(i) \/ worker_retries(i) \/ worker_fails(i)
      <4>1. /\ job[j].status \in ActiveStatuses
            /\ \E to \in {"queued", "running", "failed"} : job'[j] = WithStatus(job[j], to)
        BY <2>0, <2>2, <3>1 DEF worker_claims, worker_retries, worker_fails, JobMoves,
           ActiveStatuses, ReviewInv, TypeOK
      <4>2. \A to \in {"queued", "running", "failed"} : WithStatus(job[j], to).rev = job[j].rev
        BY <2>0, JobWriters
      <4> QED BY <4>1, <4>2
    <3>2. CASE complete_job(i) \/ complete_job_commit(i)
      <4>1. job'[j] = Built(job[j])
        BY <2>0, <2>2, <3>2 DEF complete_job, complete_job_commit, ReviewInv, TypeOK
      <4>2. Built(job[j]).rev = job[j].rev /\ Built(job[j]).status = "succeeded"
        BY <2>0, JobWriters
      <4> QED BY <4>1, <4>2 DEF ActiveStatuses
    <3> QED BY <3>1, <3>2 DEF WorkerStep
  <2> QED BY <2>1, <2>2
<1> QED BY <1>1, <1>2, ClosureKept

\* Every step keeps old revisions closed: routes, workers, saved drafts and aborts.
LEMMA ClosureNext == ReviewInv /\ ClosureInv /\ [Next]_vars => ClosureInv'
<1> SUFFICES ASSUME ReviewInv, ClosureInv, [Next]_vars PROVE ClosureInv'
  OBVIOUS
<1>1. ASSUME NEW p \in Processes, abort(p) PROVE ClosureInv'
  <2>1. op[p] # Idle /\ End(p) /\ UNCHANGED <<current, version, created, job>>
    BY <1>1 DEF abort
  <2>2. \A q \in Processes : op'[q].kind = "idle"
    BY <2>1, EndsIdle
  <2> QED BY <2>1, <2>2, ClosureKept
<1>2. CASE \/ \E x \in (Reviews \cup Requests) \ stale : EvidenceLapses(x)
           \/ \E j \in intact : ArtifactsLost(j)
           \/ UNCHANGED vars
  <2>1. UNCHANGED <<current, version, created, job, op>>
    BY <1>2 DEF EvidenceLapses, ArtifactsLost, vars
  <2> QED BY <2>1, ClosureKept
<1> QED BY <1>1, <1>2, ClosureReads, ClosureCreates, ClosureReviews, ClosureGenerates,
           ClosureSaves, ClosureWorks DEF Next, CommitRequest

\* Every revision but the current one is superseded, and a superseded one has no
\* unfinished job: create_version reads jobs and revisions without the lock of the
\* workers, yet nothing becomes unfinished between its read and its flush.
THEOREM OldRevisionsClosed == Spec => []OldRevisionsAreClosed
<1>1. Init => ClosureInv
  <2> SUFFICES ASSUME Init PROVE ClosureInv
    OBVIOUS
  <2>1. \A r \in Revisions : version[r].status = "none" /\ ~(r < current)
    BY DEF Init, AbsentVersion, Revisions
  <2>2. 1..created = {} /\ \A p \in Processes : op[p].kind = "idle"
    BY DEF Init, Idle
  <2> QED BY <2>1, <2>2 DEF ClosureInv, OldRevisionsAreClosed
<1>2. ClosureInv => OldRevisionsAreClosed
  BY DEF ClosureInv
<1> QED BY <1>1, <1>2, ClosureNext, ReviewInvariant, PTL DEF Spec

-----------------------------------------------------------------------------
(* Approved revisions derive from the saved draft *)

\* The writers of a row keep the draft it was derived from.
LEMMA SourceWriters ==
  ASSUME NEW row \in VersionRow \cup {AbsentVersion}
  PROVE  /\ InStatus(row, "design_validated").source = row.source
         /\ InStatus(row, "approved").source = row.source
         /\ Released(row).source = row.source
  BY DEF VersionRow, AbsentVersion, InStatus, Released

\* What may still be approved, or is released, has its source saved.
SourceSaved(row) ==
    (~row.immutable \/ row.status = "released") /\ row.source # 0 => row.source = draft

\* A commit keeps SourceInv if the rows it writes, and those it leaves, have it.
LEMMA SourceCommits ==
  ASSUME ReviewInv, NEW p \in Processes, op[p] # Idle, End(p), UNCHANGED draft,
         \A r \in Revisions : SourceSaved(version[r])'
  PROVE  SourceInv'
  BY EndsIdle DEF SourceInv, SourceSaved

\* Every step keeps what may be approved derived from the saved draft.
LEMMA SourceNext == ReviewInv /\ SourceInv /\ [Next]_vars => SourceInv'
<1> SUFFICES ASSUME ReviewInv, SourceInv, [Next]_vars PROVE SourceInv'
  OBVIOUS
<1>0. \A r \in Revisions : SourceSaved(version[r])
  BY DEF SourceInv, SourceSaved
<1>a. \A r \in Revisions : version[r] \in VersionRow \cup {AbsentVersion}
  BY VersionTyped DEF ReviewInv
<1>1. ASSUME NEW p \in Processes, ReadRequest(p) PROVE SourceInv'
  <2>1. /\ UNCHANGED <<draft, version>>
        /\ \A q \in Processes : q # p => op'[q] = op[q]
    BY <1>1, ReadBegins DEF Begin, ReviewInv, TypeOK
  <2>2. op'[p].kind = "create" => op'[p].source = draft
    <3>1. ASSUME NEW o, Begin(p, o) PROVE op'[p] = o
      BY <3>1 DEF Begin, ReviewInv, TypeOK
    <3>2. CASE create_version(p)
      BY <3>1, <3>2 DEF create_version
    <3>3. ASSUME NEW r \in 1..current, validate_version(p, r) \/ release_version(p, r)
          PROVE  op'[p].kind \in {"validate", "release"}
      BY <3>1, <3>3 DEF validate_version, release_version
    <3>4. ASSUME NEW r \in 1..current, NEW u \in Users, NEW v \in Reviews,
                 approve_design(p, r, u, v)
          PROVE  op'[p].kind = "approve_design"
      BY <3>1, <3>4 DEF approve_design
    <3>5. ASSUME NEW r \in 1..current, NEW u \in Users, NEW j \in 1..created,
                 approve_cam(p, r, u, j)
          PROVE  op'[p].kind = "approve_cam"
      BY <3>1, <3>5 DEF approve_cam
    <3>6. ASSUME NEW r \in 1..current, NEW q \in Requests, generate_new(p, r, q)
          PROVE  op'[p].kind = "generate"
      <4>1. op'[p] = [kind |-> "generate", rev |-> r, request |-> q, approval |-> design[r],
                      reset |-> version[r].status = "approved"]
        BY <3>1, <3>6 DEF generate_new
      <4> QED BY <4>1
    <3>7. ASSUME NEW r \in 1..current, NEW q \in Requests,
                 generate_retry(p, r, q) \/ generate_repair(p, r, q)
          PROVE  op'[p].kind \in {"retry", "repair"}
      <4>1. CASE generate_retry(p, r, q)
        BY <3>1, <4>1 DEF generate_retry
      <4>2. CASE generate_repair(p, r, q)
        BY <3>1, <4>2 DEF generate_repair
      <4> QED BY <3>7, <4>1, <4>2
    <3> QED BY <1>1, <3>2, <3>3, <3>4, <3>5, <3>6, <3>7 DEF ReadRequest
  <2> QED BY <2>1, <2>2 DEF SourceInv
<1>2. ASSUME NEW p \in Processes, create_version_commit(p) PROVE SourceInv'
  <2>1. op[p] # Idle /\ End(p) /\ UNCHANGED draft /\ op[p].source = draft
    BY <1>2 DEF create_version_commit, Idle, SourceInv
  <2>2. ASSUME NEW r \in Revisions PROVE SourceSaved(version[r])'
    <3>1. version'[r] = IF r = current + 1 THEN NewVersion(draft)
                        ELSE IF r \in op[p].prior THEN Superseded(version[r]) ELSE version[r]
      BY <1>2, <2>1 DEF create_version_commit
    <3>2. NewVersion(draft).source = draft
      BY DEF NewVersion
    <3>3. Superseded(version[r]).status = "superseded" /\ Superseded(version[r]).immutable = TRUE
      BY <1>a, VersionWriters
    <3> QED BY <1>0, <2>1, <3>1, <3>2, <3>3 DEF SourceSaved
  <2> QED BY <2>1, <2>2, SourceCommits
<1>3. ASSUME NEW p \in Processes,
             \/ validate_version_commit(p) \/ approve_design_commit(p) \/ approve_cam_commit(p)
             \/ generate_new_commit(p) \/ requeue_commit(p)
      PROVE  SourceInv'
  <2>1. op[p] # Idle /\ End(p) /\ UNCHANGED draft
    BY <1>3 DEF validate_version_commit, approve_design_commit, approve_cam_commit,
       generate_new_commit, requeue_commit, Idle
  <2>2. ASSUME NEW r \in Revisions PROVE SourceSaved(version[r])'
    <3>1. version'[r] \in {version[r], InStatus(version[r], "design_validated"),
                          InStatus(version[r], "approved")}
      BY <1>3 DEF validate_version_commit, approve_design_commit, approve_cam_commit,
         generate_new_commit, requeue_commit, ReviewInv, TypeOK
    <3>2. /\ InStatus(version[r], "design_validated").status = "design_validated"
          /\ InStatus(version[r], "design_validated").immutable = version[r].immutable
          /\ InStatus(version[r], "approved").status = "approved"
          /\ InStatus(version[r], "approved").immutable = version[r].immutable
      BY <1>a, VersionWriters DEF DesignStatuses
    <3>3. /\ InStatus(version[r], "design_validated").source = version[r].source
          /\ InStatus(version[r], "approved").source = version[r].source
      BY <1>a, SourceWriters
    <3> QED BY <1>0, <2>1, <3>1, <3>2, <3>3 DEF SourceSaved
  <2> QED BY <2>1, <2>2, SourceCommits
<1>4. ASSUME NEW p \in Processes, release_version_commit(p) PROVE SourceInv'
  <2>1. op[p] # Idle /\ End(p) /\ UNCHANGED draft /\ ReleaseHolds(op[p])
    BY <1>4 DEF release_version_commit, Idle, ReviewInv, RequestHolds
  <2>2. ASSUME NEW r \in Revisions PROVE SourceSaved(version[r])'
    <3>1. CASE r = op[p].rev
      <4>1. version'[r] = Released(version[r]) /\ ~version[r].immutable
        BY <1>4, <2>1, <3>1 DEF release_version_commit, ReleaseHolds, OpenForReview, ReviewInv,
           TypeOK
      <4>2. Released(version[r]).source = version[r].source
        BY <1>a, SourceWriters
      <4> QED BY <1>0, <2>1, <4>1, <4>2 DEF SourceSaved
    <3>2. CASE r # op[p].rev
      <4>1. version'[r] = version[r]
        BY <1>4, <3>2 DEF release_version_commit, ReviewInv, TypeOK
      <4> QED BY <1>0, <2>1, <4>1 DEF SourceSaved
    <3> QED BY <3>1, <3>2
  <2> QED BY <2>1, <2>2, SourceCommits
<1>5. CASE save_draft
  <2>1. UNCHANGED <<op, current>> /\ \A p \in Processes : op[p].kind # "create"
    BY <1>5 DEF save_draft, ProjectLocked
  <2>2. ASSUME NEW r \in Revisions PROVE SourceSaved(version[r])'
    <3>1. CASE r \in Derived
      <4>1. version'[r] = Superseded(version[r])
        BY <1>5, <3>1 DEF save_draft
      <4>2. Superseded(version[r]).status = "superseded" /\ Superseded(version[r]).immutable = TRUE
        BY <1>a, VersionWriters
      <4> QED BY <4>1, <4>2 DEF SourceSaved
    <3>2. CASE r \notin Derived
      <4>1. version'[r] = version[r]
        BY <1>5, <3>2 DEF save_draft
      <4>2. RowAgrees(r)
        BY DEF ReviewInv
      <4>3. CASE r > current
        <5>1. version[r].status = "none"
          BY <4>2, <4>3 DEF RowAgrees
        <5>2. version[r] = AbsentVersion
          BY <1>a, <5>1 DEF VersionRow, DesignStatuses
        <5> QED BY <4>1, <5>2 DEF SourceSaved, AbsentVersion
      <4>4. CASE r <= current
        <5>1. version[r].source = 0 \/ version[r].status = "superseded"
          BY <3>2, <4>4 DEF Derived, Revisions, ReviewInv, TypeOK
        <5> QED BY <4>1, <4>2, <5>1 DEF SourceSaved, RowAgrees
      <4> QED BY <4>3, <4>4, BoundsAssumption DEF ReviewInv, TypeOK, Revisions
    <3> QED BY <3>1, <3>2
  <2> QED BY <2>1, <2>2 DEF SourceInv, SourceSaved
<1>6. ASSUME NEW p \in Processes, abort(p) PROVE SourceInv'
  <2>1. op[p] # Idle /\ End(p) /\ UNCHANGED <<draft, version>>
    BY <1>6 DEF abort
  <2> QED BY <1>0, <2>1, SourceCommits DEF SourceSaved
<1>7. CASE \/ \E j \in Jobs : WorkerStep(j)
           \/ \E x \in (Reviews \cup Requests) \ stale : EvidenceLapses(x)
           \/ \E j \in intact : ArtifactsLost(j)
           \/ UNCHANGED vars
  <2>1. UNCHANGED <<draft, version, op>>
    BY <1>7 DEF WorkerStep, worker_claims, worker_retries, worker_fails, JobMoves, complete_job,
       complete_job_commit, EvidenceLapses, ArtifactsLost, vars
  <2> QED BY <2>1 DEF SourceInv
<1> QED BY <1>1, <1>2, <1>3, <1>4, <1>5, <1>6, <1>7 DEF Next, CommitRequest

\* Although save_draft runs beside the routes and validate_version can bring a
\* superseded revision back to life, no revision derived from an older draft is
\* ever approved or released: it kept its immutable flag.
THEOREM ApprovedSourceSaved == Spec => []ApprovedSourceIsSaved
<1>1. Init => SourceInv
  BY DEF Init, SourceInv, AbsentVersion, Idle
<1>2. ReviewInv /\ SourceInv => ApprovedSourceIsSaved
  <2> SUFFICES ASSUME ReviewInv, SourceInv, NEW r \in Revisions, version[r].source # 0,
                      version[r].status \in {"approved", "released"}
               PROVE  version[r].source = draft
    BY DEF ApprovedSourceIsSaved
  <2>1. version[r].status = "approved" => ~version[r].immutable
    <3>1. RowAgrees(r)
      BY DEF ReviewInv
    <3>2. NoApproval.kind # "design"
      BY DEF NoApproval
    <3> QED BY <3>1, <3>2 DEF RowAgrees, Corroborated, Reviewable
  <2> QED BY <2>1 DEF SourceInv
<1> QED BY <1>1, <1>2, SourceNext, ReviewInvariant, PTL DEF Spec
=============================================================================
