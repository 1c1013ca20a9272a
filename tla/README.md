# TLA+ models of Custombuild

Custombuild turns a parametric furniture design into a checked production
package. A browser client edits designs; the API (`services/api`) keeps
projects, revisions, approvals, generation jobs and releases in PostgreSQL;
Celery workers (`services/worker`) generate packages, publish the outbox,
recover lost work and reap abandoned objects; an S3 object store holds the
bytes, and a ledger in the database accounts for them.

The way from a design to chips is a chain of documents: a review package, a
machine profile authored by the workshop, a CAM candidate, programs, a
controller. Every link is checked by code that does not trust the link before.

What is hard to test is the machinery around the rendering: leases,
at-least-once delivery, row locks against snapshot reads, a database and an
object store that have no common transaction, review gates that must stay closed
through all of it, and verifiers that must refuse whatever a builder would not
have built. This project models that machinery.

| Module | Models | Proofs |
| --- | --- | --- |
| `GenerationJob` | job rows, outbox, broker, workers, recovery | `GenerationJobProofs` |
| `StorageLedger` | object ledger, quotas, writers, reaper, object store | `StorageLedgerProofs` |
| `RevisionLifecycle` | revisions, approvals, generation requests, releases, furniture draft | `RevisionLifecycleProofs` |
| `ArtifactOperationLease`, `TenantSerial` | the guard around the artifact routes, and what it promises | `ArtifactRouteProofs` |
| `TenantScheduler` | the loop over the organisations of the periodic tasks | |
| `VerifiedSpool`, `ArtifactDownload` | verified reads on a byte budget; the routes that list, stream and upload | `ArtifactRouteProofs` |
| `WorkshopTrust` | attestation chains, challenges, their single use | `WorkshopProofs` |
| `JointRetention` | signed joint evidence, issuer registries, contracts | `WorkshopProofs` |
| `StorageMaintenance`, `CoordinatedBackup` | maintenance gate, recovery, attestor; backup and restore drill | `CoordinatedBackupProofs` |
| `Geometry`, `SheetPlan`, `ReviewPackage` | nesting, DFM screen, setup plan; the review package and its verifier | `ManufacturingProofs` |
| `ProductionProfile`, `CamCandidate` | authoring of machine profiles; compiling, sealing and verifying candidates | `ManufacturingProofs` |
| `ToolpathPlan`, `ToolpathVerification`, `MachineProgram` | moves, their independent check, the posted program and the controller | `WorkshopProofs` |

`VerifiedSpool` is extended by `ArtifactDownload`, `StorageMaintenance` by
`CoordinatedBackup`, `ToolpathPlan` by `ToolpathVerification` by
`MachineProgram`, `SheetPlan` by `ReviewPackage`, `ProductionProfile` by
`CamCandidate`: the second one composes the first with what surrounds it.

The `MC` modules instantiate them for TLC; every `.cfg` belongs to one run of
`PROJECT.json`. `MCCoordination`, `MCTrust` and `MCManufacturing` check several
components that share no state in one run: a variable says which of them moves in
a behaviour. `MCPackage`, `MCCandidate` and `MCProduction` hold the instances of
`MCManufacturing`; `MCGenerationJobLive` begins the liveness run beside a job that
already has a history. `FiniteSums` has the lemmas on sums over finite sets that the proofs
about bytes rest on. Run one model with `tlc -config MCTrust.cfg MCTrust`, and check
proofs with `tlapm WorkshopProofs.tla`.

## Inventory

### Generation jobs, outbox and recovery (`tasks.py`, parts of `api.py`)

*State.* `generation_jobs` (status, attempts, lease token and expiry, next
attempt, deadline), `outbox_events` (a unique key, availability, dispatched or
not), messages in the Redis broker, and the state of each worker process.

*Operations.* The API queues a job, queues a failed or damaged one again,
cancels jobs of superseded revisions, and expires an overdue job on read. The
maintenance worker publishes events (`dispatch_outbox`) and recovers jobs
(`recover_stale_jobs`). A generation worker claims, renews its lease from a
heartbeat thread, completes or records a failure.

*Hard.* A worker that lost its lease keeps running. A publication and its commit
can be torn apart. Completion performs object-store reads while it holds the row
lock, so that clocks run out between its checks. Attempts are reset by the API
while events of the earlier round remain.

*Correct when* only the latest claim commits, success happens under a live lease
and before the deadline, terminal rows are left alone, the attempt budget holds,
no delivery is used up before it can be claimed, and every job ends.

### Storage ledger and reaper (`storage_quota.py`, `storage_reaper.py`, migration 0013)

*State.* `stored_objects` (reserved, committed, reaping, with lease or claim
token), counters per tenant and global, tombstones, the domain rows that refer to
an object, and the object store itself.

*Operations.* Reserve a batch, store its objects, commit it inside the domain
transaction; claim an abandoned object, preflight, DELETE, confirm, finalize
(tombstone, debit, delete the row). Triggers bind domain rows to committed
objects and refuse to make a job live while a reaper claims its objects.

*Hard.* Object store and database share no transaction. A DELETE may be repeated
or delayed by the SDK. Claims and leases expire during I/O. `claim_reap` decides
on a snapshot and locks afterwards.

*Correct when* no referenced object is ever missing, retired keys stay retired,
counters equal the rows, no limit is exceeded, and abandoned quota returns.

### Revisions and review gates (`api.py`, `furniture_api.py`)

*State.* For each revision its status, its immutable flag, at most one design and
one CAM approval, its jobs, its release; for the project the current revision and
the saved furniture draft.

*Operations.* create, validate, approve (design, CAM), generate (new, retry,
repair), release; save a furniture draft.

*Hard.* The routes of `api.py` exclude each other per tenant
(`_artifact_operation_dependency`); `save_draft` and the workers do not take that
lock and meet them at row locks only. Evidence goes stale and objects are
damaged between generation, approval and release. Approvals are replaced,
packages rebuilt, keys reused.

*Correct when* "approved" always stands for two separate reviewers who saw one
package, a release freezes exactly that package, older revisions are closed and
immutable rows stay as they are.

### Artifact operations and the scheduler (`artifact_operations.py`, `api.py`, `tasks.py`)

*State.* In Redis a key per tenant and a sorted set of all active operations,
both with a time to live, and a cursor per periodic task; in PostgreSQL advisory
locks of the request transactions; in each API process a limiter.

*Operations.* acquire, renew, release (three scripts), lock, enter and leave the
limiter; take the next cursor value, rotate, work through the tenants.

*Hard.* A lease runs out under a working request, or is taken by a request that
already gave up; a process dies holding everything. One organisation fails on every
tick or always has more rows than the limit; the cursor is lost.

*Correct when* the operations of a tenant happen one after the other whatever
Redis says, no layer leaks, and every organisation is served again and again.

### Downloads (`storage.py`, `api.py`)

*State.* For each request its spool, its read position and its bytes of one budget
that the process shares; the rows of a revision, its approvals and evidence.

*Operations.* Spool and verify an object, make it streamable once, stream, close;
list, download by job or release, read the signed statement, upload.

*Hard.* Storage hangs, truncates or returns other bytes; clients leave at any
chunk; closing fails; rows change during seconds of I/O.

*Correct when* only the recorded bytes are served, for a state that was current
after the last I/O, and the budget always comes back.

### Trust (`workshop_trust.py`, `workshop_nonce.py`, `joint_retention*.py`, migrations 0016 and 0018)

*State.* Registries of keys with revocations, challenges per run and stage,
attestations and evidence, acceptances; activated registries, contracts.

*Operations.* Record evidence, sign, renew challenges, revoke, accept; activate a
registry, deploy a process, sign a statement, resolve it into a contract, commit.

*Correct when* an accepted chain is a history that took place, in order, by separate
people; no contract rests on anything revoked; a key belongs to one issuer for ever.

### Maintenance and backup (`storage_recovery.py`, `storage_capacity_*.py`, `compose_backup.py`, `restore_drill.py`)

*State.* The gate row (token, epoch, owner, capacity), the attestor with its two
control files, the services of the deployment, the archive and the manifest.

*Hard.* A recovery outlives its lease, PostgreSQL reboots, a PUT is under way, a
docker command fails although it worked, the controller is killed.

*Correct when* the gate opens only over a clean ledger, a backup restores to a ledger
and a bucket that agree, and services are never left half started.

### From parts to chips (`manufacturing`, `cam`, `postprocessors`, worker `cam_candidate.py`)

*State.* Documents: design, stock, layout, DFM report, operations, profile,
toolpaths, programs, the packages they travel in; the modal state and position of the
controller and what is left of the sheet.

*Operations.* Build and verify a review package; draft, finalize and validate a
profile; compile, seal and verify a candidate; plan, verify, post, parse back, run.

*Hard.* Packages carry no signature and may be put together from two builds; builder
and verifier must agree at every boundary; a tool change may be remapped to leave
any modal state; programs are aborted; the machine is only accurate to a tolerance.

*Correct when* a builder's output verifies, what verifies is of one build, and what
runs neither collides nor overcuts nor loses a part, and cuts everything designed.

### Other parts

The domain and rule packages, templates, CAD, documents and drawings, procurement,
the web client, authentication, the API shell, infrastructure and the acceptance and
release scripts are stateless, numeric, or pure I/O, and are left out. `PROJECT.json`
lists every part with its reason.

### How the parts interact

`generate_version` inserts a job and an outbox event in one transaction; the
dispatcher publishes it; a worker claims the job, reserves and stores objects
under the ledger, and completes: in one transaction the artifact rows are
inserted, the ledger commits their objects, and the job becomes succeeded. The
review routes read jobs and artifacts. A requeue deletes artifact rows, which
leaves their objects to the reaper. A live job protects its objects from it. The
review and artifact routes run inside the artifact operation guard. The attestor and
the recovery open and close the gate through which every reservation goes; the
backup drives both. A succeeded job's package contains the review package and, where
a workshop profile exists, the candidate; the download routes hand them out.

Each module contains its own view of the parts it meets: `StorageLedger` has the
jobs reduced to terminal, queued or running under an attempt; `RevisionLifecycle`
has the workers reduced to the statuses of a job and its evidence gate, and the
exclusion of one tenant's requests reduced to a lock, which `ArtifactOperationLease`
shows the guard to provide. `StorageMaintenance` has the writers and the reaper
reduced to the states of a row; `StorageLedger` has them in full. `CamCandidate` has
the motion of a program abstract, `MachineProgram` has it move by move.

## The models

### GenerationJob

The rows of one organisation. Time is abstract: a timestamp is the outcome of its
comparison with the database clock (`_database_time` reads `clock_timestamp()` on
PostgreSQL), and environment actions let leases, deadlines, retry times and the
watchdog interval elapse at any moment, so no safety result depends on durations.
A lease token is the number of the claim that drew it.

| Code | Model |
| --- | --- |
| `generate_version` (new key; failed or damaged job) | `generate_version`, `requeue_generation` |
| `get_job` | `get_job` |
| `create_version` (its reads and its flush) | `create_version_read`, `create_version_flush` |
| `dispatch_outbox` (and a crash before its commit) | `dispatch_outbox`, `dispatch_outbox_crash` |
| `recover_stale_jobs` with both recovery functions | `recover_stale_jobs` |
| `_claim_job`, `_renew_job_lease`, `_record_failure` | `claim_job`, `renew_job_lease`, `record_failure` |
| `_complete_job` up to its evidence reads, and its commit | `complete_job`, `complete_job_commit` |
| exceptions of `generate_package`; death of the process | `generate_raises`, `worker_crash` |

`create_version` is two steps because it reads without a lock; the flush writes the
columns that changed against what was read (`Cancelled`). An insert with an existing
event key rolls its transaction back: for recovery that of the whole organisation
(`RecoveryCommits`), so one job can keep the others waiting until its own deadline
ends it. Not modelled: the batch limits (`TenantScheduler`), the rows
with a NULL deadline or retry time that only old versions wrote, dead letters, and
the cancellation by `save_draft`, which locks the jobs it cancels (see
`RevisionLifecycle`). The backoff of a failed publication is any delay of a pending
event.

### StorageLedger

The database functions of migration 0013 and their callers. A claim or lease is
held by the process that drew the token. Byte counters are modelled; the object
counters are the same with all sizes 1. `commit_batch` and `commit_transaction`
are two steps, since the completion holds its row locks and the one global quota
row while it reads evidence. `claim_reap_scan` and `claim_reap_lock` are two
steps, since the statement decides on its snapshot and READ COMMITTED re-evaluates
only the columns of the row it locks. A DELETE may leave a stray duplicate that
arrives at any later time. A PUT is not bound to the lease, only the commit is.
Renewing a lease has no effect under abstract time. `delete_pending` is written by
no code and is not a state. A reaper works on one object at a time.

### RevisionLifecycle

One project. A route is two actions of an API process: the first evaluates the
route's conditions and remembers what it read, the second applies the writes of
the transaction; `abort` is every refusal, exception or crash in between. Row
locks are derived from the pending request: all routes but `create_version` and
`validate_version` hold the revision FOR UPDATE, `create_version` holds the
project. Contents are abstract: a review stands for reason, overrides and
evidence, a request for the generation request with its evidence and profiles;
evidence may lapse (`stale`) and artifacts may be lost (`intact`). A job's
idempotency key is its revision, request and approval snapshot. Early returns
that only read (an unchanged revision, a repeated approval or release, an existing
job that is returned) write nothing and need no action. The statuses concept,
cam_validated and archived are written by no code.

### ArtifactOperationLease and TenantSerial

A request of an artifact route goes through four stages: the Redis script
(`acquire`, or `acquire_times_out` when the script ran but its answer came too
late), the advisory locks and the limiter (`fence`, `fence_refused`), the route
(`route_returns`, `route_raises`, or `heartbeat_fails`, which cancels it), the
release in Redis and then the end of the session (`commit`, `rollback`): the lease
is given back *before* the transaction ends. A lease may expire at any time, also
under a working request; a process may die with all its requests, which ends their
transactions but leaves Redis as it was. Two tenants may share a lock key, since
PostgreSQL locks 32 bits of a hash.

`TenantSerial` is what the dependency promises: an operation enters its tenant
alone, sees its data, and writes once or not at all. The refinement maps the holder
of a tenant to the request of that tenant that holds its lock key, and the value to
the committed operations. Redis is not part of the mapping: it only sheds load.

### TenantScheduler

`tick_starts` takes the cursor, rotates the registered organisations and keeps
that list; `visit` is one organisation, whose transaction may fail without ending
the tick; the tick ends when the list or the global limit is used up. The cursor's
answer may be lost (`cursor_answer_lost`: that tick is given up), the
key may vanish, a tick may die, organisations and rows keep arriving. The counter
is kept modulo a multiple of every list length, which is how the code uses it.

### VerifiedSpool and ArtifactDownload

`VerifiedSpool` is the read path of `storage.py`: reserve the recorded size, open,
read chunk by chunk under a deadline, check size and digest, hand over the token to
the stream, close. Iterator and response may both want to close it: the first takes
the flag and gives the bytes back, also when the spool itself cannot be closed.
`ArtifactDownload` adds the routes: which rows they read, what they keep, which
objects they verify in which order, and the second reading of the rows after the
last I/O. Simplifications: the binding of a row to the ledger is `StorageLedger`'s
and is not repeated; the siblings of a job are read in one step; `design_glb` is
only asked for by HEAD and never retained; an object without digest metadata is
read and hashed (`verify_metadata`'s fallback); an abort may come while a pool thread
still works, which then ends on its own; a tenant has one request at a time, its
multipart body included. The signed statement of a job route is checked before the
last evidence I/O and not read again afterwards; `AnswersAreCurrent` does not speak
of it.

### WorkshopTrust

One production run. People make records, sign the attestation of a stage with the
evidence, setup and challenge they believe in, and may sign again; `replace_object` is a
store that changed. Signatures are ideal and a digest is the value itself. `accept`
is the whole verifier followed by the consumption of the challenges in the
transaction, under the state machine that migration 0016 gives `workshop_nonce_sets`.
The measured tolerances of a setup are reduced to inside or outside of the policy, and
the evidence of a stage (three references, one or two in the code) to one record; the
first stage takes evidence from the end of the generation on (time 0), a later one from
the stage before. No service in the repository writes the challenge and acceptance tables
yet: `issue_nonce_set`, `invalidate_nonce_set` and the consumption in `accept` are what
the constraints of the migration leave to one, and are marked external in the map. A
set's `expires_at` is left out, which only lets the model accept more.

### JointRetention

`activate_registry` compares with the registry before only and holds the advisory
lock exclusively; `assert_registry`, `resolve` and `commit_contract` are one API
transaction that holds it shared. A process keeps the registry it was deployed with,
which may be any registry activated so far.

### StorageMaintenance and CoordinatedBackup

The gate row has a token, an epoch, the boot of PostgreSQL and whether capacity was
verified. A recovery begins, closes each open reservation when its lease is over,
waits and finishes; each step compares token and epoch. The attestor lists the bucket
and the ledger, then activates or withdraws capacity. `CoordinatedBackup` is
`create_backup` command by command: pause and stop in order, recover, attest,
inventory, dump, archive, attest again, manifest, resume in reverse. A command may
fail and have worked; the controller may be killed. A PUT that left a service before
it was stopped may land later. A store whose start command failed is found by its
readiness probe, as `recover_store` does. Sizes, signatures, encryption and the database
roles probed by the drill are left out, and the drill compares sets of keys where the
code compares counts per table and tombstones. Two omissions concern the gate:
that an attestation must be at most ten minutes old (without it the model lets writers
in more often than the code), and `terminalize_expired_staging_jobs` with the live
generation leases a recovery waits for: the rows of `StorageMaintenance` are open or
expired, and which job row stood behind one is `GenerationJob`'s. The instance has one
key that is written, so a stray PUT and a reservation of another key never coincide in
it; the proofs have any number of keys.

### SheetPlan and ReviewPackage

`SheetPlan` is the nester (candidate positions, tie-breaks, kerf and margins), the
rules of the DFM screen and the order of setups and operations, as functions on
rectangles in whole units (`Geometry`). The nester's loop over the sorted instances is
a recursive function on the sets of instances placed so far, whose last one is that of
the greatest key; a sorted list has each member at the place its rank gives it. A blank
has the size of its part.
`ReviewPackage` builds a package from a call or refuses with the code's blocker, and
verifies a received one by deriving everything again from its frozen inputs. Nothing
in a package is signed, so `receive_package` may take up to `MaxExchanged` documents
from another build and seal the result again. Not all documents are compared: of the
FreeCAD project the verifier asks only that it is there when it was asked for
(`package.py:1551`), and of the nine documents a caller may enclose (drawings, manuals,
labels, reports; `enclosed`) only that path, role and media type are allowed
(`ArtifactIdentitiesHold`). The statement, the provenance and the furniture source, the
other three a caller passes, are bound (`SourcesHold`, `StatementHolds`). The grain
issues of a report are held against the grouped bill of materials: an issue names whole
groups (`GroupedWith`). A group does not say which of its blanks may be turned, so the
builder's own package can fail this check when two equal blanks differ in that
(`GroupsTurnAlike` in `BuilderMeetsVerifier`). The verifier does not ask again
whether a registration between two sides is missing, nor whether a joint is
supported, so a package that refuses machining for one of these reasons is taken at
its word; no cutting data follows from it. Keep-outs are judged in the frame of the
setup. `select_tool` asks every tool for the width of a feature, where the code lets a
feature without one pass; `PlanBlocker` has the refusals of the setup plan that a
screened layout can still meet.

### ProductionProfile and CamCandidate

`ProductionProfile` has the two separate sets of rules for a profile: the
authoring tool's (`finalize`, `validate_profile_bytes`) and the compiler's loader.
`CamCandidate` is the way of the files: draft, edits with mistakes, finalize, or a
file written by hand; compile offline or in the worker, replace documents by those
of another build and seal again, verify. As `docs/CAM_CANDIDATE_WORKSHOP_HANDOFF.md`
says, a candidate is not signed: the recipient checks that it says the same
everywhere and belongs to the review and the source it names. The motion of a program
is abstract here (what it cuts, where and with what). The dry run of `finalize`
generates and posts the programs but does not call the toolpath verifier, so for the
motion of a compiled candidate `ReadyProfilesCompile` rests on what `GeneratedIsAccepted`
says in `MachineProgram`. Left out: the keep-outs a context must repeat
(`toolpaths.py:502`) and the second reading of the operations (`:462`), the limit of 999
programs and names that differ in case only, the roles and media types of the public
evidence.

### ToolpathPlan, ToolpathVerification, MachineProgram

Moves are generated operation by operation (approach, levels, raster or lap,
tabs, retract), grouped into programs by setup and tool with releases last.
`ToolpathVerification` derives levels, laps and bridges again from the job.
`MachineProgram` posts the plan, parses it back line by line and runs it on a
controller with modal state, work offsets, a remappable tool change and an accuracy;
what is gone of the sheet is kept as cells and depths (`removed`), and every illegal
motion as `harm`. A job carries its machine (bed, travel along Z, limits of speed and
feed) and its profile: the attested policies, the work offset the controller holds for
each setup, and the height at which tools are changed. The last two meet the setup only
when a program is posted (`SetupOffsetAndClearance`): a plan that was generated and
verified is refused there when tools would be changed below the rapid plane, or when the
stock does not lie where the offset says.

Lengths are small integers whose unit is the process accuracy. Abstractions that a reader
of the code will notice:

- the sweep of a cutter is the rectangle round the capsule of `toolpaths.py:1691`, which
  refuses a little more at corners;
- a corner arc is one chord, without the check of the interpolation error
  (`toolpaths.py:1436`, `production_verification.py:2107`);
- there are no corner reliefs, open ends or countersinks, and with them no declared
  envelopes and no exits over an edge (`production_verification.py:1296`);
- the fit budget of a joint, the equality of tolerances and the deviation of a drill's
  diameter (`toolpaths.py:747-888`) are left out, and so is the absolute limit on the
  overtravel of a through cut; T and H numbers are unique because they are the tool;
- the controller's modes that one line sets together (plane, distance, feed and spindle
  mode) are one mode; the identity header, line lengths and characters are not in the
  text, and poster and parser are given one profile, which the code compares.

## Runs

| Run | Checks | Instance | States |
| --- | --- | --- | --- |
| `job_fencing` | `EvidenceFromLatestAttempt`, `AttemptBudget`, `BackoffKeepsItsDelivery`, `FencedSuccess` | 1 job, 2 workers, 2 attempts, 1 requeue | 1.25 million |
| `job_liveness` | `EveryJobTerminates`, `QueuedIsDelivered` | 2 jobs of one organisation, of which one begins finished or recovering a vanished worker under a key that is taken; 1 worker, 2 attempts, 1 requeue | 170 thousand |
| `storage_ledger` | `ReferencedBytesExist`, `RetiredStaysRetired`, `QuotaIsExact` | 2 attempts sharing a key and a writer of another tenant, 2 reapers, limits that do not hold both | 695 thousand |
| `storage_reclaimed` | `ReservationEnds` | a job's object and an upload, 1 reaper | |
| `review_lifecycle` | `OldRevisionsAreClosed`, `ApprovedSourceIsSaved`, `ReleaseIsWhatWasReviewed`, `ApprovedIsCorroborated`, `ImmutableIsFrozen` | 2 revisions, 2 jobs, 2 builds, 2 drafts, 2 API processes, 2 reviewers | 412 thousand |
| `coordination` | `GuardLayersAgree`, `SerialOperations`, `NothingStranded`; `NobodyStarves` | 3 requests of 2 tenants on 2 processes with one slot; 3 organisations of which one may always fail | 62 thousand |
| `downloads` | `BudgetBalances`, `ServedIsRecorded`, `AnswersAreCurrent`, `CapacityComesBack` | 2 tenants on a budget that does not hold both, 1 disturbance | 261 thousand |
| `trust` | `WorkHappenedInOrder`, `AcceptedChainIsGenuine`; `AssertedStaysActivated`, `KeyMaterialHasOneOwner`, `RevokedBindsNothing` | 3 stages, 3 keys, 2 runs, 2 generations of challenges, 1 slip; 2 issuers, 2 keys, 3 registries | 273 thousand |
| `backup` | `RecoveryGateHolds`, `RestoresToAgreement`, `AllOrNothingRuns`, `StrayBytesAreNoticed` | 2 services, a stored key and a written one, 2 recoveries, 2 boots, 1 failing command | 599 thousand |
| `manufacturing` | `BuilderMeetsVerifier`, `AcceptedIsOfOneBuild`, `PlannedSheetIsSound`; `ReadyProfilesCompile`, `WorkshopRunsWhatWasReviewed`; `SafeMotion`, `MachinedAsDesigned`, `GeneratedIsAccepted` | the sheets, reviews and jobs of `MCPackage`, `MCCandidate`, `MCProduction` | 189 thousand |
| `job_event_keys`, `job_superseded` | a statement of the docs that the code does not keep, see below | | |

Some properties are conjunctions of parts that are named where they are defined:
`QuotaIsExact` (the counters are the sums over the rows; no limit is exceeded),
`GuardLayersAgree` (Redis counts exactly the owners of tenant keys; the limit holds
over all processes; behind the locks the limiter never refuses),
`AcceptedChainIsGenuine` (claims were recorded; roles stay apart; no replay),
`RecoveryGateHolds` (an open gate is clean; the newest recovery owns it),
`MachinedAsDesigned` (never overcut; parts stay held; everything is cut).

*Why the bounds are enough.* A lost update or a stale owner needs two actors on one
row: two workers, reapers, API processes, recoveries. Two attempts and one requeue
give every kind of claim (first, retried, recovered, requeued) and every reuse of
an attempt number. Two drafts and two revisions give a revision that is superseded
in each of the two ways. A single slot with three requests gives contention inside a
tenant, between tenants and between processes. Three organisations with a global
limit of two give one that the limit cuts off. Three registries are the least in
which a rule between neighbours could fail between the ends. One mistake or fault is
placed at every step of the chains and of the backup, where each check is
meant to catch it alone; the packages take up to five and the candidates up to two
documents of another build, which covers every pair a single check compares. The
sheets of `manufacturing` have one part, two parts, clamps, two sides, pockets,
drills and tabs, and sizes on both sides of the limits they meet; the jobs of
`MCProduction` include tool changes below, at and above the rapid plane (`ChangeAt`), a
travel that ends among the moves or just below them (`TravelTo`), a clamp with a blind
inner contour (`Clamped`), and each policy unattested. Plans and texts are altered, a
move or a line at a time, in three of them: a drilled part, a part with a pocket, and
the one with the clamp. The theorems below remove the
bounds for every safety property but `MachinedAsDesigned` and `GeneratedIsAccepted`,
which rest on the jobs of `MCProduction`.

The second job of `job_liveness` begins late in its history, because two jobs from their
beginnings have too many states for a liveness check. Its two beginnings are those that
matter to the other job: nothing left to do, or a recovery that collides with an event
of the round before the requeue and so rolls back every recovery of the organisation.

*Deadlock* is not checked in the safety runs: a finished, superseded or exhausted
system does stop, and so does a bounded instance when its budget of faults and
operations is used up.

*Symmetry* is used over workers, reapers, API processes, reviewers, abstract
contents, issuers and key material, which no definition tells apart, and in no run
with a liveness property.

### Fairness

`job_liveness`: beat schedules dispatch and recovery for ever (weak fairness of
both), clocks move, a live worker goes on until it ends or dies. Nothing is
assumed of the API. The lease of a live worker need never expire, only that of a
vanished one. `EveryJobTerminates` in addition assumes that deadlines pass;
`QueuedIsDelivered` that the broker does not lose every message of a job published
again and again, that an open `create_version` ends, and that the deadlines of the
*other* jobs pass. The last cannot be dropped: while a neighbour's recovery collides, the
watchdog's writes for this job are rolled back with it.

`storage_reclaimed`: beat runs the reaper for ever, so each object whose turn comes
again and again is scanned once (strong fairness); an upload or an attempt ends; a
job reaches its deadline; leases expire. From some time on reapers do not crash,
the store answers, and a claim outlives its reaper's work (`Calm`): without it no
code could finish a reap.

`coordination`: a route that entered ends, since its reads have the storage read
deadline; the cleanup that the dependency runs in its `finally` ends, and so does the
session; a Redis key passes away once nobody renews it. Nothing is assumed of
requests that have not been admitted. For the scheduler: beat sends the task for
ever and a worker takes a tick to its end unless it dies.

`downloads`: handlers go on, a storage read is ended by its deadline, an upload by
its idle timeout, a response by `artifact_stream_timeout_seconds`. Nothing is assumed
of the provider or of the client.

`backup`: the attestor's rounds repeat and the reaper takes up reservations whose
leases ran out. Nothing is assumed of the backup itself.

### What the violation runs show

- `job_event_keys`: retry and recovery events are keyed by the attempt number. A
  manual retry or a repair resets it, the key repeats, and the recovery of the whole
  organisation rolls back until the deadline of the job passes.
- `job_superseded`: `create_version` cancels jobs it read without a lock, also one
  that has succeeded since. The artifacts stay, the row says cancelled.

### Other divergences

Four more statements do not hold of the code. Each is a definition of its module, and
TLC refutes it within seconds as the `INVARIANT` of the configuration named here.
None endangers what the runs above check.

- `ReapingExcludesLiveJob` (`MCStorageLedger.cfg`): a requeue that commits between
  snapshot and lock of `claim_reap` leaves a queued job with an object under a claim. The
  preflight and `finalize_reap` still refuse to delete it (`ReferencedBytesExist`
  holds); the job cannot move until the claim is gone.
- `DerivedIsCurrent` (`MCRevisionLifecycle.cfg`): `validate_version` overwrites the
  superseded that `save_draft` has written. The row stays immutable, so no approval or
  release follows.
- `StaleReviewCanBeRegenerated` (`MCRevisionLifecycle.cfg`): the refusal's advice to
  generate a new job can lead to the old job, which CAM approval refuses. Only reviews
  without warning overrides are concerned: an override carries its time and makes the
  content new.
- `SecondAttestationIsOfRestartedStore` (`MCBackup.cfg`): `docs/OPERATIONS.md:28-30`
  has the resumed services rest on a fresh attestation of the restarted store. The
  refresh of `storage_capacity_refresh.py:219` is satisfied by a heartbeat of a round
  that listed the bucket before the restart. The bytes are the same, so
  `RestoresToAgreement` holds.

## Proofs

TLAPS proves the theorems below for all values of the constants under the named
assumptions of the modules. These only say what kind of thing a constant is:
`GenerationAssumption`; `LedgerAssumption`, with `BatchesAreFinite`; `SetsAssumption`
and `BoundsAssumption` of the revisions; `LeaseAssumption`; `SpoolAssumption`, with
finitely many tenants and kinds of objects, and `DownloadAssumption`, that the routes'
objects are among those; `RetentionAssumption`; `WorkshopAssumption`; `BackupAssumption`,
that the two lists of `compose_backup.py` name the services. TLC evaluates each of them
on a run.

Those of the manufacturing chain say what its constructors let through, since the
documents of a package are values of Python classes that check themselves:

| Assumption | Says | Because |
| --- | --- | --- |
| `SheetPlanBounds` | the limits of the screen are naturals | constants of `dfm.py` |
| `CallsAreTyped` | whole micrometres, positive sizes, part, feature and tool ids unique, every part has an outline | `__post_init__` in `model.py` and `operations.py:69`, `adapters.py:91`, `adapters.py:190` |
| `SplicedAreBuilt`, `DesignIdNamesContent` | packages that are mixed were built; a design id names one design | a design id is the hash of its canonical content |
| `ReviewsArePlans` | operation ids are unique, each setup has operations | ids are made of instance and feature, setups of the operations found (`operations.py:308`) |
| `ReviewsParse` | a review's operations read as operations | the review's own verification has read them |
| `LocalIdentity` | the running source tree has an identity | `IsLocalSource` is computed from it |
| `SiblingsWereBuilt` | candidates that are mixed were built | as for packages |
| `JobsAreTyped` | rapid height and stock size are naturals, bed, travel, tool-change height and origins whole micrometres | `BoundSetup` and `ProductionExecutionContext`, `production_model.py:382` and `:518` |

### Jobs (`GenerationJobProofs`)

- `TypeCorrect`: `TypeOK` is inductive as it stands. Lemmas on the row writers
  (`RowWriters`, `WorkerWriters`, `KeysTyped`) carry it.
- `EvidenceFenced`: `Spec => []EvidenceFromLatestAttempt`. Not inductive alone, since
  nothing in it says why a stale worker cannot pass the token check. `FencingInv`
  adds that a running row holds the token of its latest claim, that artifacts exist
  only for finished jobs, and that a worker inside `_complete_job` owns its row and
  is alone there (the row lock). The proof has a step per action; `CommittersKept`
  treats all those that leave locked rows alone.
- `SuccessIsFenced`: the action property `FencedSuccess`. The only step that makes a row
  succeeded is the commit of a completion, whose worker owns a running row
  by `FencingInv` and compares lease and deadline again.
- `BudgetHolds`: `AttemptBudget`, from `BudgetInv`: the claims of the current request are
  at most the attempts on the row, and those of each earlier request were within the
  budget. A requeue resets the attempts, so the bound alone would not survive it.
- `BackoffIsDelivered`: `BackoffKeepsItsDelivery` is inductive with the types: the
  dispatcher publishes only what is due, and a retry's event becomes due with its job.

### Storage ledger (`StorageLedgerProofs`)

- `ReferencesAreSafe`, `RetirementIsFinal`, `ReapingNeverReturns`: the first two from
  `LedgerInv`, which adds that whatever a DELETE, running or stray, may still hit is
  unreferenced and reaping or retired (`DeletesAreDoomed`), that stored bytes exist
  until then (`StoredBytesExist`), and that an open completion has rows no reaper can
  take (`CompletionsHoldTheirRows`).
- `QuotasAreExact`: `QuotaIsExact`, from `QuotaInv`. The code adjusts counters by
  differences and never adds the rows up. `QuotaInv` adds what makes the differences
  right: finitely many rows exist, a reaping row carries the state it was accounted
  under, and the reaper that holds its claim debits that very state
  (`ClaimsCarryTheirState`), also after a claim was taken over. The limit is compared
  with the counters (`CountersFitQuota`) and holds for the rows because both are equal.

### Sums (`FiniteSums`)

A sum over a finite set is what choosing one element after the other adds up to. The
module shows that the order does not matter and what a change of one summand, a change
of the set and a sum of sums do. The induction is a minimal counterexample: a
smallest subset for which the claim fails exists because strict inclusion of finite sets
is well founded (`MinimalSubset`), and the claim at that subset follows from the one
without an element of it.

### Reviews (`RevisionLifecycleProofs`)

- `ApprovalsCorroborate`, `ReleasesAreReviewed`, `ImmutableStaysFrozen`,
  `LifecycleTyped`: from `ReviewInv`, at the end of `RevisionLifecycle`. A route reads,
  does I/O and commits later, so the invariant says of every open request that what it
  read still holds when it commits (`RequestHolds`), and of every revision that status,
  flag, approvals and release agree (`RowAgrees`). Two facts the code never checks
  follow from it and carry the proof: a CAM approval needs no test of the status and a
  generation none of the immutable flag, because a design approval exists only on a
  revision under review or on one that left it for good. The lemmas treat the steps by
  what they write: nothing (`BeginKeeps`), one revision under the tenant lock
  (`ReviewCommits`, `EndKeeps`), or only unfinished jobs beside it (`WorkerKeeps`).
- `OldRevisionsClosed`: from `ClosureInv`. `create_version` cancels the jobs it read, not
  those that are there when it commits: the invariant adds that it has read every
  unfinished one, since generation is excluded by the tenant lock and workers create
  none; and that what `validate_version` read is still the current revision, or it
  would reopen an old one.
- `ApprovedSourceSaved`: from `SourceInv`, which extends the claim to the revisions that
  may still be approved and to the one an open `create_version` will insert. That
  needs the exclusion between `create_version` and `save_draft` at the project row.

### The artifact guard (`ArtifactRouteProofs`)

- `GuardSerialises`, `UpdatesAreKept`: the guard implements `TenantSerial`. `LeaseInv`
  says that a request inside the fence holds the lock key of its own tenant
  (`KeysAreOwn`) and that what it read is still the data of its tenant
  (`ReadsStayCurrent`). No conjunct mentions Redis or the time to live, so the exclusion
  does not depend on them: a lost lease costs capacity, never an update. Each action is
  an `Enter`, a `Commit`, a `Leave` or a stutter; a crash is the `Leave` of several
  tenants at once.
- `LayersAgree`: `GuardLayersAgree`, from `LayersInv`: a tenant key holds the token of a
  request of that tenant (otherwise a release could free another's slot), the slots are
  finite and within the limit, and whoever has a place in its process's limiter also
  holds a slot and its lock key (`PlacesAreFenced`), so the limiter can never be
  fuller than the fence allows.

### Downloads (`ArtifactRouteProofs`)

- `BudgetIsBalanced`, `ServedBytesAreRecorded`: from `SpoolInv`. For each place of the
  handlers it says what an operation owns there (`OwnsItsPlace`: retained bytes only
  while something is retained, the token's bytes only until the winner of `close()` gave
  them back, nothing once it is over) and what its spool stands for
  (`ServesItsSpool`: a token means recorded bytes read to their end, and the client has
  what the iterator has passed). Without the first a token could be released twice,
  without the second a complete response could be short.
- `AnswersCurrent`: from `AnswersInv`. Rows only move away from what was generated, so
  what they say at a gate they said when the last byte was checked (`StillSays`); and for
  each place between that byte and the response, what the gates before it established
  (`GatesPassed`).

### Trust (`WorkshopProofs`)

- `AssertionsHold`, `KeysHaveOneOwner`, `RevocationsBind`: the rule an activation checks
  between neighbours (`Monotonic`) is reflexive and transitive, so the activated
  registry descends from all before it (`HistoryDescends`). `RetentionInv` adds that
  open transactions and contracts were resolved against the registry of their epoch.
  What any earlier registry revoked is then revoked in it.
- `WorkIsOrdered`, `ChainIsGenuine`: from `TrustInv`. The verifier sees only the chain it
  is given, so the invariant connects that with what happened: a submitted attestation
  refers to a record somebody made (`SubmittedIsSigned`), an acceptance lies in the past,
  was signed by registered keys and is the only one of its generation of challenges
  (`AcceptedOnce`). The order of any two stages follows from that of neighbours.

### Maintenance and backup (`CoordinatedBackupProofs`)

`BackupInv` has four parts, since the controller acts on a deployment that goes on
moving around it: the deployment itself (types, `BytesAreKnown`, `GateInv`); from the
recovery on no writer runs and the ledger has no reservation under way (`QuietInv`); so
the parts captured at different moments are of one state (`CaptureInv`); and which
services run at each step of stopping, resuming and rolling back (`WritersInv`).

- `GateHolds`: `RecoveryGateHolds`. A gate that was opened and not attested yet stands
  over a ledger without targets, because each step of a recovery compares token and
  epoch under the row lock.
- `RestoreAgrees`: `RestoresToAgreement`. A PUT may land after its service was stopped,
  so the bucket need not stand still; the archive is taken while the store is down and
  compared with the inventory afterwards, which is what the proof uses.
- `WritersAllOrNone`: `AllOrNothingRuns`, for any two lists of services.

### Sheets and review packages (`ManufacturingProofs`)

The nester, the sorting of operations and the choice of tools are computed over finite
sets of any size, and the library's induction theorems cannot be instantiated. The
module gets along without them. A recursive function on subsets is shown to exist and to
satisfy its equation by a minimal counterexample (`NestsAgree`, `NestsExist`, on
`MinimalSubset` of `FiniteSums`); a finite set with distinct keys has a least member
(`FirstByKey`), and the ranks in it are a bijection with the first numbers
(`RankIsBijective`), so that sorting by rank lists every member once and in order.

- `SheetsAreSound`: `PlannedSheetIsSound`. Three arguments meet. The nester keeps
  `SoundLayout` from one instance to the next: what is placed lies in the usable area, with
  the kerf between it and the defects, the clamps and what was placed before
  (`ExtendedIsSound`, `NestIsSound`). A screen without blocking issues means each cut
  stays on its part, misses the keep-outs in the frame of its setup and leaves the wall
  (`CleanScreen`, with `CleanPart` and `CleanCut`); the sheet of the property is in
  another frame, and the lemmas on `OnSheet`, `Flipped` and `ToMachine` carry
  rectangles over, for rotated parts and the other side. And the keys of the operations
  order the sheet so that it is turned once and parts are released last
  (`SheetIsTurnedOnce`). `PlanIsSound` combines them for one plan.
- `AcceptedPackages`: `AcceptedIsOfOneBuild`: with machining documents, all the verifier
  reads is the build of the frozen request, which the builder takes; the FreeCAD project
  of the parcel stands where the build would put its own, and the enclosed documents are
  part of the request. `PackageInv` says only that each document
  of a parcel is that document of one of the builds that may be mixed, not which. All the
  rest follows from the checks of the verifier: what a frozen input fixes
  (`PackageInputDocuments`), that the frozen stocks without their pins are stocks the
  builder takes (`FrozenStocksAreTaken`, `PinsPutBack`), and that every derived document
  is then the builder's (`GeneratedPackageIsBuilt`). The proof shows which check
  carries what: where the verifier does not ask, the property has the disjunct on the
  registration and the exception of the FreeCAD project. `SheetsAreSound` uses the same invariant, so it holds for mixed packages.
- `BuilderPasses`: `BuilderMeetsVerifier`. The invariant is the property with the type of
  the call; the work is `BuiltVerifies`, check by check (`BundleStocks`, `BundlePlan`,
  `BundleReportIsAllowed`, `BundleGrain`, `BundleInventory`, `BundleReadiness`,
  `BundleMachining` ...). `GroupsTurnAlike` is what `BundleGrain` needs: equal blanks
  then take the same stock. The verifier has its own version of each rule, so each of
  these lemmas compares two definitions on all inputs that got so far (`Unrefused`).
  Among what it shows: the only issue of the screen that does not block is the warning
  about neighbouring reliefs (`ScreenIssues`); a registered stock is still one the part
  fits (`PartFitsItsStock`); and an unblocked plan has an operation and a setup, which the
  readiness report counts on (`CamHasOperations`, because every part has an outline).
  `NesterNeverRaises` says that `validate_layout`, written apart from the nester,
  accepts all its layouts.

### Profiles and candidates (`ManufacturingProofs`)

- `WorkshopRuns`: `WorkshopRunsWhatWasReviewed`. `CandidateInv` says of every toolpath
  document, built, redrawn or taken from another candidate, that it is `Drawn`: made by
  grouping the operations of some review under some context. An operation is then in
  exactly one program, that of its key (`PlannedOnce`, from the ranking of the
  keys). The verifier's comparisons pin review, profile and programs to each other
  (`VerifiedCandidate`, `ProgramRows`).
- `ReadyCompiles`: `ReadyProfilesCompile`. `ReceiptsInv` says a receipt is of a document
  that passed validation. `ValidatedBuildVerifies` then goes through the checks of the
  compiler: the loader accepts it, the programs of one setup follow each other
  (`PlannedInOneVisit`), and the program index reads back as it was written.

### The program on the machine (`WorkshopProofs`)

`MotionIsSafe`: `SafeMotion`, for any jobs, any plan and text that somebody altered
between the steps, any state the remapped tool change leaves behind, any loss of speed
and any abort. Nothing is assumed of how the plan was generated: the proof uses only
what the last check before packing, the independent verification and the parser, leave.

- `MotionInv` says that what is packed was verified and parses, and that the controller
  before line k of a running program is `Controlled`: which modes are restated
  (`ModesAt`), spindle, compensation, tool and offset (`SpindleAt`, `CompAt`, `HeadAt`),
  and where the tool is (`PlaceAt`). Before the canonical state is restated most of
  that is unknown, after the tool change it is unknown again; a line that moves is
  reached only once all of it holds.
- `PostedLines` gives the line at each place of a text the parser accepts: 30 lines
  before the moves, one for each move, six after them. So the step of `RunLine` splits
  by place: canonical lines, the two moves of the head in machine coordinates, the tool
  change, compensation and offset, the approach, the moves, the end. One lemma for each
  shows that the line does no harm and leaves what the next one needs.
- `ReadyProgram` collects what the moves need: the endpoints lie on the bed, a rapid
  that traverses is at the safe height at both ends, no rapid ends in stock, the offset
  of the profile is the origin of the setup and tools are changed no lower than the safe
  height. It follows from the verifier's
  motion checks and from the bindings the parser compares.
- That no sheet is cut once its parts are free is an argument over programs, not lines:
  the release order the verifier checks over the whole plan.
- The attested policies are part of the argument: `ProfileHolds` asks for all of them, and
  that a mode takes effect, that a dwell means the speed is reached, that the interlock
  holds the feed and that a program is restarted from its first line rest on them.

### Only model-checked

- Liveness (`EveryJobTerminates`, `QueuedIsDelivered`, `ReservationEnds`,
  `NothingStranded`, `NobodyStarves`, `CapacityComesBack`, `StrayBytesAreNoticed`): it
  rests on fairness and ENABLED, which the prover does not handle.
- `MachinedAsDesigned`, `GeneratedIsAccepted`. The second says exactly what can
  still happen to an unaltered plan: the verifier blocks it if and only if a setup
  reaches below the machine's travel with its whole spoilboard allowance, and the
  postprocessor refuses what was verified if and only if an offset differs or tools are
  changed below the rapid plane (`linuxcnc_production.py:345`). Both are about what the generator
  computes, over levels, lines, laps and tabs, and put together from sequences of
  sequences; the first compares what is left of the sheet, cell by cell, with the
  design. What these folds return for every job takes induction over data at each level
  of them. `MotionIsSafe` needs none of it, because it rests on the checks alone.

## Not modelled

- *Pure computation over reals and large tables*: the domain engine, rules, templates,
  documents and drawings, procurement, CAD bridge and design service. They are
  functions without state; TLC could only evaluate examples of them, which the unit
  tests do. The models take their results as data.
- *Text formats*: ZIP, JSON canonical forms, G-code number formats, signatures.
  Documents are values and a digest is the value it was taken of.
- *Project drafts*: `update_project_draft` is one compare-and-set under a row lock.
- *Review and revocation of external evidence* appear in `ArtifactDownload` and
  `RevisionLifecycle` as rows that change, not as routes.
- *Authentication, row-level security, migrations, API shell, web client,
  infrastructure, release and acceptance scripts*: configuration, I/O, one-shot
  reports. The migrations whose functions run in production are modelled where they
  belong (0013, 0016, 0018).
- *The validation postprocessor* writes non-cutting motion for the same machine.

## Plan

Done: the three core modules; the guard and its refinement; the scheduler; downloads;
both chains of trust; maintenance and backup; the manufacturing chain; theorems for
every safety property but `MachinedAsDesigned` and `GeneratedIsAccepted`.

Left, in this order:

1. `NeverOvercut` for any plan the verifier accepts, which is the part of
   `MachinedAsDesigned` that does not ask what the generator returns.
2. An abstract job (queued, running, terminal) that `GenerationJob` and the job of
   `RevisionLifecycle` implement.
3. Review and revocation of external evidence as actions of `RevisionLifecycle`.
