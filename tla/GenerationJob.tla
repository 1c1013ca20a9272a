---------------------------- MODULE GenerationJob ----------------------------
(***************************************************************************)
(* The generation jobs of one organisation: the generation_jobs rows, the  *)
(* transactional outbox, the broker, the generation workers, and the       *)
(* maintenance tasks dispatch_outbox and recover_stale_jobs.               *)
(*                                                                         *)
(* Time is abstract.  Every timestamp that the code compares with the      *)
(* database clock is the outcome of that comparison (a lease is live or    *)
(* expired, a deadline ahead or passed, a retry in the future or due) and  *)
(* an environment action lets each of them elapse at any moment.  No       *)
(* safety property can therefore depend on how the durations compare.      *)
(***************************************************************************)
EXTENDS Naturals

CONSTANTS Jobs,                    \* job identities (one per idempotency key)
          Workers,                 \* generation worker processes
          NoJob,                   \* the job of an idle worker
          MAX_GENERATION_ATTEMPTS, \* claims allowed between two API requests
          MaxRequeues              \* bound: API requeues of one job

ASSUME GenerationAssumption ==
    /\ MAX_GENERATION_ATTEMPTS \in Nat \ {0}
    /\ MaxRequeues \in Nat
    /\ NoJob \notin Jobs

VARIABLES
    job,         \* job[j]: the generation_jobs row
    claims,      \* claims[j]: claims of j so far; the n-th one draws token n
    requeues,    \* requeues[j]: manual retries and evidence repairs of j
    artifacts,   \* artifacts[j]: token whose artifact rows are committed, or 0
    waiting,     \* retry outbox_events whose retry time is in the future
    pending,     \* other outbox_events with dispatched_at NULL
    dispatched,  \* outbox_events with dispatched_at set
    broker,      \* jobs with a generate_package message in the broker
    worker,      \* worker[w]: the state of a worker process
    superseding, \* superseding[j]: status an open create_version has read
    superseded   \* jobs of superseded design versions

outbox == <<waiting, pending, dispatched>>
vars == <<job, claims, requeues, artifacts, outbox, broker, worker,
          superseding, superseded>>

-----------------------------------------------------------------------------
(* Rows, events and workers *)

TERMINAL_JOB_STATUSES == {"succeeded", "failed", "cancelled"}
ActiveStatuses == {"queued", "running"}
JobStatuses == {"absent"} \cup ActiveStatuses \cup TERMINAL_JOB_STATUSES

JobRow == [status   : JobStatuses,
           attempts : Nat,
           token    : Nat,                            \* lease_token; 0 is NULL
           lease    : {"none", "live", "expired"},    \* lease_expires_at
           next     : {"none", "future", "due"},      \* next_attempt_at
           deadline : {"ahead", "passed"},            \* deadline_at
           quiet    : BOOLEAN]  \* updated_at older than the watchdog interval

\* event_key, which is unique.  The number is the attempt of a retry or a
\* recovery, it stands for the uuid4 of a requeue, and is 0 otherwise.
EventKinds == {"generation", "requeue", "retry", "recovery", "watchdog"}
EventKeys == EventKinds \X Jobs \X Nat
JobOf(key) == key[2]
EventExists(key) == key \in waiting \cup pending \cup dispatched

WorkerRow == [pc       : {"idle", "generating", "committing", "failing"},
              job      : Jobs \cup {NoJob},
              token    : Nat,
              guard    : BOOLEAN,   \* FALSE once the heartbeat thread has failed
              terminal : BOOLEAN]   \* the exception forbids an automatic retry

AbsentJob == [status |-> "absent", attempts |-> 0, token |-> 0, lease |-> "none",
              next |-> "none", deadline |-> "ahead", quiet |-> FALSE]
IdleWorker == [pc |-> "idle", job |-> NoJob, token |-> 0, guard |-> TRUE,
               terminal |-> FALSE]

\* The row as the API queues it: budget, lease and deadline start anew.
QueuedJob == [AbsentJob EXCEPT !.status = "queued", !.next = "due"]

Init ==
    /\ job = [j \in Jobs |-> AbsentJob]
    /\ claims = [j \in Jobs |-> 0]
    /\ requeues = [j \in Jobs |-> 0]
    /\ artifacts = [j \in Jobs |-> 0]
    /\ waiting = {} /\ pending = {} /\ dispatched = {}
    /\ broker = {}
    /\ worker = [w \in Workers |-> IdleWorker]
    /\ superseding = [j \in Jobs |-> "no"]
    /\ superseded = {}

-----------------------------------------------------------------------------
(* Helpers *)

lease_is_live(row) == row.lease = "live"
deadline_is_expired(row) == row.deadline = "passed"

\* terminalize_deadline, terminalize_attempt_budget and the other ways a row
\* becomes failed write the same columns.
Terminalized(row) ==
    [row EXCEPT !.status = "failed", !.token = 0, !.lease = "none",
                !.next = "none", !.quiet = FALSE]

\* Mutant: recovery delays the next attempt although its event is published now.
RequeuedLater(row, next) ==
    [row EXCEPT !.status = "queued", !.token = 0, !.lease = "none",
                !.next = "future", !.quiet = FALSE]

\* The row as _record_failure or _recover_stale_job hands it back to the queue.
Requeued(row, next) ==
    [row EXCEPT !.status = "queued", !.token = 0, !.lease = "none",
                !.next = next, !.quiet = FALSE]

\* A FOR UPDATE lock on the row outlives a step only while _complete_job reads
\* evidence from the object store inside its transaction.
RowLocked(j) == \E w \in Workers : worker[w].pc = "committing" /\ worker[w].job = j

\* Mutant: the owner of a row is recognised by its status alone.
OwnsRunningRow(w, j) == job[j].status = "running"

\* The WHERE clause of every worker write: running, and under the worker's token.
Owns(w, j) ==
    /\ job[j].status = "running"
    /\ job[j].token = worker[w].token

CreateVersionOpen == \E j \in Jobs : superseding[j] # "no"

-----------------------------------------------------------------------------
(* API *)

\* generate_version for a new idempotency key.  It and create_version hold the
\* organisation's artifact operation lease, so they exclude each other.
generate_version(j) ==
    /\ job[j].status = "absent"
    /\ ~CreateVersionOpen
    /\ job' = [job EXCEPT ![j] = QueuedJob]
    /\ pending' = pending \cup {<<"generation", j, 0>>}
    /\ UNCHANGED <<claims, requeues, artifacts, waiting, dispatched, broker,
                   worker, superseding, superseded>>

\* generate_version for a failed job (manual retry) or for a succeeded job
\* whose stored evidence is damaged (evidence repair).
requeue_generation(j) ==
    /\ job[j].status \in {"failed", "succeeded"}
    /\ j \notin superseded
    /\ ~CreateVersionOpen
    /\ requeues[j] < MaxRequeues
    /\ job' = [job EXCEPT ![j] = QueuedJob]
    /\ requeues' = [requeues EXCEPT ![j] = @ + 1]
    /\ artifacts' = [artifacts EXCEPT ![j] = 0]
    /\ pending' = pending \cup {<<"requeue", j, requeues[j] + 1>>}
    /\ UNCHANGED <<claims, waiting, dispatched, broker, worker, superseding,
                   superseded>>

\* get_job, which expires an overdue job.
get_job(j) ==
    /\ job[j].status \in ActiveStatuses
    /\ deadline_is_expired(job[j])
    /\ ~RowLocked(j)
    /\ job' = [job EXCEPT ![j] = Terminalized(@)]
    /\ UNCHANGED <<claims, requeues, artifacts, outbox, broker, worker,
                   superseding, superseded>>

\* create_version reads the active jobs of the prior versions without a lock ...
create_version_read ==
    /\ ~CreateVersionOpen
    /\ superseding' = [j \in Jobs |-> IF job[j].status \in ActiveStatuses
                                      THEN job[j].status ELSE "no"]
    /\ superseded' = superseded \cup {j \in Jobs : job[j].status # "absent"}
    /\ UNCHANGED <<job, claims, requeues, artifacts, outbox, broker, worker>>

\* ... and writes them at its flush.  The ORM writes the columns whose loaded
\* value changed: a job read as queued keeps the lease it has gained since,
\* a job read as running keeps the next_attempt_at it has gained since.
Cancelled(row, read) ==
    IF read = "queued"
    THEN [row EXCEPT !.status = "cancelled", !.next = "none", !.quiet = FALSE]
    ELSE [row EXCEPT !.status = "cancelled", !.token = 0, !.lease = "none",
                     !.quiet = FALSE]

create_version_flush ==
    /\ CreateVersionOpen
    /\ \A j \in Jobs : superseding[j] # "no" => ~RowLocked(j)
    /\ job' = [j \in Jobs |-> IF superseding[j] = "no" THEN job[j]
                              ELSE Cancelled(job[j], superseding[j])]
    /\ superseding' = [j \in Jobs |-> "no"]
    /\ UNCHANGED <<claims, requeues, artifacts, outbox, broker, worker,
                   superseded>>

-----------------------------------------------------------------------------
(* Maintenance worker (a singleton) *)

\* dispatch_outbox publishes the available events.  A publication that fails is
\* tried again after its backoff: the event stays pending, since a pending event
\* may wait any time for the next dispatch anyway.
dispatch_outbox ==
    /\ \E published \in SUBSET pending :
         /\ published # {}
         /\ broker' = broker \cup {JobOf(key) : key \in published}
         /\ dispatched' = dispatched \cup published
         /\ pending' = pending \ published
    /\ UNCHANGED <<job, claims, requeues, artifacts, waiting, worker, superseding,
                   superseded>>

\* The maintenance worker dies after publishing and before its commit.
dispatch_outbox_crash ==
    /\ \E published \in SUBSET pending :
         broker' = broker \cup {JobOf(key) : key \in published}
    /\ UNCHANGED <<job, claims, requeues, artifacts, outbox, worker,
                   superseding, superseded>>

WatchdogKey(j) == <<"watchdog", j, 0>>
RecoveryKey(j) == <<"recovery", j, job[j].attempts>>
RetryKey(j) == <<"retry", j, job[j].attempts>>

\* The rows recover_stale_jobs selects, FOR UPDATE SKIP LOCKED.
StaleJobs ==
    {j \in Jobs :
        /\ job[j].status \in ActiveStatuses
        /\ ~RowLocked(j)
        /\ \/ deadline_is_expired(job[j])
           \/ /\ job[j].status = "queued"
              /\ \/ job[j].attempts >= MAX_GENERATION_ATTEMPTS
                 \/ job[j].next = "due" /\ job[j].quiet
           \/ /\ job[j].status = "running"
              /\ job[j].lease = "expired"}

\* Mutant: only the attempts end a job, the deadline does not.
Exhausted(row) == row.attempts >= MAX_GENERATION_ATTEMPTS

MustTerminalize(row) ==
    deadline_is_expired(row) \/ row.attempts >= MAX_GENERATION_ATTEMPTS

\* _recover_unclaimed_queued_delivery touches updated_at and returns or re-arms
\* the one watchdog event of the job unless a delivery is still pending.
recover_unclaimed_queued_delivery(row) ==
    IF MustTerminalize(row) THEN Terminalized(row)
    ELSE [row EXCEPT !.quiet = FALSE]

\* _recover_stale_job hands a vanished worker's job back to the queue.
recover_stale_job(row) ==
    IF MustTerminalize(row) THEN Terminalized(row) ELSE Requeued(row, "due")

\* Mutant: the watchdog only touches the row and never publishes again.
NeverWatched(j) == FALSE

NeedsWatchdog(j) ==
    /\ job[j].status = "queued"
    /\ ~MustTerminalize(job[j])
    /\ \A key \in waiting \cup pending : JobOf(key) # j

NeedsRecoveryEvent(j) ==
    job[j].status = "running" /\ ~MustTerminalize(job[j])

\* One duplicate key makes the organisation's whole transaction roll back.
RecoveryCommits ==
    \A j \in StaleJobs : NeedsRecoveryEvent(j) => ~EventExists(RecoveryKey(j))

recover_stale_jobs ==
    /\ StaleJobs # {}
    /\ RecoveryCommits
    /\ job' = [j \in Jobs |->
                 IF j \notin StaleJobs THEN job[j]
                 ELSE IF job[j].status = "queued"
                      THEN recover_unclaimed_queued_delivery(job[j])
                      ELSE recover_stale_job(job[j])]
    /\ LET watchdogs  == {WatchdogKey(j) : j \in {i \in StaleJobs : NeedsWatchdog(i)}}
           recoveries == {RecoveryKey(j) : j \in {i \in StaleJobs : NeedsRecoveryEvent(i)}}
       IN /\ pending' = pending \cup watchdogs \cup recoveries
          /\ dispatched' = dispatched \ watchdogs
    /\ UNCHANGED <<claims, requeues, artifacts, waiting, broker, worker,
                   superseding, superseded>>

-----------------------------------------------------------------------------
(* Generation workers *)

\* _claim_job on delivery of a message.  Delivery is at least once: the message
\* may stay in the broker, and dispatch or a crash may duplicate it.
Claimable(j) ==
    /\ job[j].status = "queued"
    /\ ~MustTerminalize(job[j])
    /\ job[j].next # "future"

\* Mutant: the claim does not count as an attempt.
ClaimedUncounted(row, token) ==
    [row EXCEPT !.status = "running", !.token = token, !.lease = "live",
                !.next = "none", !.quiet = FALSE]

Claimed(row, token) ==
    [row EXCEPT !.status = "running", !.token = token, !.lease = "live",
                !.next = "none", !.attempts = row.attempts + 1, !.quiet = FALSE]

Generating(j, token) ==
    [IdleWorker EXCEPT !.pc = "generating", !.job = j, !.token = token]

claim_job(w, j) ==
    /\ worker[w].pc = "idle"
    /\ j \in broker
    /\ ~RowLocked(j)
    /\ broker' \in {broker, broker \ {j}}
    /\ IF Claimable(j)
       THEN /\ claims' = [claims EXCEPT ![j] = @ + 1]
            /\ job' = [job EXCEPT ![j] = Claimed(@, claims[j] + 1)]
            /\ worker' = [worker EXCEPT ![w] = Generating(j, claims[j] + 1)]
       ELSE /\ job' = [job EXCEPT ![j] =
                         IF @.status = "queued" /\ MustTerminalize(@)
                         THEN Terminalized(@) ELSE @]
            /\ UNCHANGED <<claims, worker>>
    /\ UNCHANGED <<requeues, artifacts, outbox, superseding, superseded>>

\* The heartbeat renews a live, owned lease that is before its deadline;
\* anything else, a database error included, fails the guard for good.
renew_job_lease(w) ==
    LET j == worker[w].job
        renewed == Owns(w, j) /\ lease_is_live(job[j]) /\ ~deadline_is_expired(job[j])
    IN /\ worker[w].pc = "generating"
       /\ worker[w].guard
       /\ ~RowLocked(j)
       /\ \/ /\ renewed
             /\ job' = [job EXCEPT ![j].lease = "live"]
             /\ UNCHANGED worker
          \/ /\ worker' = [worker EXCEPT ![w].guard = FALSE]
             /\ UNCHANGED job
       /\ UNCHANGED <<claims, requeues, artifacts, outbox, broker, superseding,
                      superseded>>

\* An exception: the failed guard, a retryable error, a terminal one (blocked
\* production, the soft time limit).  A rolled back completion comes here too.
Failing(proc, terminal) == [proc EXCEPT !.pc = "failing", !.terminal = terminal]

generate_raises(w) ==
    /\ worker[w].pc \in {"generating", "committing"}
    /\ \E terminal \in BOOLEAN :
         worker' = [worker EXCEPT ![w] = Failing(@, terminal)]
    /\ UNCHANGED <<job, claims, requeues, artifacts, outbox, broker, superseding,
                   superseded>>

\* The work of the attempt ends, lease_guard.check passes, and _complete_job runs
\* up to the point where it reads the stored evidence back.
complete_job(w) ==
    LET j == worker[w].job
        expired == Owns(w, j) /\ deadline_is_expired(job[j])
    IN /\ worker[w].pc = "generating"
       /\ worker[w].guard
       /\ ~RowLocked(j)
       /\ job' = [job EXCEPT ![j] = IF expired THEN Terminalized(@) ELSE @]
       /\ worker' = [worker EXCEPT ![w] =
                       IF Owns(w, j) /\ ~expired /\ lease_is_live(job[j])
                       THEN [@ EXCEPT !.pc = "committing"] ELSE Failing(@, FALSE)]
       /\ UNCHANGED <<claims, requeues, artifacts, outbox, broker, superseding,
                      superseded>>

\* Mutant: the clocks are only read before the evidence reads.
FenceSkipped(row) == TRUE

\* The final fence: both clocks are read again before the success commits.
FencePassed(row) == lease_is_live(row) /\ ~deadline_is_expired(row)

Succeeded(row) ==
    [row EXCEPT !.status = "succeeded", !.token = 0, !.lease = "none",
                !.next = "none"]

complete_job_commit(w) ==
    LET j == worker[w].job IN
    /\ worker[w].pc = "committing"
    /\ IF FencePassed(job[j])
       THEN /\ job' = [job EXCEPT ![j] = Succeeded(@)]
            /\ artifacts' = [artifacts EXCEPT ![j] = worker[w].token]
            /\ worker' = [worker EXCEPT ![w] = IdleWorker]
       ELSE /\ worker' = [worker EXCEPT ![w] = Failing(@, deadline_is_expired(job[j]))]
            /\ UNCHANGED <<job, artifacts>>
    /\ UNCHANGED <<claims, requeues, outbox, broker, superseding, superseded>>

\* _record_failure.  A retry event whose key exists rolls the transaction back.
record_failure(w) ==
    LET j == worker[w].job
        terminal == worker[w].terminal \/ MustTerminalize(job[j])
        retried == Owns(w, j) /\ ~terminal /\ ~EventExists(RetryKey(j))
    IN /\ worker[w].pc = "failing"
       /\ ~RowLocked(j)
       /\ job' = [job EXCEPT ![j] = CASE Owns(w, j) /\ terminal -> Terminalized(@)
                                      [] retried -> Requeued(@, "future")
                                      [] OTHER -> @]
       /\ waiting' = waiting \cup (IF retried THEN {RetryKey(j)} ELSE {})
       /\ worker' = [worker EXCEPT ![w] = IdleWorker]
       /\ UNCHANGED <<claims, requeues, artifacts, pending, dispatched, broker,
                      superseding, superseded>>

\* A worker process dies; an open transaction rolls back, and the unacknowledged
\* message is delivered again.
worker_crash(w) ==
    /\ worker[w].pc # "idle"
    /\ worker' = [worker EXCEPT ![w] = IdleWorker]
    /\ broker' = broker \cup {worker[w].job}
    /\ UNCHANGED <<job, claims, requeues, artifacts, outbox, superseding,
                   superseded>>

-----------------------------------------------------------------------------
(* Environment: the broker loses a message, and the clock moves *)

LoseMessage(j) ==
    /\ j \in broker
    /\ broker' = broker \ {j}
    /\ UNCHANGED <<job, claims, requeues, artifacts, outbox, worker, superseding,
                   superseded>>

LeaseExpires(j) ==
    /\ job[j].lease = "live"
    /\ job' = [job EXCEPT ![j].lease = "expired"]
    /\ UNCHANGED <<claims, requeues, artifacts, outbox, broker, worker,
                   superseding, superseded>>

DeadlinePasses(j) ==
    /\ job[j].status \in ActiveStatuses
    /\ job[j].deadline = "ahead"
    /\ job' = [job EXCEPT ![j].deadline = "passed"]
    /\ UNCHANGED <<claims, requeues, artifacts, outbox, broker, worker,
                   superseding, superseded>>

RetryDue(j) ==
    /\ job[j].next = "future"
    /\ job' = [job EXCEPT ![j].next = "due"]
    /\ UNCHANGED <<claims, requeues, artifacts, outbox, broker, worker,
                   superseding, superseded>>

\* A retry event becomes available when its job's next_attempt_at is reached.
EventAvailable(key) ==
    /\ key \in waiting
    /\ key = RetryKey(JobOf(key)) => job[JobOf(key)].next # "future"
    /\ waiting' = waiting \ {key}
    /\ pending' = pending \cup {key}
    /\ UNCHANGED <<job, claims, requeues, artifacts, dispatched, broker, worker,
                   superseding, superseded>>

\* The watchdog interval elapses without an update of a queued row.
GoesQuiet(j) ==
    /\ job[j].status = "queued"
    /\ ~job[j].quiet
    /\ job' = [job EXCEPT ![j].quiet = TRUE]
    /\ UNCHANGED <<claims, requeues, artifacts, outbox, broker, worker,
                   superseding, superseded>>

-----------------------------------------------------------------------------
Api(j) == generate_version(j) \/ requeue_generation(j) \/ get_job(j)

WorkerStep(w) ==
    \/ \E j \in Jobs : claim_job(w, j)
    \/ renew_job_lease(w) \/ generate_raises(w)
    \/ complete_job(w) \/ complete_job_commit(w) \/ record_failure(w)
    \/ worker_crash(w)

Clock(j) == LeaseExpires(j) \/ DeadlinePasses(j) \/ RetryDue(j) \/ GoesQuiet(j)

Next ==
    \/ \E j \in Jobs : Api(j) \/ LoseMessage(j) \/ Clock(j)
    \/ create_version_read \/ create_version_flush
    \/ dispatch_outbox \/ dispatch_outbox_crash \/ recover_stale_jobs
    \/ \E w \in Workers : WorkerStep(w)
    \/ \E key \in waiting : EventAvailable(key)

Spec == Init /\ [][Next]_vars

\* A worker whose process lives renews its lease, so only the lease of a vanished
\* worker is sure to run out.
Vanished(j) == \A w \in Workers : worker[w].token # job[j].token \/ worker[w].job # j

\* Beat schedules dispatch and recovery for ever, and clocks move.
SchedulerFairness ==
    /\ WF_vars(dispatch_outbox) /\ WF_vars(recover_stale_jobs)
    /\ \A j \in Jobs : /\ WF_vars(LeaseExpires(j) /\ Vanished(j))
                       /\ WF_vars(RetryDue(j)) /\ WF_vars(GoesQuiet(j))
    /\ \A j \in Jobs, n \in 1..MAX_GENERATION_ATTEMPTS : WF_vars(EventAvailable(<<"retry", j, n>>))

\* A worker process keeps running its task until it ends or crashes.
WorkerFairness ==
    \A w \in Workers :
        /\ WF_vars(complete_job(w) \/ generate_raises(w))
        /\ WF_vars(complete_job_commit(w))
        /\ WF_vars(record_failure(w))

FairSpec == Spec /\ SchedulerFairness /\ WorkerFairness

\* What the environment grants beyond it, where a property needs it: deadlines pass;
\* the broker does not lose every message of a job that is published again and again.
DeadlinesPass == \A j \in Jobs : WF_vars(DeadlinePasses(j))
MessagesArrive ==
    /\ WF_vars(create_version_flush)
    /\ \A j \in Jobs : SF_vars(\E w \in Workers : claim_job(w, j))

-----------------------------------------------------------------------------
(* Properties *)

\* The rows, events and processes are of their types, and a worker that is not idle
\* has the job it claimed.
TypeOK ==
    /\ job \in [Jobs -> JobRow]
    /\ claims \in [Jobs -> Nat]
    /\ requeues \in [Jobs -> 0..MaxRequeues]
    /\ artifacts \in [Jobs -> Nat]
    /\ waiting \subseteq EventKeys
    /\ pending \subseteq EventKeys
    /\ dispatched \subseteq EventKeys
    /\ broker \subseteq Jobs
    /\ worker \in [Workers -> WorkerRow]
    /\ \A w \in Workers : worker[w].pc # "idle" => worker[w].job \in Jobs
    /\ superseding \in [Jobs -> {"no", "queued", "running"}]
    /\ superseded \subseteq Jobs

\* The artifact rows of a job come from its latest claim: no worker that lost its
\* lease ever commits its result over, or after, the attempt that replaced it
\* (_complete_job matches the lease token), and a succeeded job has its artifacts.
EvidenceFromLatestAttempt ==
    \A j \in Jobs :
        /\ artifacts[j] \in {0, claims[j]}
        /\ job[j].status = "succeeded" => artifacts[j] # 0

\* The inductive strengthening of EvidenceFromLatestAttempt: a running row holds the
\* token of its latest claim; artifacts exist only for a finished job; and a worker
\* inside _complete_job owns the row and is alone in there, since it holds its lock.
RowFenced(j) ==
    /\ job[j].status = "running" => job[j].token = claims[j] /\ claims[j] > 0
    /\ artifacts[j] # 0 => job[j].status \in {"succeeded", "cancelled"}
    /\ artifacts[j] \in {0, claims[j]}
    /\ job[j].status = "succeeded" => artifacts[j] # 0

CommittersOwn ==
    \A w \in Workers : worker[w].pc = "committing" => Owns(w, worker[w].job)

OneCommitter ==
    \A v, w \in Workers :
        /\ worker[v].pc = "committing" /\ worker[w].pc = "committing"
        /\ worker[v].job = worker[w].job
        => v = w

FencingInv == (\A j \in Jobs : RowFenced(j)) /\ CommittersOwn /\ OneCommitter

\* A job succeeds only at a moment when its lease is live and its deadline ahead,
\* however long the evidence reads of _complete_job took.
FencedSuccess ==
    [][\A j \in Jobs :
         job[j].status # "succeeded" /\ job'[j].status = "succeeded"
         => job[j].status = "running" /\ lease_is_live(job[j])
            /\ ~deadline_is_expired(job[j])]_vars

\* A job is claimed at most MAX_GENERATION_ATTEMPTS times per API request, whatever
\* mixture of retries, recoveries, duplicates and watchdog deliveries occurs.
AttemptBudget ==
    \A j \in Jobs : claims[j] <= MAX_GENERATION_ATTEMPTS * (requeues[j] + 1)

\* The inductive strengthening of AttemptBudget: the claims of the current request are
\* the attempts of the row, and those of each earlier request were within the budget.
BudgetInv ==
    \A j \in Jobs :
        /\ job[j].attempts <= MAX_GENERATION_ATTEMPTS
        /\ job[j].status = "absent" => job[j].attempts = 0
        /\ claims[j] <= MAX_GENERATION_ATTEMPTS * requeues[j] + job[j].attempts

\* While a retry is backing off, its own outbox event is still unpublished: the
\* delivery that _record_failure committed cannot be used up before the job is due.
BackoffKeepsItsDelivery ==
    \A j \in Jobs :
        job[j].status = "queued" /\ job[j].next = "future" => RetryKey(j) \in waiting

\* A succeeded row is immutable evidence: it changes only when the API requeues it.
SucceededIsImmutable ==
    [][\A j \in Jobs :
         job[j].status = "succeeded" /\ job'[j].status # "succeeded"
         => requeues'[j] = requeues[j] + 1]_vars

\* A vanished worker lease below the attempt budget can be requeued: the insert of
\* its recovery event does not collide with an earlier one.
VanishedLeaseIsRequeued == RecoveryCommits

\* Every requested job becomes terminal: recover_stale_jobs fails an overdue job
\* whatever happened to its worker, its messages and its events.
EveryJobTerminates ==
    DeadlinesPass => \A j \in Jobs :
        job[j].status \in ActiveStatuses ~> job[j].status \in TERMINAL_JOB_STATUSES

\* A queued job does not stay queued, although messages are lost, publications
\* fail and workers crash: the delivery watchdog publishes it again.  Its own
\* deadline need not pass.  Those of the other jobs must: one of them whose recovery
\* event collides rolls back the recovery of them all until its deadline ends it.
QueuedIsDelivered ==
    \A j \in Jobs :
        MessagesArrive /\ (\A i \in Jobs \ {j} : WF_vars(DeadlinePasses(i)))
        => (job[j].status = "queued" ~> job[j].status # "queued")
=============================================================================
