------------------------- MODULE GenerationJobProofs -------------------------
(* Theorems about GenerationJob, for any sets of jobs and workers, any attempt *)
(* budget and any number of requeues.                                          *)
EXTENDS GenerationJob, TLAPS

\* The initial state is well typed.
LEMMA InitTypeOK == Init => TypeOK
  BY GenerationAssumption DEF Init, TypeOK, JobRow, JobStatuses, ActiveStatuses,
     TERMINAL_JOB_STATUSES, WorkerRow, AbsentJob, IdleWorker

\* The row writers of the code keep a row a row.
LEMMA RowWriters ==
  ASSUME NEW row \in JobRow, NEW next \in {"future", "due"},
         NEW read \in {"queued", "running"}, NEW token \in Nat
  PROVE  /\ QueuedJob \in JobRow
         /\ Terminalized(row) \in JobRow
         /\ Requeued(row, next) \in JobRow
         /\ Cancelled(row, read) \in JobRow
         /\ Claimed(row, token) \in JobRow
         /\ Succeeded(row) \in JobRow
         /\ recover_unclaimed_queued_delivery(row) \in JobRow
         /\ recover_stale_job(row) \in JobRow
  <1> USE DEF JobRow, JobStatuses, ActiveStatuses, TERMINAL_JOB_STATUSES
  <1>1. QueuedJob \in JobRow
    BY DEF AbsentJob, QueuedJob
  <1>2. Claimed(row, token) \in JobRow
    <2>1. row.attempts + 1 \in Nat
      OBVIOUS
    <2>. QED BY <2>1 DEF Claimed
  <1>3. Terminalized(row) \in JobRow /\ Succeeded(row) \in JobRow
    BY DEF Terminalized, Succeeded
  <1>4. Requeued(row, "due") \in JobRow /\ Requeued(row, next) \in JobRow
    BY DEF Requeued
  <1>5. Cancelled(row, read) \in JobRow
    BY DEF Cancelled
  <1>6. recover_unclaimed_queued_delivery(row) \in JobRow
    BY <1>3, ZenonT(30) DEF recover_unclaimed_queued_delivery
  <1>7. recover_stale_job(row) \in JobRow
    BY <1>3, <1>4 DEF recover_stale_job
  <1>. QED BY <1>1, <1>2, <1>3, <1>4, <1>5, <1>6, <1>7

\* A worker is idle or works for a job.
WorkerTyped(proc) == proc \in WorkerRow /\ (proc.pc # "idle" => proc.job \in Jobs)

\* The state a worker moves to is a worker state.
LEMMA WorkerWriters ==
  ASSUME NEW proc, WorkerTyped(proc), proc.pc # "idle", NEW terminal \in BOOLEAN,
         NEW j \in Jobs, NEW token \in Nat
  PROVE  /\ WorkerTyped(IdleWorker)
         /\ WorkerTyped(Generating(j, token))
         /\ WorkerTyped(Failing(proc, terminal))
         /\ WorkerTyped([proc EXCEPT !.pc = "committing"])
         /\ WorkerTyped([proc EXCEPT !.guard = FALSE])
  BY DEF WorkerTyped, WorkerRow, IdleWorker, Generating, Failing

\* The event keys that the code builds are event keys.
LEMMA KeysTyped ==
  ASSUME TypeOK, NEW j \in Jobs
  PROVE  /\ RetryKey(j) \in EventKeys
         /\ RecoveryKey(j) \in EventKeys
         /\ WatchdogKey(j) \in EventKeys
         /\ <<"generation", j, 0>> \in EventKeys
         /\ <<"requeue", j, requeues[j] + 1>> \in EventKeys
  <1>1. job[j].attempts \in Nat /\ requeues[j] + 1 \in Nat
    BY GenerationAssumption DEF TypeOK, JobRow
  <1>. QED BY <1>1 DEF EventKeys, EventKinds, RetryKey, RecoveryKey, WatchdogKey

\* Every step of the system keeps the rows, events and workers well formed.
THEOREM TypeCorrect == Spec => []TypeOK
<1>1. ASSUME TypeOK, [Next]_vars PROVE TypeOK'
  <2> USE <1>1 DEF TypeOK
  <2>0. \A w \in Workers : WorkerTyped(worker[w])
    BY DEF WorkerTyped
  <2>1. ASSUME NEW j \in Jobs, generate_version(j) PROVE TypeOK'
    BY <2>1, KeysTyped, RowWriters DEF generate_version
  <2>2. ASSUME NEW j \in Jobs, requeue_generation(j) PROVE TypeOK'
    <3>1. requeues' \in [Jobs -> 0..MaxRequeues]
      BY <2>2, GenerationAssumption DEF requeue_generation
    <3>. QED BY <2>2, <3>1, KeysTyped, RowWriters DEF requeue_generation
  <2>3. ASSUME NEW j \in Jobs, get_job(j) PROVE TypeOK'
    BY <2>3, RowWriters DEF get_job, outbox
  <2>4. CASE create_version_read
    BY <2>4 DEF create_version_read, outbox, ActiveStatuses
  <2>5. CASE create_version_flush
    BY <2>5, RowWriters DEF create_version_flush, outbox
  <2>6. CASE dispatch_outbox \/ dispatch_outbox_crash
    <3>1. \A key \in EventKeys : JobOf(key) \in Jobs
      BY DEF EventKeys, JobOf
    <3>. QED BY <2>6, <3>1 DEF dispatch_outbox, dispatch_outbox_crash, outbox
  <2>7. CASE recover_stale_jobs
    <3>1. job' \in [Jobs -> JobRow]
      BY <2>7, RowWriters DEF recover_stale_jobs
    <3>2. \A j \in StaleJobs : WatchdogKey(j) \in EventKeys /\ RecoveryKey(j) \in EventKeys
      BY KeysTyped DEF StaleJobs
    <3>3. pending' \subseteq EventKeys
      BY <2>7, <3>2, ZenonT(30) DEF recover_stale_jobs
    <3>4. dispatched' \subseteq EventKeys
      BY <2>7 DEF recover_stale_jobs
    <3>. QED BY <2>7, <3>1, <3>3, <3>4 DEF recover_stale_jobs
  <2>8. ASSUME NEW w \in Workers, NEW j \in Jobs, claim_job(w, j) PROVE TypeOK'
    <3>1. CASE Claimable(j)
      <4>1. claims[j] + 1 \in Nat
        OBVIOUS
      <4>2. WorkerTyped(Generating(j, claims[j] + 1))
        BY <4>1 DEF WorkerTyped, WorkerRow, IdleWorker, Generating
      <4>3. Claimed(job[j], claims[j] + 1) \in JobRow
        BY <4>1, RowWriters
      <4>4. worker' \in [Workers -> WorkerRow]
            /\ \A v \in Workers : worker'[v].pc # "idle" => worker'[v].job \in Jobs
        BY <2>8, <3>1, <4>2 DEF claim_job, WorkerTyped
      <4>5. claims' \in [Jobs -> Nat] /\ job' \in [Jobs -> JobRow]
        BY <2>8, <3>1, <4>1, <4>3 DEF claim_job
      <4>. QED BY <2>8, <4>4, <4>5 DEF claim_job, outbox
    <3>2. CASE ~Claimable(j)
      BY <2>8, <3>2, RowWriters DEF claim_job, outbox
    <3>. QED BY <3>1, <3>2
  <2>9. ASSUME NEW w \in Workers, renew_job_lease(w) PROVE TypeOK'
    <3>1. WorkerTyped([worker[w] EXCEPT !.guard = FALSE])
      BY <2>9, <2>0 DEF renew_job_lease, WorkerTyped, WorkerRow
    <3>2. \A j \in Jobs : [job[j] EXCEPT !.lease = "live"] \in JobRow
      BY DEF JobRow
    <3>3. job' \in [Jobs -> JobRow]
      BY <2>9, <3>2 DEF renew_job_lease
    <3>4. worker' \in [Workers -> WorkerRow]
          /\ \A v \in Workers : worker'[v].pc # "idle" => worker'[v].job \in Jobs
      BY <2>9, <3>1 DEF renew_job_lease, WorkerTyped
    <3>. QED BY <2>9, <3>3, <3>4 DEF renew_job_lease, outbox
  <2>10. ASSUME NEW w \in Workers, generate_raises(w) PROVE TypeOK'
    <3>1. PICK terminal \in BOOLEAN : worker' = [worker EXCEPT ![w] = Failing(@, terminal)]
      BY <2>10 DEF generate_raises
    <3>2. WorkerTyped(Failing(worker[w], terminal))
      BY <2>10, <2>0 DEF generate_raises, WorkerTyped, WorkerRow, Failing
    <3>. QED BY <2>10, <3>1, <3>2 DEF generate_raises, outbox, WorkerTyped
  <2>11. ASSUME NEW w \in Workers, complete_job(w) PROVE TypeOK'
    <3>1. worker[w].pc # "idle"
      BY <2>11 DEF complete_job
    <3>2. /\ WorkerTyped([worker[w] EXCEPT !.pc = "committing"])
          /\ WorkerTyped(Failing(worker[w], FALSE))
      BY <3>1, <2>0 DEF WorkerTyped, WorkerRow, Failing
    <3>. QED BY <2>11, <3>2, RowWriters DEF complete_job, outbox, WorkerTyped
  <2>12. ASSUME NEW w \in Workers, complete_job_commit(w) PROVE TypeOK'
    <3>1. worker[w].pc # "idle" /\ worker[w].token \in Nat
      BY <2>12 DEF complete_job_commit, WorkerRow
    <3>2. /\ WorkerTyped(IdleWorker)
          /\ \A terminal \in BOOLEAN : WorkerTyped(Failing(worker[w], terminal))
      BY <3>1, <2>0 DEF WorkerTyped, WorkerRow, Failing, IdleWorker
    <3>3. deadline_is_expired(job[worker[w].job]) \in BOOLEAN
      BY DEF deadline_is_expired
    <3>. QED BY <2>12, <3>1, <3>2, <3>3, RowWriters
             DEF complete_job_commit, outbox, WorkerTyped
  <2>13. ASSUME NEW w \in Workers, record_failure(w) PROVE TypeOK'
    <3>1. WorkerTyped(IdleWorker) /\ worker[w].job \in Jobs
      BY <2>13 DEF record_failure, WorkerTyped, WorkerRow, IdleWorker
    <3>2. waiting' \subseteq EventKeys
      BY <2>13, <3>1, KeysTyped DEF record_failure
    <3>3. job' \in [Jobs -> JobRow]
      BY <2>13, RowWriters DEF record_failure
    <3>. QED BY <2>13, <3>1, <3>2, <3>3 DEF record_failure, WorkerTyped
  <2>14. ASSUME NEW w \in Workers, worker_crash(w) PROVE TypeOK'
    <3>1. WorkerTyped(IdleWorker)
      BY DEF WorkerTyped, WorkerRow, IdleWorker
    <3>. QED BY <2>14, <3>1 DEF worker_crash, outbox, WorkerTyped
  <2>15. ASSUME NEW j \in Jobs, LoseMessage(j) \/ Clock(j) PROVE TypeOK'
    <3>1. ASSUME NEW row \in JobRow
          PROVE  /\ [row EXCEPT !.lease = "expired"] \in JobRow
                 /\ [row EXCEPT !.deadline = "passed"] \in JobRow
                 /\ [row EXCEPT !.next = "due"] \in JobRow
                 /\ [row EXCEPT !.quiet = TRUE] \in JobRow
      BY DEF JobRow
    <3>2. job' \in [Jobs -> JobRow]
      <4>1. CASE LoseMessage(j) BY <4>1 DEF LoseMessage
      <4>2. CASE LeaseExpires(j) BY <4>2, <3>1 DEF LeaseExpires
      <4>3. CASE DeadlinePasses(j) BY <4>3, <3>1 DEF DeadlinePasses
      <4>4. CASE RetryDue(j) BY <4>4, <3>1 DEF RetryDue
      <4>5. CASE GoesQuiet(j) BY <4>5, <3>1 DEF GoesQuiet
      <4>. QED BY <2>15, <4>1, <4>2, <4>3, <4>4, <4>5 DEF Clock
    <3>. QED BY <2>15, <3>2 DEF LoseMessage, Clock, LeaseExpires, DeadlinePasses,
                RetryDue, GoesQuiet, outbox
  <2>16. ASSUME NEW key \in waiting, EventAvailable(key) PROVE TypeOK'
    BY <2>16 DEF EventAvailable
  <2>17. CASE UNCHANGED vars
    BY <2>17 DEF vars, outbox
  <2>. QED
    BY <2>1, <2>2, <2>3, <2>4, <2>5, <2>6, <2>7, <2>8, <2>9, <2>10, <2>11, <2>12,
       <2>13, <2>14, <2>15, <2>16, <2>17 DEF Next, Api, WorkerStep
<1>. QED BY InitTypeOK, <1>1, PTL DEF Spec

-----------------------------------------------------------------------------
\* What the row writers do to the columns the fencing argument reads.
LEMMA RowColumns ==
  ASSUME NEW row \in JobRow, NEW next, NEW read, NEW token
  PROVE  /\ QueuedJob.status = "queued"
         /\ Terminalized(row).status = "failed"
         /\ Requeued(row, next).status = "queued"
         /\ Cancelled(row, read).status = "cancelled"
         /\ Succeeded(row).status = "succeeded"
         /\ Claimed(row, token).status = "running"
         /\ Claimed(row, token).token = token
  BY DEF JobRow, QueuedJob, AbsentJob, Terminalized, Requeued, Cancelled, Succeeded,
     Claimed

\* What moving a worker does to its program counter.
LEMMA WorkerColumns ==
  ASSUME NEW proc \in WorkerRow, NEW terminal, NEW j, NEW token
  PROVE  /\ IdleWorker.pc = "idle"
         /\ Generating(j, token).pc = "generating"
         /\ Failing(proc, terminal).pc = "failing"
         /\ [proc EXCEPT !.guard = FALSE].pc = proc.pc
  BY DEF WorkerRow, IdleWorker, Generating, Failing

\* A step keeps the completing workers fenced if it brings no worker into
\* _complete_job and writes status and token of no locked row.
LEMMA CommittersKept ==
  ASSUME TypeOK, FencingInv,
         \A i \in Jobs : RowLocked(i) => /\ job'[i].status = job[i].status
                                         /\ job'[i].token = job[i].token,
         \A w \in Workers : worker'[w].pc = "committing" => worker'[w] = worker[w]
  PROVE  CommittersOwn' /\ OneCommitter'
  BY DEF TypeOK, FencingInv, CommittersOwn, OneCommitter, RowLocked, Owns

\* The fencing of the rows by their lease tokens (Owns, RowLocked) is inductive, for
\* every number of workers, duplicates, crashes, recoveries and lost messages.
THEOREM FencingInductive == Spec => []FencingInv
<1>1. Init => FencingInv
  BY DEF Init, FencingInv, RowFenced, CommittersOwn, OneCommitter, AbsentJob, IdleWorker
<1>2. ASSUME TypeOK, FencingInv, [Next]_vars PROVE FencingInv'
  <2> USE <1>2
  <2>0. \A j \in Jobs : RowFenced(j)
    BY DEF FencingInv
  \* A locked row is running, and its lock is its committing worker.
  <2>a. \A i \in Jobs : RowLocked(i) => job[i].status = "running"
    BY DEF FencingInv, CommittersOwn, RowLocked, Owns
  <2>1. ASSUME NEW j \in Jobs, generate_version(j) \/ requeue_generation(j)
        PROVE  FencingInv'
    <3>1. CommittersOwn' /\ OneCommitter'
      BY <2>1, <2>a, CommittersKept DEF generate_version, requeue_generation, TypeOK
    <3>2. QueuedJob.status = "queued"
      BY DEF QueuedJob, AbsentJob
    <3>3. \A i \in Jobs : RowFenced(i)'
      BY <2>1, <2>0, <3>2 DEF generate_version, requeue_generation, TypeOK, RowFenced
    <3>. QED BY <3>1, <3>3 DEF FencingInv
  <2>3. ASSUME NEW j \in Jobs, get_job(j) PROVE FencingInv'
    <3>1. CommittersOwn' /\ OneCommitter'
      BY <2>3, CommittersKept DEF get_job, TypeOK
    <3>2. \A i \in Jobs : RowFenced(i)'
      BY <2>3, <2>0, RowColumns DEF get_job, TypeOK, RowFenced, ActiveStatuses
    <3>. QED BY <3>1, <3>2 DEF FencingInv
  <2>5. CASE create_version_flush
    <3>1. CommittersOwn' /\ OneCommitter'
      BY <2>5, CommittersKept DEF create_version_flush, TypeOK
    <3>2. \A i \in Jobs : RowFenced(i)'
      BY <2>5, <2>0, RowColumns, SMTT(30) DEF create_version_flush, TypeOK, RowFenced
    <3>. QED BY <3>1, <3>2 DEF FencingInv
  <2>7. CASE recover_stale_jobs
    <3>1. ASSUME NEW j \in Jobs, j \in StaleJobs
          PROVE  /\ job[j].status \in ActiveStatuses
                 /\ ~RowLocked(j)
                 /\ job'[j].status \in {"queued", "failed"}
      <4>1. job[j].status \in ActiveStatuses /\ ~RowLocked(j)
        BY <3>1 DEF StaleJobs
      <4>2. job[j] \in JobRow
        BY DEF TypeOK
      <4>3. CASE job[j].status = "queued"
        <5>1. job'[j] = recover_unclaimed_queued_delivery(job[j])
          BY <2>7, <3>1, <4>3 DEF recover_stale_jobs
        <5>2. [job[j] EXCEPT !.quiet = FALSE].status = "queued"
          BY <4>2, <4>3 DEF JobRow
        <5>. QED BY <4>1, <4>2, <5>1, <5>2, RowColumns
                 DEF recover_unclaimed_queued_delivery
      <4>4. CASE job[j].status # "queued"
        <5>1. job'[j] = recover_stale_job(job[j])
          BY <2>7, <3>1, <4>4 DEF recover_stale_jobs
        <5>. QED BY <4>1, <4>2, <5>1, RowColumns DEF recover_stale_job
      <4>. QED BY <4>3, <4>4
    <3>2. \A j \in Jobs : j \notin StaleJobs => job'[j] = job[j]
      BY <2>7 DEF recover_stale_jobs
    <3>3. CommittersOwn' /\ OneCommitter'
      BY <2>7, <3>1, <3>2, CommittersKept DEF recover_stale_jobs, TypeOK
    <3>4. \A i \in Jobs : RowFenced(i)'
      BY <2>7, <2>0, <3>1, <3>2 DEF recover_stale_jobs, TypeOK, RowFenced, ActiveStatuses
    <3>. QED BY <3>3, <3>4 DEF FencingInv
  <2>8. ASSUME NEW w \in Workers, NEW j \in Jobs, claim_job(w, j) PROVE FencingInv'
    <3>0. \A i \in Jobs : i # j => job'[i] = job[i]
      BY <2>8 DEF claim_job, TypeOK
    <3>1. \A v \in Workers : worker'[v].pc = "committing" => worker'[v] = worker[v]
      BY <2>8, WorkerColumns DEF claim_job, TypeOK
    <3>2. CommittersOwn' /\ OneCommitter'
      BY <2>8, <3>0, <3>1, CommittersKept DEF claim_job
    <3>3. \A i \in Jobs : RowFenced(i)'
      <4>1. CASE Claimable(j)
        <5>1. /\ job' = [job EXCEPT ![j] = Claimed(@, claims[j] + 1)]
              /\ claims' = [claims EXCEPT ![j] = @ + 1] /\ artifacts' = artifacts
          BY <2>8, <4>1 DEF claim_job
        <5>2. /\ Claimed(job[j], claims[j] + 1).status = "running"
              /\ Claimed(job[j], claims[j] + 1).token = claims[j] + 1
          BY RowColumns DEF TypeOK
        <5>3. artifacts[j] = 0
          BY <2>0, <4>1 DEF Claimable, RowFenced
        <5>. QED BY <2>0, <5>1, <5>2, <5>3 DEF TypeOK, RowFenced
      <4>2. CASE ~Claimable(j)
        <5>1. job'[j] = job[j] \/ (job[j].status = "queued" /\ job'[j].status = "failed")
          BY <2>8, <4>2, RowColumns DEF claim_job, TypeOK
        <5>. QED BY <2>8, <2>0, <3>0, <4>2, <5>1 DEF claim_job, RowFenced
      <4>. QED BY <4>1, <4>2
    <3>. QED BY <3>2, <3>3 DEF FencingInv
  <2>9. ASSUME NEW w \in Workers, renew_job_lease(w) \/ generate_raises(w)
        PROVE  FencingInv'
    <3>1. \A v \in Workers : worker'[v].pc = "committing" => worker'[v] = worker[v]
      <4>1. CASE renew_job_lease(w)
        BY <4>1 DEF renew_job_lease, TypeOK, WorkerRow
      <4>2. CASE generate_raises(w)
        BY <4>2, WorkerColumns, SMTT(30) DEF generate_raises, TypeOK
      <4>. QED BY <2>9, <4>1, <4>2
    <3>2. \A i \in Jobs : job'[i].status = job[i].status /\ job'[i].token = job[i].token
      BY <2>9 DEF renew_job_lease, generate_raises, TypeOK, JobRow
    <3>3. UNCHANGED <<claims, artifacts>>
      BY <2>9 DEF renew_job_lease, generate_raises
    <3>4. CommittersOwn' /\ OneCommitter'
      BY <3>1, <3>2, CommittersKept
    <3>. QED BY <2>0, <3>2, <3>3, <3>4 DEF FencingInv, RowFenced
  <2>11. ASSUME NEW w \in Workers, complete_job(w) PROVE FencingInv'
    <3> DEFINE j == worker[w].job
    <3>0. j \in Jobs /\ ~RowLocked(j)
      BY <2>11 DEF complete_job, TypeOK
    <3>1. \A i \in Jobs : i # j => job'[i] = job[i]
      BY <2>11, <3>0 DEF complete_job, TypeOK
    <3>2. \A i \in Jobs : RowFenced(i)'
      <4>1. job'[j] = job[j] \/ (Owns(w, j) /\ job'[j].status = "failed")
        BY <2>11, <3>0, RowColumns DEF complete_job, TypeOK
      <4>. QED BY <2>11, <2>0, <3>1, <4>1 DEF complete_job, RowFenced, Owns
    <3>3. CASE worker'[w].pc = "committing"
      <4>0. Failing(worker[w], FALSE).pc = "failing"
        BY WorkerColumns, ZenonT(30) DEF TypeOK
      <4>1. Owns(w, j) /\ ~deadline_is_expired(job[j])
        BY <2>11, <3>3, <4>0 DEF complete_job, TypeOK
      <4>2. job' = job
        BY <2>11, <4>1 DEF complete_job, TypeOK
      <4>3. /\ worker'[w].job = j /\ worker'[w].token = worker[w].token
            /\ \A v \in Workers : v # w => worker'[v] = worker[v]
        <5>1. worker' = [worker EXCEPT ![w] = [@ EXCEPT !.pc = "committing"]]
          BY <2>11, <4>0, <4>1, <3>3 DEF complete_job, TypeOK
        <5>. QED BY <5>1 DEF TypeOK, WorkerRow
      <4>. QED BY <3>0, <3>2, <4>1, <4>2, <4>3
               DEF FencingInv, CommittersOwn, OneCommitter, RowLocked, Owns
    <3>4. CASE worker'[w].pc # "committing"
      <4>1. \A v \in Workers : worker'[v].pc = "committing" => worker'[v] = worker[v]
        BY <2>11, <3>4 DEF complete_job, TypeOK
      <4>2. CommittersOwn' /\ OneCommitter'
        BY <3>0, <3>1, <4>1, CommittersKept
      <4>. QED BY <3>2, <4>2 DEF FencingInv
    <3>. QED BY <3>3, <3>4
  <2>12. ASSUME NEW w \in Workers, complete_job_commit(w) PROVE FencingInv'
    <3> DEFINE j == worker[w].job
    <3>0. j \in Jobs /\ Owns(w, j) /\ worker[w].token = claims[j] /\ claims[j] > 0
      BY <2>12, <2>0 DEF complete_job_commit, TypeOK, FencingInv, CommittersOwn, Owns,
         RowFenced
    <3>1. worker'[w].pc # "committing" /\ \A v \in Workers : v # w => worker'[v] = worker[v]
      BY <2>12, WorkerColumns DEF complete_job_commit, TypeOK
    <3>2. \A i \in Jobs : i # j => job'[i] = job[i]
      BY <2>12 DEF complete_job_commit, TypeOK
    <3>3. \A i \in Jobs : RowFenced(i)'
      <4>1. CASE FencePassed(job[j])
        <5>1. job' = [job EXCEPT ![j] = Succeeded(@)]
              /\ artifacts' = [artifacts EXCEPT ![j] = worker[w].token]
              /\ claims' = claims
          BY <2>12, <4>1 DEF complete_job_commit
        <5>2. Succeeded(job[j]).status = "succeeded"
          BY <3>0, RowColumns DEF TypeOK
        <5>. QED BY <2>0, <3>0, <5>1, <5>2 DEF RowFenced, TypeOK
      <4>2. CASE ~FencePassed(job[j])
        BY <2>12, <2>0, <4>2 DEF complete_job_commit, RowFenced
      <4>. QED BY <4>1, <4>2
    <3>4. \A v \in Workers : v # w /\ worker[v].pc = "committing" => worker[v].job # j
      BY <2>12 DEF complete_job_commit, FencingInv, OneCommitter
    <3>. QED BY <3>1, <3>2, <3>3, <3>4 DEF FencingInv, CommittersOwn, OneCommitter, Owns,
                TypeOK
  <2>13. ASSUME NEW w \in Workers, record_failure(w) PROVE FencingInv'
    <3> DEFINE j == worker[w].job
    <3>0. j \in Jobs /\ ~RowLocked(j)
      BY <2>13 DEF record_failure, TypeOK
    <3>1. \A i \in Jobs : i # j => job'[i] = job[i]
      BY <2>13 DEF record_failure, TypeOK
    <3>2. \A v \in Workers : worker'[v].pc = "committing" => worker'[v] = worker[v]
      BY <2>13, WorkerColumns DEF record_failure, TypeOK
    <3>3. CommittersOwn' /\ OneCommitter'
      BY <3>0, <3>1, <3>2, CommittersKept
    <3>4. job'[j] = job[j] \/ (Owns(w, j) /\ job'[j].status \in {"failed", "queued"})
      BY <2>13, <3>0, RowColumns DEF record_failure, TypeOK
    <3>5. \A i \in Jobs : RowFenced(i)'
      <4>1. UNCHANGED <<claims, artifacts>>
        BY <2>13 DEF record_failure
      <4>2. ASSUME NEW i \in Jobs PROVE RowFenced(i)'
        <5>1. CASE i = j
          BY <2>0, <3>4, <4>1, <5>1 DEF RowFenced, Owns
        <5>2. CASE i # j
          BY <2>0, <3>1, <4>1, <5>2 DEF RowFenced
        <5>. QED BY <5>1, <5>2
      <4>. QED BY <4>2
    <3>. QED BY <3>3, <3>5 DEF FencingInv
  <2>14. ASSUME NEW w \in Workers, worker_crash(w) PROVE FencingInv'
    <3>1. \A v \in Workers : worker'[v].pc = "committing" => worker'[v] = worker[v]
      BY <2>14, WorkerColumns DEF worker_crash, TypeOK
    <3>2. UNCHANGED <<job, claims, artifacts>>
      BY <2>14 DEF worker_crash
    <3>3. CommittersOwn' /\ OneCommitter'
      BY <3>1, <3>2, CommittersKept
    <3>. QED BY <2>0, <3>2, <3>3 DEF FencingInv, RowFenced
  <2>15. ASSUME NEW j \in Jobs, LoseMessage(j) \/ Clock(j) PROVE FencingInv'
    <3>1. /\ \A i \in Jobs : /\ job'[i].status = job[i].status
                             /\ job'[i].token = job[i].token
          /\ UNCHANGED <<claims, artifacts, worker>>
      BY <2>15 DEF LoseMessage, Clock, LeaseExpires, DeadlinePasses, RetryDue,
         GoesQuiet, TypeOK, JobRow
    <3>2. CommittersOwn' /\ OneCommitter'
      BY <3>1, CommittersKept
    <3>. QED BY <2>0, <3>1, <3>2 DEF FencingInv, RowFenced
  <2>16. CASE UNCHANGED <<job, claims, artifacts, worker>>
    BY <2>16 DEF FencingInv, RowFenced, CommittersOwn, OneCommitter, Owns
  <2>17. CASE create_version_read \/ dispatch_outbox \/ dispatch_outbox_crash
    BY <2>16, <2>17 DEF create_version_read, dispatch_outbox, dispatch_outbox_crash
  <2>18. ASSUME NEW key \in waiting, EventAvailable(key) PROVE FencingInv'
    BY <2>16, <2>18 DEF EventAvailable
  <2>19. CASE UNCHANGED vars
    BY <2>16, <2>19 DEF vars
  <2>. QED
    BY <2>1, <2>3, <2>5, <2>7, <2>8, <2>9, <2>11, <2>12, <2>13, <2>14, <2>15, <2>17,
       <2>18, <2>19 DEF Next, Api, WorkerStep
<1>. QED BY TypeCorrect, <1>1, <1>2, PTL DEF Spec

\* A committed result always comes from the latest claim of its job, and a succeeded
\* job has one (_complete_job matches the lease token).
THEOREM EvidenceFenced == Spec => []EvidenceFromLatestAttempt
<1>1. FencingInv => EvidenceFromLatestAttempt
  BY DEF FencingInv, RowFenced, EvidenceFromLatestAttempt
<1>. QED BY FencingInductive, <1>1, PTL

\* A row becomes succeeded only in complete_job_commit, whose worker owns the running
\* row: so at that moment both clocks of the final fence are right.
THEOREM SuccessIsFenced == Spec => FencedSuccess
<1> DEFINE Success == \A j \in Jobs :
             job[j].status # "succeeded" /\ job'[j].status = "succeeded"
             => job[j].status = "running" /\ lease_is_live(job[j])
                /\ ~deadline_is_expired(job[j])
<1>1. ASSUME TypeOK, FencingInv, Next PROVE Success
  <2> USE <1>1
  <2> SUFFICES ASSUME NEW i \in Jobs,
                      job[i].status # "succeeded", job'[i].status = "succeeded"
               PROVE  job[i].status = "running" /\ FencePassed(job[i])
    BY DEF FencePassed
  <2>0. job[i] \in JobRow
    BY DEF TypeOK
  <2>1. ASSUME NEW j \in Jobs, generate_version(j) \/ requeue_generation(j) PROVE FALSE
    BY <2>1, <2>0, RowColumns DEF generate_version, requeue_generation, TypeOK
  <2>2. ASSUME NEW j \in Jobs, get_job(j) PROVE FALSE
    BY <2>2, <2>0, RowColumns DEF get_job, TypeOK
  <2>3. CASE create_version_flush
    BY <2>3, <2>0, RowColumns DEF create_version_flush, TypeOK
  <2>4. CASE recover_stale_jobs
    <3>1. [job[i] EXCEPT !.quiet = FALSE].status = job[i].status
      BY <2>0 DEF JobRow
    <3>. QED BY <2>4, <2>0, <3>1, RowColumns DEF recover_stale_jobs, TypeOK,
                recover_unclaimed_queued_delivery, recover_stale_job
  <2>5. ASSUME NEW w \in Workers, NEW j \in Jobs, claim_job(w, j) PROVE FALSE
    <3>1. job'[i] \in {job[i], Claimed(job[i], claims[i] + 1), Terminalized(job[i])}
      BY <2>5 DEF claim_job, TypeOK
    <3>. QED BY <2>0, <3>1, RowColumns
  <2>6. ASSUME NEW w \in Workers,
               renew_job_lease(w) \/ generate_raises(w) \/ worker_crash(w)
        PROVE  FALSE
    BY <2>6, <2>0 DEF renew_job_lease, generate_raises, worker_crash, TypeOK, JobRow
  <2>7. ASSUME NEW w \in Workers, complete_job(w) \/ record_failure(w) PROVE FALSE
    <3>1. job'[i] \in {job[i], Terminalized(job[i]), Requeued(job[i], "future")}
      BY <2>7 DEF complete_job, record_failure, TypeOK
    <3>. QED BY <2>0, <3>1, RowColumns, ZenonT(30)
  <2>8. ASSUME NEW w \in Workers, complete_job_commit(w)
        PROVE  job[i].status = "running" /\ FencePassed(job[i])
    <3>1. FencePassed(job[worker[w].job]) /\ i = worker[w].job
      BY <2>8 DEF complete_job_commit, TypeOK
    <3>2. Owns(w, worker[w].job)
      BY <2>8 DEF complete_job_commit, FencingInv, CommittersOwn
    <3>. QED BY <3>1, <3>2 DEF Owns
  <2>9. ASSUME NEW j \in Jobs, LoseMessage(j) \/ Clock(j) PROVE FALSE
    BY <2>9, <2>0 DEF LoseMessage, Clock, LeaseExpires, DeadlinePasses, RetryDue,
       GoesQuiet, TypeOK, JobRow
  <2>10. CASE create_version_read \/ dispatch_outbox \/ dispatch_outbox_crash
    BY <2>10 DEF create_version_read, dispatch_outbox, dispatch_outbox_crash
  <2>11. ASSUME NEW key \in waiting, EventAvailable(key) PROVE FALSE
    BY <2>11 DEF EventAvailable
  <2>. QED
    BY <2>1, <2>2, <2>3, <2>4, <2>5, <2>6, <2>7, <2>8, <2>9, <2>10, <2>11
    DEF Next, Api, WorkerStep
<1>2. ASSUME TypeOK, FencingInv, [Next]_vars PROVE [Success]_vars
  BY <1>1, <1>2
<1>. QED BY TypeCorrect, FencingInductive, <1>2, PTL DEF Spec, FencedSuccess

-----------------------------------------------------------------------------
\* What the row writers do to the attempts and to the time of the next one.
LEMMA BudgetColumns ==
  ASSUME NEW row \in JobRow, NEW next, NEW read, NEW token
  PROVE  /\ QueuedJob.attempts = 0 /\ QueuedJob.next = "due"
         /\ Terminalized(row).attempts = row.attempts
         /\ Requeued(row, next).attempts = row.attempts
         /\ Requeued(row, next).next = next
         /\ Cancelled(row, read).attempts = row.attempts
         /\ Succeeded(row).attempts = row.attempts
         /\ Claimed(row, token).attempts = row.attempts + 1
  BY DEF JobRow, QueuedJob, AbsentJob, Terminalized, Requeued, Cancelled, Succeeded,
     Claimed

\* The rows a step leaves: what the clock, the heartbeat and recovery touch.
LEMMA TouchedColumns ==
  ASSUME NEW row \in JobRow
  PROVE  /\ \A r \in {[row EXCEPT !.lease = "live"], [row EXCEPT !.lease = "expired"],
                       [row EXCEPT !.deadline = "passed"], [row EXCEPT !.quiet = TRUE],
                       [row EXCEPT !.quiet = FALSE]} :
               r.attempts = row.attempts /\ r.status = row.status /\ r.next = row.next
         /\ [row EXCEPT !.next = "due"].attempts = row.attempts
         /\ [row EXCEPT !.next = "due"].status = row.status
         /\ [row EXCEPT !.next = "due"].next = "due"
  BY DEF JobRow

\* The three ways a step treats the budget of a job: it leaves it alone, the API
\* starts it anew, or _claim_job spends an attempt that is left.
BudgetKept(j) ==
    /\ job'[j].attempts = job[j].attempts
    /\ job'[j].status = "absent" => job[j].status = "absent"
    /\ claims'[j] = claims[j] /\ requeues'[j] = requeues[j]
BudgetAnew(j) ==
    /\ job'[j].attempts = 0
    /\ claims'[j] = claims[j]
    /\ \/ job[j].status = "absent" /\ requeues'[j] = requeues[j]
       \/ requeues'[j] = requeues[j] + 1
AttemptSpent(j) ==
    /\ job[j].attempts < MAX_GENERATION_ATTEMPTS
    /\ job'[j].attempts = job[j].attempts + 1
    /\ job'[j].status = "running"
    /\ claims'[j] = claims[j] + 1 /\ requeues'[j] = requeues[j]

\* Every step treats every job in one of them.
LEMMA BudgetSteps ==
  ASSUME TypeOK, [Next]_vars, NEW i \in Jobs
  PROVE  BudgetKept(i) \/ BudgetAnew(i) \/ AttemptSpent(i)
<1>0. /\ job[i] \in JobRow /\ job \in [Jobs -> JobRow]
      /\ claims \in [Jobs -> Nat] /\ requeues \in [Jobs -> 0..MaxRequeues]
  BY DEF TypeOK
<1>1. ASSUME NEW j \in Jobs, generate_version(j) \/ requeue_generation(j)
      PROVE  BudgetKept(i) \/ BudgetAnew(i)
  BY <1>1, <1>0, BudgetColumns, RowColumns
  DEF generate_version, requeue_generation, BudgetKept, BudgetAnew
<1>2. ASSUME NEW j \in Jobs, get_job(j) PROVE BudgetKept(i)
  BY <1>2, <1>0, BudgetColumns, RowColumns DEF get_job, BudgetKept
<1>3. CASE create_version_flush
  BY <1>3, <1>0, BudgetColumns, RowColumns DEF create_version_flush, BudgetKept
<1>4. CASE recover_stale_jobs
  BY <1>4, <1>0, BudgetColumns, RowColumns, TouchedColumns
  DEF recover_stale_jobs, BudgetKept, recover_unclaimed_queued_delivery, recover_stale_job
<1>5. ASSUME NEW w \in Workers, NEW j \in Jobs, claim_job(w, j)
      PROVE  BudgetKept(i) \/ AttemptSpent(i)
  <2>1. CASE Claimable(j)
    <3>1. job[j].attempts < MAX_GENERATION_ATTEMPTS
      BY <2>1, <1>0, GenerationAssumption DEF Claimable, MustTerminalize, JobRow
    <3>. QED BY <1>5, <2>1, <3>1, <1>0, BudgetColumns, RowColumns
             DEF claim_job, BudgetKept, AttemptSpent
  <2>2. CASE ~Claimable(j)
    BY <1>5, <2>2, <1>0, BudgetColumns, RowColumns DEF claim_job, BudgetKept
  <2>. QED BY <2>1, <2>2
<1>6. ASSUME NEW w \in Workers,
             renew_job_lease(w) \/ generate_raises(w) \/ worker_crash(w)
      PROVE  BudgetKept(i)
  <2>1. job'[i] \in {job[i], [job[i] EXCEPT !.lease = "live"]}
    BY <1>6, <1>0 DEF renew_job_lease, generate_raises, worker_crash
  <2>2. UNCHANGED <<claims, requeues>>
    BY <1>6 DEF renew_job_lease, generate_raises, worker_crash
  <2>. QED BY <1>0, <2>1, <2>2, TouchedColumns, ZenonT(30) DEF BudgetKept
<1>7. ASSUME NEW w \in Workers, complete_job(w) \/ record_failure(w) PROVE BudgetKept(i)
  <2>1. job'[i] \in {job[i], Terminalized(job[i]), Requeued(job[i], "future")}
    BY <1>7, <1>0 DEF complete_job, record_failure
  <2>2. UNCHANGED <<claims, requeues>>
    BY <1>7 DEF complete_job, record_failure
  <2>. QED BY <1>0, <2>1, <2>2, BudgetColumns, RowColumns DEF BudgetKept
<1>8. ASSUME NEW w \in Workers, complete_job_commit(w) PROVE BudgetKept(i)
  BY <1>8, <1>0, BudgetColumns, RowColumns DEF complete_job_commit, BudgetKept
<1>9. ASSUME NEW j \in Jobs, LoseMessage(j) \/ Clock(j) PROVE BudgetKept(i)
  <2>1. job'[i] \in {job[i], [job[i] EXCEPT !.lease = "expired"],
                    [job[i] EXCEPT !.deadline = "passed"], [job[i] EXCEPT !.next = "due"],
                    [job[i] EXCEPT !.quiet = TRUE]}
    BY <1>9, <1>0 DEF LoseMessage, Clock, LeaseExpires, DeadlinePasses, RetryDue, GoesQuiet
  <2>2. UNCHANGED <<claims, requeues>>
    BY <1>9 DEF LoseMessage, Clock, LeaseExpires, DeadlinePasses, RetryDue, GoesQuiet
  <2>. QED BY <1>0, <2>1, <2>2, TouchedColumns, ZenonT(30) DEF BudgetKept
<1>10. CASE create_version_read \/ dispatch_outbox \/ dispatch_outbox_crash
  BY <1>10 DEF create_version_read, dispatch_outbox, dispatch_outbox_crash, BudgetKept
<1>11. ASSUME NEW key \in waiting, EventAvailable(key) PROVE BudgetKept(i)
  BY <1>11 DEF EventAvailable, BudgetKept
<1>12. CASE UNCHANGED vars
  BY <1>12 DEF vars, BudgetKept
<1>. QED
  BY <1>1, <1>2, <1>3, <1>4, <1>5, <1>6, <1>7, <1>8, <1>9, <1>10, <1>11, <1>12
  DEF Next, Api, WorkerStep

\* No mixture of retries, recoveries, duplicate deliveries and requeues claims a job
\* more than MAX_GENERATION_ATTEMPTS times per API request.
THEOREM BudgetHolds == Spec => []AttemptBudget
<1> DEFINE Max == MAX_GENERATION_ATTEMPTS
<1>0. \A r \in Nat : /\ Max * r \in Nat /\ Max * (r + 1) \in Nat
                    /\ Max * (r + 1) = Max * r + Max
  BY GenerationAssumption
<1>1. Init => BudgetInv
  <2>1. 0 <= Max * 0 + 0 /\ 0 <= Max
    BY GenerationAssumption
  <2>2. ASSUME Init, NEW j \in Jobs
        PROVE  job[j].attempts = 0 /\ claims[j] = 0 /\ requeues[j] = 0
    <3>1. job[j] = AbsentJob /\ claims[j] = 0 /\ requeues[j] = 0
      BY <2>2 DEF Init
    <3>. QED BY <3>1 DEF AbsentJob
  <2>. QED BY <2>1, <2>2 DEF BudgetInv
<1>2. ASSUME TypeOK, TypeOK', BudgetInv, [Next]_vars PROVE BudgetInv'
  <2> SUFFICES ASSUME NEW i \in Jobs
               PROVE  /\ job'[i].attempts <= Max
                      /\ job'[i].status = "absent" => job'[i].attempts = 0
                      /\ claims'[i] <= Max * requeues'[i] + job'[i].attempts
    BY DEF BudgetInv
  <2>1. /\ job[i].attempts \in Nat /\ job'[i].attempts \in Nat
        /\ claims[i] \in Nat /\ claims'[i] \in Nat
        /\ requeues[i] \in Nat /\ requeues'[i] \in Nat /\ Max \in Nat
    BY <1>2, GenerationAssumption DEF TypeOK, JobRow
  <2>2. /\ job[i].attempts <= Max
        /\ job[i].status = "absent" => job[i].attempts = 0
        /\ claims[i] <= Max * requeues[i] + job[i].attempts
    BY <1>2 DEF BudgetInv
  <2>3. Max * requeues[i] \in Nat /\ Max * (requeues[i] + 1) = Max * requeues[i] + Max
    BY <1>0, <2>1, Zenon
  <2>. HIDE DEF Max
  <2>4. CASE BudgetKept(i)
    BY <2>1, <2>2, <2>4 DEF BudgetKept
  <2>5. CASE BudgetAnew(i)
    <3>1. claims'[i] <= Max * requeues'[i]
      <4>1. CASE job[i].status = "absent" /\ requeues'[i] = requeues[i]
        BY <2>1, <2>2, <2>3, <2>5, <4>1 DEF BudgetAnew
      <4>2. CASE requeues'[i] = requeues[i] + 1
        BY <2>1, <2>2, <2>3, <2>5, <4>2 DEF BudgetAnew
      <4>. QED BY <2>5, <4>1, <4>2 DEF BudgetAnew
    <3>2. Max * requeues'[i] \in Nat
      BY <1>0, <2>1, Zenon
    <3>. QED BY <2>1, <2>5, <3>1, <3>2 DEF BudgetAnew
  <2>6. CASE AttemptSpent(i)
    BY <2>1, <2>2, <2>3, <2>6 DEF AttemptSpent, Max
  <2>. QED BY <1>2, <2>4, <2>5, <2>6, BudgetSteps
<1>3. TypeOK /\ BudgetInv => AttemptBudget
  <2> SUFFICES ASSUME TypeOK, BudgetInv, NEW i \in Jobs
               PROVE  claims[i] <= Max * (requeues[i] + 1)
    BY DEF AttemptBudget
  <2>1. /\ job[i].attempts \in Nat /\ claims[i] \in Nat /\ requeues[i] \in Nat
        /\ Max \in Nat
    BY GenerationAssumption DEF TypeOK, JobRow
  <2>2. job[i].attempts <= Max /\ claims[i] <= Max * requeues[i] + job[i].attempts
    BY DEF BudgetInv
  <2>3. Max * requeues[i] \in Nat /\ Max * (requeues[i] + 1) = Max * requeues[i] + Max
    BY <1>0, <2>1, Zenon
  <2>. QED BY <2>1, <2>2, <2>3
<1>. QED BY TypeCorrect, <1>1, <1>2, <1>3, PTL DEF Spec

\* A step that makes a row wait for its retry is _record_failure; any other leaves a
\* waiting row with the attempt it had.
LEMMA BackoffSteps ==
  ASSUME TypeOK, [Next]_vars, NEW i \in Jobs,
         job'[i].status = "queued", job'[i].next = "future"
  PROVE  \/ /\ job[i].status = "queued" /\ job[i].next = "future"
            /\ job'[i].attempts = job[i].attempts
         \/ RetryKey(i)' \in waiting'
<1> DEFINE Waits == /\ job[i].status = "queued" /\ job[i].next = "future"
                    /\ job'[i].attempts = job[i].attempts
<1>0. /\ job[i] \in JobRow /\ job \in [Jobs -> JobRow] /\ claims \in [Jobs -> Nat]
  BY DEF TypeOK
<1>1. ASSUME NEW j \in Jobs, generate_version(j) \/ requeue_generation(j) PROVE Waits
  BY <1>1, <1>0, BudgetColumns DEF generate_version, requeue_generation
<1>2. ASSUME NEW j \in Jobs, get_job(j) PROVE Waits
  BY <1>2, <1>0, RowColumns DEF get_job
<1>3. CASE create_version_flush
  BY <1>3, <1>0, RowColumns DEF create_version_flush
<1>4. CASE recover_stale_jobs
  <2>1. job'[i] \in {job[i], Terminalized(job[i]), Requeued(job[i], "due"),
                    [job[i] EXCEPT !.quiet = FALSE]}
    BY <1>4 DEF recover_stale_jobs, recover_unclaimed_queued_delivery, recover_stale_job
  <2>2. Terminalized(job[i]).status = "failed" /\ Requeued(job[i], "due").next = "due"
    BY <1>0, BudgetColumns, RowColumns
  <2>. QED BY <1>0, <2>1, <2>2 DEF JobRow
<1>5. ASSUME NEW w \in Workers, NEW j \in Jobs, claim_job(w, j) PROVE Waits
  <2>1. job'[i] \in {job[i], Terminalized(job[i]), Claimed(job[i], claims[i] + 1)}
    BY <1>5, <1>0 DEF claim_job
  <2>. QED BY <1>0, <2>1, RowColumns
<1>6. ASSUME NEW w \in Workers,
             renew_job_lease(w) \/ generate_raises(w) \/ worker_crash(w)
      PROVE  Waits
  <2>1. job'[i] \in {job[i], [job[i] EXCEPT !.lease = "live"]}
    BY <1>6, <1>0 DEF renew_job_lease, generate_raises, worker_crash
  <2>. QED BY <1>0, <2>1 DEF JobRow
<1>7. ASSUME NEW w \in Workers, complete_job(w) PROVE Waits
  <2>1. job'[i] \in {job[i], Terminalized(job[i])}
    BY <1>7, <1>0 DEF complete_job
  <2>. QED BY <1>0, <2>1, RowColumns
<1>8. ASSUME NEW w \in Workers, complete_job_commit(w) PROVE Waits
  BY <1>8, <1>0, RowColumns DEF complete_job_commit
<1>9. ASSUME NEW w \in Workers, record_failure(w)
      PROVE  Waits \/ RetryKey(i)' \in waiting'
  <2>1. CASE job'[i] \in {job[i], Terminalized(job[i])}
    BY <1>0, <2>1, RowColumns
  <2>2. CASE job'[i] \notin {job[i], Terminalized(job[i])}
    <3>1. i = worker[w].job /\ job'[i] = Requeued(job[i], "future")
      BY <1>9, <1>0, <2>2 DEF record_failure
    <3>2. RetryKey(i) \in waiting'
      BY <1>9, <1>0, <2>2, <3>1 DEF record_failure
    <3>3. job'[i].attempts = job[i].attempts
      BY <1>0, <3>1 DEF Requeued, JobRow
    <3>. QED BY <3>2, <3>3 DEF RetryKey
  <2>. QED BY <2>1, <2>2
<1>10. ASSUME NEW j \in Jobs, LoseMessage(j) \/ Clock(j) PROVE Waits
  <2>1. job'[i] \in {job[i], [job[i] EXCEPT !.lease = "expired"],
                    [job[i] EXCEPT !.deadline = "passed"], [job[i] EXCEPT !.next = "due"],
                    [job[i] EXCEPT !.quiet = TRUE]}
    BY <1>10, <1>0 DEF LoseMessage, Clock, LeaseExpires, DeadlinePasses, RetryDue, GoesQuiet
  <2>. QED BY <1>0, <2>1 DEF JobRow
<1>11. CASE create_version_read \/ dispatch_outbox \/ dispatch_outbox_crash
  BY <1>11 DEF create_version_read, dispatch_outbox, dispatch_outbox_crash
<1>12. ASSUME NEW key \in waiting, EventAvailable(key) PROVE Waits
  BY <1>12 DEF EventAvailable
<1>13. CASE UNCHANGED vars
  BY <1>13 DEF vars
<1>. QED
  BY <1>1, <1>2, <1>3, <1>4, <1>5, <1>6, <1>7, <1>8, <1>9, <1>10, <1>11, <1>12, <1>13
  DEF Next, Api, WorkerStep

\* Only EventAvailable takes an event out of waiting, and not that of a row that is
\* still backing off.
LEMMA WaitingKept ==
  ASSUME [Next]_vars, NEW i \in Jobs, job[i].next = "future", RetryKey(i) \in waiting
  PROVE  RetryKey(i) \in waiting'
<1>1. ASSUME NEW key \in waiting, EventAvailable(key) PROVE RetryKey(i) \in waiting'
  <2>1. JobOf(RetryKey(i)) = i
    BY DEF JobOf, RetryKey
  <2>2. key # RetryKey(i)
    BY <1>1, <2>1 DEF EventAvailable
  <2>. QED BY <1>1, <2>2 DEF EventAvailable
<1>2. ASSUME ~\E key \in waiting : EventAvailable(key) PROVE waiting \subseteq waiting'
  BY <1>2 DEF Next, Api, WorkerStep, Clock, generate_version, requeue_generation, get_job,
     create_version_read, create_version_flush, dispatch_outbox, dispatch_outbox_crash,
     recover_stale_jobs, claim_job, renew_job_lease, generate_raises, complete_job,
     complete_job_commit, record_failure, worker_crash, LoseMessage, LeaseExpires,
     DeadlinePasses, RetryDue, GoesQuiet, outbox, vars
<1>. QED BY <1>1, <1>2

\* The delivery that _record_failure committed for a retry is never used up before the
\* retry is due.
THEOREM BackoffIsDelivered == Spec => []BackoffKeepsItsDelivery
<1>1. Init => BackoffKeepsItsDelivery
  BY DEF Init, BackoffKeepsItsDelivery, AbsentJob
<1>2. ASSUME TypeOK, BackoffKeepsItsDelivery, [Next]_vars PROVE BackoffKeepsItsDelivery'
  <2> SUFFICES ASSUME NEW i \in Jobs, job'[i].status = "queued", job'[i].next = "future"
               PROVE  RetryKey(i)' \in waiting'
    BY DEF BackoffKeepsItsDelivery
  <2>1. CASE /\ job[i].status = "queued" /\ job[i].next = "future"
             /\ job'[i].attempts = job[i].attempts
    <3>1. RetryKey(i) \in waiting'
      BY <1>2, <2>1, WaitingKept DEF BackoffKeepsItsDelivery
    <3>. QED BY <2>1, <3>1 DEF RetryKey
  <2>. QED BY <1>2, <2>1, BackoffSteps
<1>. QED BY TypeCorrect, <1>1, <1>2, PTL DEF Spec
=============================================================================
