------------------------- MODULE CoordinatedBackup --------------------------
(***************************************************************************)
(* create_backup of compose_backup.py, which stops every writer, has the   *)
(* storage recovered and attested, captures database and object store, and *)
(* lets the writers go on only if the storage is known to be good; and the *)
(* restore drill of what it captured (restore_drill.py).                   *)
(*                                                                         *)
(* A docker command may fail and have worked nevertheless.                 *)
(***************************************************************************)
EXTENDS StorageMaintenance, Sequences

CONSTANTS
    PausedServices,     \* <<"api", "scheduler">>
    WORKER_SERVICES,    \* sequence of the services stopped
    BackupRecovery,     \* the recovery this backup runs
    MaxFaults           \* bound: failing commands and lost objects

Quiesced == PausedServices \o WORKER_SERVICES
\* Workers first, then the scheduler and the API.
ResumeOrder ==
    WORKER_SERVICES \o [i \in 1 .. Len(PausedServices) |->
        PausedServices[Len(PausedServices) + 1 - i]]

ASSUME BackupAssumption ==
    /\ PausedServices \in Seq(Services) /\ WORKER_SERVICES \in Seq(Services)
    /\ Services = {Quiesced[i] : i \in 1 .. Len(Quiesced)}
    /\ BackupRecovery \in Recoveries /\ MaxFaults \in Nat

VARIABLES
    pc,         \* step of create_backup
    at,         \* service that the step is at
    errors,     \* quiescence_errors, then recovery_errors: some
    flags,      \* the local booleans of create_backup
    capture,    \* inventory, snapshot, dump and archive
    faults,     \* commands that failed so far
    doubt,      \* a fail-closed command failed too
    manifest,   \* the verified manifest, with the capture it binds
    drill       \* outcome of a restore drill

backupVars == <<pc, at, errors, flags, capture, faults, doubt, manifest, drill>>

NoCapture == [inventory |-> {}, snapshot |-> {}, dump |-> <<>>, archive |-> {}]
NoManifest == [present |-> FALSE]

BackupInit ==
    /\ MaintenanceInit
    /\ pc = "quiesce" /\ at = 1 /\ errors = FALSE
    /\ flags = [recovered |-> FALSE, precapture |-> FALSE, attestorPaused |-> FALSE,
                captured |-> FALSE, storeStopped |-> FALSE, failed |-> FALSE,
                gateFailed |-> FALSE]
    /\ capture = NoCapture
    /\ faults = 0 /\ doubt = FALSE
    /\ manifest = NoManifest
    /\ drill = "none"

-----------------------------------------------------------------------------
(* Commands                                                                *)

\* A command fails, within the bound.
CommandFails == faults < MaxFaults /\ faults' = faults + 1
CommandWorks == UNCHANGED faults

\* The except branch of create_backup, then its finally.
Fail ==
    /\ flags' = [flags EXCEPT !.failed = TRUE, !.gateFailed = ~flags.captured]
    /\ pc' = "recover_store"

\* One service is paused or, a worker, drained and stopped; after a failure it
\* is stopped or killed, which may fail as well.
Down(s) == IF s \in {PausedServices[i] : i \in 1 .. Len(PausedServices)}
           THEN "paused" ELSE "stopped"
quiesce ==
    /\ pc = "quiesce" /\ at <= Len(Quiesced)
    /\ \/ /\ CommandWorks
          /\ svc' = [svc EXCEPT ![Quiesced[at]] = Down(Quiesced[at])]
          /\ UNCHANGED <<errors, doubt>>
       \/ /\ CommandFails
          /\ svc' = [svc EXCEPT ![Quiesced[at]] = "stopped"]
          /\ errors' = TRUE /\ UNCHANGED doubt
       \/ /\ CommandFails
          /\ svc' \in {svc, [svc EXCEPT ![Quiesced[at]] = Down(Quiesced[at])],
                       [svc EXCEPT ![Quiesced[at]] = "stopped"]}
          /\ errors' = TRUE /\ doubt' = TRUE
    /\ at' = at + 1
    /\ UNCHANGED <<ledgerVars, store, boot, gate, rec, attestorVars,
                   pc, flags, capture, manifest, drill>>

\* Mutant: the backup goes on with writers it could not stop.
QuiescedOrNot == TRUE

\* if quiescence_errors
WritersQuiesced == ~errors

quiesced ==
    /\ pc = "quiesce" /\ at > Len(Quiesced)
    /\ IF WritersQuiesced
       THEN /\ pc' = "recovery" /\ UNCHANGED flags
            /\ rec' = [rec EXCEPT ![BackupRecovery].pc = "starting"]
       ELSE Fail /\ UNCHANGED rec
    /\ errors' = FALSE
    /\ UNCHANGED <<svc, ledgerVars, store, boot, gate, attestorVars,
                   at, capture, faults, doubt, manifest, drill>>

\* run_storage_recovery returns, or fails, or the client gives up on it.
storage_recovery ==
    /\ pc = "recovery"
    /\ \/ /\ rec[BackupRecovery].pc = "done"
          /\ flags' = [flags EXCEPT !.recovered = TRUE]
          /\ pc' = "prepare"
          /\ CommandWorks
       \/ rec[BackupRecovery].pc = "failed" /\ Fail /\ CommandWorks
       \/ CommandFails /\ Fail
    /\ UNCHANGED <<maintenanceVars, at, errors, capture, doubt, manifest, drill>>

-----------------------------------------------------------------------------
(* Fresh evidence                                                          *)

\* refresh_capacity_attestor runs in the attestor's container.
AttestorAnswers == att.pc # "dead" /\ ~att.paused

\* Before the capture.
prepare_refresh ==
    /\ pc = "prepare"
    /\ \/ AttestorAnswers /\ PrepareRefresh /\ pc' = "wait" /\ UNCHANGED flags
       \/ ~AttestorAnswers /\ Fail /\ UNCHANGED <<gate, attestorVars>>
    /\ UNCHANGED <<svc, ledgerVars, store, boot, rec,
                   at, errors, capture, faults, doubt, manifest, drill>>

wait_for_refresh ==
    /\ pc = "wait"
    /\ \/ /\ HeartbeatMatches
          /\ flags' = [flags EXCEPT !.precapture = TRUE]
          /\ pc' = "pause_attestor"
       \/ Fail
    /\ UNCHANGED <<maintenanceVars, at, errors, capture, faults, doubt, manifest, drill>>

pause_attestor ==
    /\ pc = "pause_attestor"
    /\ \/ /\ CommandWorks
          /\ att' = [att EXCEPT !.paused = TRUE]
          /\ flags' = [flags EXCEPT !.attestorPaused = TRUE, !.captured = TRUE]
          /\ pc' = "inventory"
       \/ /\ CommandFails
          /\ att' \in {att, [att EXCEPT !.paused = TRUE]}
          /\ flags' = [flags EXCEPT !.attestorPaused = TRUE, !.failed = TRUE, !.gateFailed = TRUE]
          /\ pc' = "recover_store"
    /\ UNCHANGED <<svc, ledgerVars, store, boot, gate, rec, heartbeat,
                   at, errors, capture, doubt, manifest, drill>>

-----------------------------------------------------------------------------
(* The capture                                                             *)

\* A step of the capture works, or fails and ends it.
Captures(step, next) ==
    \/ CommandWorks /\ step /\ pc' = next /\ UNCHANGED flags
    \/ CommandFails /\ Fail /\ UNCHANGED capture

\* inventory_s3, database_snapshot, pg_dump.
capture_inventory ==
    /\ pc = "inventory"
    /\ Captures(capture' = [capture EXCEPT !.inventory = objs], "snapshot")
    /\ UNCHANGED <<maintenanceVars, at, errors, doubt, manifest, drill>>

database_snapshot ==
    /\ pc = "snapshot"
    /\ Captures(capture' = [capture EXCEPT !.snapshot = {k \in Keys : rows[k] # "none"}], "dump")
    /\ UNCHANGED <<maintenanceVars, at, errors, doubt, manifest, drill>>

pg_dump ==
    /\ pc = "dump"
    /\ Captures(capture' = [capture EXCEPT !.dump = rows], "stop_store")
    /\ UNCHANGED <<maintenanceVars, at, errors, doubt, manifest, drill>>

stop_store ==
    /\ pc = "stop_store"
    /\ \/ /\ CommandWorks
          /\ store' = [store EXCEPT !.up = FALSE]
          /\ flags' = [flags EXCEPT !.storeStopped = TRUE]
          /\ pc' = "archive"
       \/ /\ CommandFails
          /\ store' \in {store, [store EXCEPT !.up = FALSE]}
          /\ flags' = [flags EXCEPT !.storeStopped = TRUE, !.failed = TRUE]
          /\ pc' = "recover_store"
    /\ UNCHANGED <<svc, ledgerVars, boot, gate, rec, attestorVars,
                   at, errors, capture, doubt, manifest, drill>>

archive ==
    /\ pc = "archive"
    /\ Captures(capture' = [capture EXCEPT !.archive = objs], "start_store")
    /\ UNCHANGED <<maintenanceVars, at, errors, doubt, manifest, drill>>

\* Object storage starts; it may come back without an object.
Restarted(lost) ==
    /\ store' = [up |-> TRUE, restarts |-> IF store.up THEN store.restarts ELSE 1]
    /\ objs' = objs \ lost

\* restarted_inventory = inventory
StoreUnchanged == objs = capture.inventory

\* Start, wait_for_s3_readiness and the second inventory.
start_store ==
    /\ pc = "start_store"
    /\ \/ /\ CommandWorks /\ Restarted({})
          /\ flags' = [flags EXCEPT !.storeStopped = FALSE,
                                    !.failed = ~StoreUnchanged]
       \/ /\ CommandFails /\ \E k \in objs : Restarted({k})
          /\ flags' = [flags EXCEPT !.storeStopped = FALSE, !.failed = TRUE]
       \/ /\ CommandFails
          /\ Restarted({}) \/ UNCHANGED <<store, objs>>
          /\ flags' = [flags EXCEPT !.failed = TRUE]
    /\ pc' = "recover_store"
    /\ UNCHANGED <<svc, rows, expired, puts, boot, gate, rec, attestorVars,
                   at, errors, capture, doubt, manifest, drill>>

-----------------------------------------------------------------------------
(* The finally block                                                       *)

\* Object storage is started again if need be and asked; a start that failed
\* may still have worked, which the readiness probe finds out.
recover_store ==
    /\ pc = "recover_store"
    /\ \/ /\ ~flags.storeStopped /\ CommandWorks
          /\ UNCHANGED <<store, objs, errors, flags>>
       \/ /\ flags.storeStopped /\ CommandWorks
          /\ Restarted({})
          /\ flags' = [flags EXCEPT !.storeStopped = FALSE]
          /\ UNCHANGED errors
       \/ /\ flags.storeStopped /\ CommandFails
          /\ Restarted({})
          /\ flags' = [flags EXCEPT !.storeStopped = FALSE]
          /\ errors' = TRUE
       \/ /\ flags.storeStopped /\ CommandFails
          /\ Restarted({}) \/ UNCHANGED <<store, objs>>
          /\ errors' = TRUE /\ UNCHANGED flags
    /\ pc' = "recover_prepare"
    /\ UNCHANGED <<svc, rows, expired, puts, boot, gate, rec, attestorVars,
                   at, capture, doubt, manifest, drill>>

\* The attestor is unpaused and asked for evidence.
recover_prepare ==
    /\ pc = "recover_prepare"
    /\ \/ /\ flags.storeStopped \/ ~flags.recovered
          /\ pc' = "end" /\ errors' = TRUE
          /\ CommandWorks /\ UNCHANGED <<gate, attestorVars>>
       \/ /\ ~flags.storeStopped /\ flags.recovered
          /\ att.pc # "dead" /\ (flags.attestorPaused => att.paused)
          /\ gate' = [gate EXCEPT !.fresh = FALSE]
          /\ att' = [att EXCEPT !.paused = FALSE, !.fresh = FALSE]
          /\ heartbeat' = "none"
          /\ pc' = "recover_wait"
          /\ CommandWorks /\ UNCHANGED errors
       \/ /\ ~flags.storeStopped /\ flags.recovered
          /\ \/ CommandFails /\ att' \in {att, [att EXCEPT !.paused = FALSE]}
             \/ /\ att.pc = "dead" \/ (flags.attestorPaused /\ ~att.paused)
                /\ CommandWorks /\ att' = [att EXCEPT !.paused = FALSE]
          /\ pc' = "end" /\ errors' = TRUE
          /\ UNCHANGED <<gate, heartbeat>>
    /\ UNCHANGED <<svc, ledgerVars, store, boot, rec,
                   at, flags, capture, doubt, manifest, drill>>

\* can_resume_writers, once the capacity is available
CanResumeWriters == ~errors /\ flags.precapture /\ ~flags.gateFailed

recover_wait ==
    /\ pc = "recover_wait"
    /\ \/ /\ HeartbeatMatches
          /\ pc' = IF CanResumeWriters THEN "resume" ELSE "end"
          /\ errors' = (errors \/ ~CanResumeWriters)
       \/ pc' = "end" /\ errors' = TRUE
    /\ at' = 1
    /\ UNCHANGED <<maintenanceVars, flags, capture, faults, doubt, manifest, drill>>

\* One service is started (_start_exact_worker) or unpaused.
resume ==
    /\ pc = "resume" /\ at <= Len(ResumeOrder)
    /\ \/ /\ CommandWorks
          /\ svc' = [svc EXCEPT ![ResumeOrder[at]] = "running"]
          /\ at' = at + 1
          /\ UNCHANGED <<pc, errors>>
       \/ /\ CommandFails
          /\ svc' \in {svc, [svc EXCEPT ![ResumeOrder[at]] = "running"]}
          /\ pc' = "rollback" /\ errors' = TRUE
          /\ UNCHANGED at
    /\ UNCHANGED <<ledgerVars, store, boot, gate, rec, attestorVars,
                   flags, capture, doubt, manifest, drill>>

\* Mutant: the service whose start failed is taken for stopped.
RollbackSkipsFailed == at - 1

\* Where the rollback begins: the service whose start failed was recorded before.
RollbackFrom == at

\* After a failed start everything started is paused or stopped again, last
\* service first.
rollback ==
    /\ pc = "rollback"
    /\ \/ CommandWorks /\ UNCHANGED doubt
          /\ svc' = [s \in Services |->
                IF \E i \in 1 .. RollbackFrom : ResumeOrder[i] = s THEN Down(s) ELSE svc[s]]
       \/ doubt' = TRUE
          /\ UNCHANGED <<svc, faults>>
    /\ pc' = "end"
    /\ UNCHANGED <<ledgerVars, store, boot, gate, rec, attestorVars,
                   at, errors, flags, capture, manifest, drill>>

resumed ==
    /\ pc = "resume" /\ at > Len(ResumeOrder)
    /\ pc' = "end"
    /\ UNCHANGED <<maintenanceVars, at, errors, flags, capture, faults, doubt, manifest, drill>>

\* build_manifest, written only if nothing failed, and verify_manifest.
write_manifest ==
    /\ pc = "end" /\ ~errors /\ ~flags.failed
    /\ manifest' = [present |-> TRUE, capture |-> capture]
    /\ pc' = "passed"
    /\ UNCHANGED <<maintenanceVars, at, errors, flags, capture, faults, doubt, drill>>

\* The controller is killed; nothing is undone.
controller_dies ==
    /\ pc \notin {"end", "passed", "killed"}
    /\ CommandFails
    /\ pc' = "killed" /\ doubt' = TRUE
    /\ UNCHANGED <<maintenanceVars, at, errors, flags, capture, manifest, drill>>

\* run_restore_drill: both payloads restored, compared with the manifest, and
\* thrown away.
run_restore_drill ==
    /\ manifest.present /\ drill = "none"
    /\ LET c == manifest.capture
       IN  drill' = IF /\ {k \in Keys : c.dump[k] # "none"} = c.snapshot
                       /\ c.archive = c.inventory
                    THEN "PASS" ELSE "FAIL"
    /\ UNCHANGED <<maintenanceVars, pc, at, errors, flags, capture, faults, doubt, manifest>>

ControllerStep ==
    \/ quiesce \/ quiesced \/ storage_recovery
    \/ prepare_refresh \/ wait_for_refresh \/ pause_attestor
    \/ capture_inventory \/ database_snapshot \/ pg_dump \/ stop_store \/ archive \/ start_store
    \/ recover_store \/ recover_prepare \/ recover_wait
    \/ resume \/ rollback \/ resumed \/ write_manifest

BackupNext ==
    \/ MaintenanceNext /\ UNCHANGED backupVars
    \/ \E r \in Recoveries \ {BackupRecovery} : start_recovery(r) /\ UNCHANGED backupVars
    \/ ControllerStep
    \/ controller_dies
    \/ run_restore_drill

\* The attestor is a loop with a bounded wait.
BackupSpec == BackupInit /\ [][BackupNext]_<<maintenanceVars, backupVars>>
FairBackupSpec ==
    /\ BackupSpec
    /\ WF_<<maintenanceVars, backupVars>>(
          (inventory_s3 \/ activate_capacity \/ write_heartbeat) /\ UNCHANGED backupVars)
    /\ WF_<<maintenanceVars, backupVars>>(\E k \in Keys :
          (lease_runs_out(k) \/ reap(k)) /\ UNCHANGED backupVars)

-----------------------------------------------------------------------------
(* Properties                                                              *)

\* A backup with a manifest restores to a ledger and a bucket that agree: every
\* committed row has its object, nothing is under way, and an object without a
\* committed row can only be one whose PUT landed after its key was retired.
\* What is written is what the restore drill accepts (run_coordinated_backup,
\* run_restore_drill).
RestoresToAgreement ==
    /\ drill # "FAIL"
    /\ manifest.present =>
         LET c == manifest.capture
         IN  /\ \A k \in Keys : c.dump[k] = "committed" => k \in c.archive
             /\ \A k \in Keys : c.dump[k] \notin Unfinished
             /\ \A k \in c.archive : c.dump[k] \in {"committed", "retired"}

\* However a backup ends, unless the controller was killed or stopping a
\* service failed twice: all writers run again, or none does.  Nobody is left
\* with half of them ("a partial restart is rolled back").
AllOrNothingRuns ==
    pc \in {"end", "passed"} /\ ~doubt =>
        \/ \A s \in Services : svc[s] = "running"
        \/ \A s \in Services : svc[s] # "running"

\* What OPERATIONS.md says of the second attestation: it is of the store as it
\* was restarted.
SecondAttestationIsOfRestartedStore ==
    pc = "resume" /\ at = 1 => gate.restarts = store.restarts
=============================================================================
