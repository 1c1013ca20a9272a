------------------------- MODULE StorageMaintenance -------------------------
(***************************************************************************)
(* The maintenance gate of the object store: the singleton row of          *)
(* storage_global_quotas, the one-shot recovery that closes and reopens it *)
(* (storage_recovery.py), and the attestor that proves, round after round, *)
(* that the bucket holds exactly what the ledger says                      *)
(* (storage_capacity_preflight.py), asked for a fresh proof through two    *)
(* control files (storage_capacity_refresh.py).                            *)
(*                                                                         *)
(* Writers reserve a key, PUT it and commit it; module StorageLedger has   *)
(* that protocol in full.  A PUT on its way is not recalled by anything.   *)
(***************************************************************************)
EXTENDS Naturals, FiniteSets

CONSTANTS
    Keys,           \* object keys, each used once
    StoredKeys,     \* the ones committed at the start
    WriterOf,       \* key -> service that writes it
    Services,       \* application services that write
    Recoveries,     \* runs of storage-recovery
    NoToken,        \* no recovery owns the gate
    MaxBoots        \* bound: boots of PostgreSQL

ASSUME MaintenanceAssumption ==
    /\ StoredKeys \subseteq Keys /\ WriterOf \in [Keys -> Services]
    /\ NoToken \notin Recoveries /\ MaxBoots \in Nat

VARIABLES
    svc,        \* service -> "running", "paused", "stopped"
    rows,       \* ledger: key -> state of its row
    expired,    \* keys whose reservation's lease ran out
    puts,       \* keys of PUTs on their way
    objs,       \* keys in the bucket
    store,      \* object storage: [up, restarts]
    boot,       \* which boot of PostgreSQL
    gate,       \* the row of storage_global_quotas
    rec,        \* recovery -> [pc, epoch]
    att,        \* the attestor: [pc, paused, inv, restarts, fresh]
    heartbeat   \* the attestor's control file: "none", "stale", "fresh"

ledgerVars == <<rows, expired, puts, objs>>
attestorVars == <<att, heartbeat>>
maintenanceVars == <<svc, ledgerVars, store, boot, gate, rec, attestorVars>>

Unfinished == {"reserved", "reaping"}
NoTarget == \A k \in Keys : rows[k] \notin Unfinished
Committed == {k \in Keys : rows[k] = "committed"}

MaintenanceInit ==
    /\ svc = [s \in Services |-> "running"]
    /\ rows = [k \in Keys |-> IF k \in StoredKeys THEN "committed" ELSE "none"]
    /\ expired = {} /\ puts = {}
    /\ objs = StoredKeys
    /\ store = [up |-> TRUE, restarts |-> 0]
    /\ boot = 1
    /\ gate = [token |-> NoToken, epoch |-> 0, owned |-> FALSE, ownerBoot |-> 0, recovered |-> 1,
               verified |-> TRUE, attested |-> TRUE, fresh |-> FALSE, restarts |-> 0]
    /\ rec = [r \in Recoveries |-> [pc |-> "idle", epoch |-> 0]]
    /\ att = [pc |-> "waiting", paused |-> FALSE, inv |-> {}, restarts |-> 0, fresh |-> FALSE]
    /\ heartbeat = "stale"

-----------------------------------------------------------------------------
(* Writers                                                                 *)

\* The gate of custombuild_storage_reserve_batch, and of the readiness probe
\* (validate_storage_capacity_evidence).  That an attestation is at most ten
\* minutes old is left out, so a writer here may go on where the code refuses.
CapacityAvailable == gate.token = NoToken /\ gate.recovered = boot /\ gate.verified

reserve(k) ==
    /\ svc[WriterOf[k]] = "running"
    /\ rows[k] = "none"
    /\ CapacityAvailable
    /\ rows' = [rows EXCEPT ![k] = "reserved"]
    /\ puts' = puts \cup {k}
    /\ UNCHANGED <<svc, expired, objs, store, boot, gate, rec, attestorVars>>

\* The store takes the bytes, whatever became of the writer or of the row.
put_lands(k) ==
    /\ k \in puts /\ store.up
    /\ puts' = puts \ {k}
    /\ objs' = objs \cup {k}
    /\ UNCHANGED <<svc, rows, expired, store, boot, gate, rec, attestorVars>>

put_lost(k) ==
    /\ k \in puts
    /\ puts' = puts \ {k}
    /\ UNCHANGED <<svc, rows, expired, objs, store, boot, gate, rec, attestorVars>>

\* custombuild_storage_commit_batch after the writer saw its PUT answered.
commit_object(k) ==
    /\ svc[WriterOf[k]] = "running"
    /\ rows[k] = "reserved" /\ k \notin expired
    /\ k \in objs /\ k \notin puts
    /\ rows' = [rows EXCEPT ![k] = "committed"]
    /\ UNCHANGED <<svc, expired, puts, objs, store, boot, gate, rec, attestorVars>>

lease_runs_out(k) ==
    /\ rows[k] = "reserved" /\ k \notin expired
    /\ expired' = expired \cup {k}
    /\ UNCHANGED <<svc, rows, puts, objs, store, boot, gate, rec, attestorVars>>

\* claim_storage_reap_batch and the first half of reap_storage_claim: the row
\* is claimed, the object deleted.
Reap(k) ==
    /\ rows[k] = "reserved" /\ k \in expired /\ store.up
    /\ rows' = [rows EXCEPT ![k] = "reaping"]
    /\ objs' = objs \ {k}

\* custombuild_storage_finalize_reap: a tombstone retires the key.
FinalizeReap(k) ==
    /\ rows[k] = "reaping"
    /\ rows' = [rows EXCEPT ![k] = "retired"]
    /\ UNCHANGED objs

\* The reaper of the workers, while they run.
reap(k) ==
    /\ \E s \in Services : svc[s] = "running"
    /\ Reap(k) \/ FinalizeReap(k)
    /\ UNCHANGED <<svc, expired, puts, store, boot, gate, rec, attestorVars>>

\* PostgreSQL starts again: whoever owned the gate did so in another boot.
database_restart ==
    /\ boot < MaxBoots
    /\ boot' = boot + 1
    /\ UNCHANGED <<svc, ledgerVars, store, gate, rec, attestorVars>>

-----------------------------------------------------------------------------
(* Storage recovery                                                        *)

\* The UPDATE of PostgresRecoveryStore.begin.
BeginGate(r) ==
    [gate EXCEPT !.token = r, !.epoch = @ + 1, !.owned = TRUE, !.ownerBoot = boot,
                 !.recovered = 0, !.verified = FALSE]

\* PostgresRecoveryStore.begin: not while a live owner of this boot works.
begin(r) ==
    /\ rec[r].pc = "starting"
    /\ ~(gate.token # NoToken /\ gate.ownerBoot = boot /\ gate.owned)
    /\ gate' = BeginGate(r)
    /\ rec' = [rec EXCEPT ![r] = [pc |-> "working", epoch |-> gate.epoch + 1]]
    /\ UNCHANGED <<svc, ledgerVars, store, boot, attestorVars>>

\* Mutant: only the lease of the gate is looked at, not whose it is.
GateIsOwned(r) == gate.token # NoToken /\ gate.ownerBoot = boot /\ gate.owned

\* PostgresRecoveryStore._locked_gate
LockedGate(r) ==
    /\ gate.token = r /\ gate.epoch = rec[r].epoch
    /\ gate.ownerBoot = boot /\ gate.owned

\* PostgresRecoveryStore.renew, with which every step of the loop starts.
renew(r) ==
    /\ rec[r].pc = "working"
    /\ ~LockedGate(r)
    /\ rec' = [rec EXCEPT ![r].pc = "failed"]
    /\ UNCHANGED <<svc, ledgerVars, store, boot, gate, attestorVars>>

\* MAINTENANCE_LEASE_SECONDS pass without a renewal.
owner_expires ==
    /\ gate.owned
    /\ gate' = [gate EXCEPT !.owned = FALSE]
    /\ UNCHANGED <<svc, ledgerVars, store, boot, rec, attestorVars>>

\* One claim of recover_storage.  Its renewal was a moment ago: the step may
\* come after the ownership was lost.
recover(r, k) ==
    /\ rec[r].pc = "working"
    /\ Reap(k) \/ FinalizeReap(k)
    /\ UNCHANGED <<svc, expired, puts, store, boot, gate, rec, attestorVars>>

\* Mutant: whoever recovered the storage also opens it to writers.
FinishGateOpen ==
    [gate EXCEPT !.token = NoToken, !.owned = FALSE, !.recovered = boot,
                 !.verified = TRUE, !.attested = FALSE]

\* The UPDATE of PostgresRecoveryStore.finish.
FinishGate ==
    [gate EXCEPT !.token = NoToken, !.owned = FALSE, !.recovered = boot,
                 !.verified = FALSE, !.attested = FALSE]

\* PostgresRecoveryStore.finish after a snapshot without targets.
finish(r) ==
    /\ rec[r].pc = "working"
    /\ LockedGate(r)
    /\ NoTarget
    /\ gate' = FinishGate
    /\ rec' = [rec EXCEPT ![r].pc = "done"]
    /\ UNCHANGED <<svc, ledgerVars, store, boot, attestorVars>>

\* It times out, is refused the gate, meets an error, or is killed.
recovery_fails(r) ==
    /\ rec[r].pc \in {"starting", "working"}
    /\ rec' = [rec EXCEPT ![r].pc = "failed"]
    /\ UNCHANGED <<svc, ledgerVars, store, boot, gate, attestorVars>>

\* An operator, or the deployment, starts a recovery of its own.
start_recovery(r) ==
    /\ rec[r].pc = "idle"
    /\ rec' = [rec EXCEPT ![r].pc = "starting"]
    /\ UNCHANGED <<svc, ledgerVars, store, boot, gate, attestorVars>>

-----------------------------------------------------------------------------
(* The attestor                                                            *)

\* inventory_s3 and observe_volume, before any lock is taken.
inventory_s3 ==
    /\ att.pc = "waiting" /\ ~att.paused /\ store.up
    /\ att' = [att EXCEPT !.pc = "listed", !.inv = objs, !.restarts = store.restarts]
    /\ UNCHANGED <<svc, ledgerVars, store, boot, gate, rec, heartbeat>>

\* The handler of main: nothing of before may look current.
Invalidated == [gate EXCEPT !.verified = FALSE, !.fresh = FALSE]
AttestorDies ==
    /\ gate' = Invalidated
    /\ att' = [att EXCEPT !.pc = "dead", !.inv = {}]
    /\ UNCHANGED heartbeat

inventory_fails ==
    /\ att.pc = "waiting" /\ ~att.paused /\ ~store.up
    /\ AttestorDies
    /\ UNCHANGED <<svc, ledgerVars, store, boot, rec>>

\* custombuild_storage_lock_capacity
CapacityLockable == gate.token = NoToken /\ gate.recovered = boot

\* load_locked_ledger raises CapacityAttestationBusy.
Busy == ~NoTarget

\* Mutant: bytes that no row knows of are overlooked.
LedgerIsStored == Committed \subseteq att.inv

\* verify_inventory_matches_ledger
InventoryMatchesLedger == Committed = att.inv

\* activate_capacity under the lock, with custombuild_storage_attest_capacity.
activate_capacity ==
    /\ att.pc = "listed" /\ ~att.paused
    /\ \/ /\ CapacityLockable /\ ~Busy /\ InventoryMatchesLedger
          /\ gate' = [gate EXCEPT !.verified = TRUE, !.attested = TRUE, !.fresh = TRUE,
                                  !.restarts = att.restarts]
          /\ att' = [att EXCEPT !.pc = "attested", !.inv = {}, !.fresh = TRUE]
          /\ heartbeat' = IF heartbeat = "fresh" THEN "stale" ELSE heartbeat
       \/ /\ CapacityLockable /\ Busy
          /\ att' = [att EXCEPT !.pc = "waiting", !.inv = {}]
          /\ UNCHANGED <<gate, heartbeat>>
       \/ /\ ~CapacityLockable \/ (~Busy /\ ~InventoryMatchesLedger)
          /\ AttestorDies
    /\ UNCHANGED <<svc, ledgerVars, store, boot, rec>>

\* _write_heartbeat names the evidence just committed.
write_heartbeat ==
    /\ att.pc = "attested" /\ ~att.paused
    /\ heartbeat' = IF att.fresh THEN "fresh" ELSE "stale"
    /\ att' = [att EXCEPT !.pc = "waiting"]
    /\ UNCHANGED <<svc, ledgerVars, store, boot, gate, rec>>

\* An operator starts it again with a request of today.
attestor_restart ==
    /\ att.pc = "dead"
    /\ att' = [att EXCEPT !.pc = "waiting"]
    /\ UNCHANGED <<svc, ledgerVars, store, boot, gate, rec, heartbeat>>

\* prepare_refresh: from now on only evidence committed later is fresh.
PrepareRefresh ==
    /\ gate' = [gate EXCEPT !.fresh = FALSE]
    /\ att' = [att EXCEPT !.fresh = FALSE]
    /\ heartbeat' = "none"

\* _heartbeat_matches: the file names the row's evidence, newer than the request.
HeartbeatMatches == heartbeat = "fresh" /\ gate.verified /\ gate.fresh

AttestorNext ==
    \/ inventory_s3 \/ inventory_fails \/ activate_capacity \/ write_heartbeat
    \/ attestor_restart

MaintenanceNext ==
    \/ \E k \in Keys :
          \/ reserve(k) \/ put_lands(k) \/ put_lost(k) \/ commit_object(k)
          \/ lease_runs_out(k) \/ reap(k)
    \/ database_restart
    \/ \E r \in Recoveries :
          \/ begin(r) \/ renew(r) \/ finish(r) \/ recovery_fails(r)
          \/ \E k \in Keys : recover(r, k)
    \/ owner_expires
    \/ AttestorNext

-----------------------------------------------------------------------------
(* Properties                                                              *)

\* From the moment a recovery opens the gate until the next attestation no
\* reservation is under way, whatever stopped writers, late leases and other
\* recoveries do (PostgresRecoveryStore.finish, custombuild_storage_reserve_batch).
OpenGateIsClean == CapacityLockable /\ ~gate.attested => NoTarget

\* A recovery that took the gate keeps it until it ends or loses its lease: no
\* earlier one opens the gate for it (_locked_gate).
NewestRecoveryOwnsGate ==
    \A r \in Recoveries : rec[r].pc = "working" /\ rec[r].epoch = gate.epoch =>
        gate.token = r

\* Both: capacity is only offered by the recovery in charge, after it closed
\* every reservation that the crash left open.
RecoveryGateHolds == OpenGateIsClean /\ NewestRecoveryOwnsGate

\* Bytes that land after their row was retired are not overlooked for ever: the
\* attestor, unless it is paused or all writers stand still, withdraws the
\* capacity and nothing more is reserved until somebody cleans up
\* (verify_inventory_matches_ledger, invalidate_capacity).
Stray(k) == k \in objs /\ rows[k] = "retired"
StrayBytesAreNoticed ==
    \A k \in Keys :
        Stray(k) ~> (~gate.verified \/ att.paused \/ \A s \in Services : svc[s] # "running")
=============================================================================
