----------------------- MODULE CoordinatedBackupProofs -----------------------
(***************************************************************************)
(* The maintenance gate and the coordinated backup for any keys, services, *)
(* recoveries and bounds: the gate is opened by the recovery in charge and *)
(* over a clean ledger, what a manifest binds restores to agreement, and   *)
(* writers are resumed all or none.                                        *)
(***************************************************************************)
EXTENDS CoordinatedBackup, TLAPS

USE MaintenanceAssumption, BackupAssumption

RowStates == {"none", "reserved", "committed", "reaping", "retired"}
GateRows ==
    [token : Recoveries \cup {NoToken}, epoch : Nat, owned : BOOLEAN, ownerBoot : Nat,
     recovered : Nat, verified : BOOLEAN, attested : BOOLEAN, fresh : BOOLEAN, restarts : Nat]
RecoveryRuns ==
    [pc : {"idle", "starting", "working", "done", "failed"}, epoch : Nat]
Attestors ==
    [pc : {"waiting", "listed", "attested", "dead"}, paused : BOOLEAN, inv : SUBSET Keys,
     restarts : Nat, fresh : BOOLEAN]

\* The variables of the gate, the ledger and the store keep their types.
MaintenanceTypeOK ==
    /\ svc \in [Services -> {"running", "paused", "stopped"}]
    /\ rows \in [Keys -> RowStates]
    /\ puts \subseteq Keys /\ objs \subseteq Keys
    /\ store \in [up : BOOLEAN, restarts : Nat]
    /\ boot \in Nat
    /\ gate \in GateRows
    /\ rec \in [Recoveries -> RecoveryRuns]
    /\ att \in Attestors

\* A maintenance step of the world around the controller.
MaintenanceStep == MaintenanceNext \/ \E r \in Recoveries : start_recovery(r)

-----------------------------------------------------------------------------
(* The ledger and the bucket                                               *)

\* How a step of the world moves one key.
LedgerMove(k) ==
    \/ /\ rows[k] = "none" /\ svc[WriterOf[k]] = "running" /\ CapacityAvailable
       /\ rows' = [rows EXCEPT ![k] = "reserved"]
       /\ puts' = puts \cup {k} /\ objs' = objs
    \/ /\ k \in puts /\ puts' = puts \ {k}
       /\ objs' = objs \/ (store.up /\ objs' = objs \cup {k})
       /\ rows' = rows
    \/ /\ rows[k] = "reserved" /\ svc[WriterOf[k]] = "running" /\ k \in objs /\ k \notin puts
       /\ rows' = [rows EXCEPT ![k] = "committed"]
       /\ UNCHANGED <<puts, objs>>
    \/ /\ rows[k] = "reserved" /\ store.up
       /\ rows' = [rows EXCEPT ![k] = "reaping"]
       /\ objs' = objs \ {k} /\ puts' = puts
    \/ /\ rows[k] = "reaping"
       /\ rows' = [rows EXCEPT ![k] = "retired"]
       /\ UNCHANGED <<puts, objs>>

\* Nothing but the controller stops services or the store; everything else
\* moves at most one key.
LEMMA LedgerMoves ==
    ASSUME MaintenanceStep
    PROVE  /\ UNCHANGED <<svc, store>>
           /\ UNCHANGED <<rows, puts, objs>> \/ \E k \in Keys : LedgerMove(k)
PROOF
  <1>1. ASSUME NEW k \in Keys,
               \/ reserve(k) \/ put_lands(k) \/ put_lost(k) \/ commit_object(k)
               \/ lease_runs_out(k) \/ reap(k) \/ \E r \in Recoveries : recover(r, k)
        PROVE  /\ UNCHANGED <<svc, store>>
               /\ UNCHANGED <<rows, puts, objs>> \/ LedgerMove(k)
    BY <1>1 DEF reserve, put_lands, put_lost, commit_object, lease_runs_out, reap, recover,
                Reap, FinalizeReap, LedgerMove
  <1>2. ASSUME NEW r \in Recoveries,
               begin(r) \/ renew(r) \/ finish(r) \/ recovery_fails(r) \/ start_recovery(r)
        PROVE  UNCHANGED <<svc, store, rows, puts, objs>>
    BY <1>2 DEF begin, renew, finish, recovery_fails, start_recovery, ledgerVars
  <1>3. CASE database_restart \/ owner_expires \/ AttestorNext
    BY <1>3 DEF database_restart, owner_expires, AttestorNext, inventory_s3, inventory_fails,
                activate_capacity, write_heartbeat, attestor_restart, ledgerVars
  <1>q. QED BY <1>1, <1>2, <1>3 DEF MaintenanceStep, MaintenanceNext

\* Bytes and PUTs have a row: a PUT on its way is of a reservation that was
\* not committed, and nothing in the bucket is unknown to the ledger.
BytesAreKnown ==
    /\ \A k \in puts : rows[k] \in {"reserved", "reaping", "retired"}
    /\ \A k \in objs : rows[k] # "none"
CommittedIsStored == \A k \in Keys : rows[k] = "committed" => k \in objs
AllDown == \A s \in Services : svc[s] # "running"

\* What a move of the ledger keeps.
LEMMA LedgerKept ==
    ASSUME MaintenanceTypeOK, BytesAreKnown, MaintenanceStep
    PROVE  /\ rows' \in [Keys -> RowStates] /\ puts' \subseteq Keys /\ objs' \subseteq Keys
           /\ BytesAreKnown'
           /\ CommittedIsStored => CommittedIsStored'
           /\ AllDown => AllDown'
           /\ AllDown /\ NoTarget => rows' = rows /\ NoTarget'
           /\ AllDown /\ NoTarget /\ ~store.up => objs' = objs
           /\ NoTarget /\ ~CapacityAvailable => NoTarget'
PROOF
  <1>0. /\ rows \in [Keys -> RowStates] /\ puts \subseteq Keys /\ objs \subseteq Keys
        /\ UNCHANGED <<svc, store>>
        /\ UNCHANGED <<rows, puts, objs>> \/ \E k \in Keys : LedgerMove(k)
    BY LedgerMoves DEF MaintenanceTypeOK
  <1>1. AllDown => AllDown'
    BY <1>0 DEF AllDown
  <1>2. CASE UNCHANGED <<rows, puts, objs>>
    BY <1>0, <1>1, <1>2 DEF BytesAreKnown, CommittedIsStored, NoTarget, Unfinished
  <1>3. ASSUME NEW k \in Keys, LedgerMove(k)
        PROVE  /\ rows' \in [Keys -> RowStates] /\ puts' \subseteq Keys /\ objs' \subseteq Keys
               /\ BytesAreKnown'
               /\ CommittedIsStored => CommittedIsStored'
               /\ AllDown /\ NoTarget => rows' = rows /\ NoTarget'
               /\ AllDown /\ NoTarget /\ ~store.up => objs' = objs
               /\ NoTarget /\ ~CapacityAvailable => NoTarget'
    <2>1. rows' \in [Keys -> RowStates] /\ puts' \subseteq Keys /\ objs' \subseteq Keys
      BY <1>0, <1>3 DEF LedgerMove, RowStates
    <2>2. BytesAreKnown'
      BY <1>0, <1>3 DEF LedgerMove, RowStates, BytesAreKnown
    <2>3. CommittedIsStored => CommittedIsStored'
      BY <1>0, <1>3 DEF LedgerMove, RowStates, CommittedIsStored, BytesAreKnown
    <2>4. AllDown /\ NoTarget => rows' = rows
      BY <1>0, <1>3 DEF LedgerMove, RowStates, AllDown, NoTarget, Unfinished
    <2>5. AllDown /\ NoTarget /\ ~store.up => objs' = objs
      BY <1>0, <1>3 DEF LedgerMove, RowStates, AllDown, NoTarget, Unfinished
    <2>6. NoTarget /\ ~CapacityAvailable => NoTarget'
      BY <1>0, <1>3 DEF LedgerMove, RowStates, NoTarget, Unfinished
    <2>7. AllDown /\ NoTarget => NoTarget'
      BY <2>4 DEF NoTarget
    <2>q. QED BY <2>1, <2>2, <2>3, <2>4, <2>5, <2>6, <2>7
  <1>q. QED BY <1>0, <1>1, <1>2, <1>3

-----------------------------------------------------------------------------
(* The gate                                                                *)

\* The records that the steps write have their types.
LEMMA GateWrites ==
    ASSUME MaintenanceTypeOK
    PROVE  /\ \A r \in Recoveries : BeginGate(r) \in GateRows
           /\ FinishGate \in GateRows
           /\ Invalidated \in GateRows
           /\ [gate EXCEPT !.owned = FALSE] \in GateRows
           /\ [gate EXCEPT !.fresh = FALSE] \in GateRows
           /\ [gate EXCEPT !.verified = TRUE, !.attested = TRUE, !.fresh = TRUE,
                           !.restarts = att.restarts] \in GateRows
           /\ \A r \in Recoveries, p \in {"starting", "done", "failed"} :
                 [rec EXCEPT ![r].pc = p] \in [Recoveries -> RecoveryRuns]
           /\ \A r \in Recoveries :
                 [rec EXCEPT ![r] = [pc |-> "working", epoch |-> gate.epoch + 1]]
                    \in [Recoveries -> RecoveryRuns]
PROOF
  <1>0. gate \in GateRows /\ rec \in [Recoveries -> RecoveryRuns] /\ boot \in Nat
        /\ att \in Attestors
    BY DEF MaintenanceTypeOK
  <1>1. ASSUME NEW r \in Recoveries PROVE BeginGate(r) \in GateRows
    <2>1. gate.epoch + 1 \in Nat
      BY <1>0 DEF GateRows
    <2>q. QED BY <1>0, <2>1 DEF GateRows, BeginGate
  <1>2. FinishGate \in GateRows /\ Invalidated \in GateRows
    BY <1>0 DEF GateRows, FinishGate, Invalidated
  <1>3. /\ [gate EXCEPT !.owned = FALSE] \in GateRows
        /\ [gate EXCEPT !.fresh = FALSE] \in GateRows
    BY <1>0 DEF GateRows
  <1>4. att.restarts \in Nat
    BY <1>0 DEF Attestors
  <1>5. [gate EXCEPT !.verified = TRUE, !.attested = TRUE, !.fresh = TRUE,
                     !.restarts = att.restarts] \in GateRows
    BY <1>0, <1>4 DEF GateRows
  <1>6. \A r \in Recoveries, p \in {"starting", "done", "failed"} :
           [rec EXCEPT ![r].pc = p] \in [Recoveries -> RecoveryRuns]
    BY <1>0 DEF RecoveryRuns
  <1>7. gate.epoch \in Nat
    BY <1>0 DEF GateRows
  <1>8. \A r \in Recoveries :
           [rec EXCEPT ![r] = [pc |-> "working", epoch |-> gate.epoch + 1]]
              \in [Recoveries -> RecoveryRuns]
    BY <1>0, <1>7 DEF RecoveryRuns
  <1>q. QED BY <1>1, <1>2, <1>3, <1>5, <1>6, <1>8

\* Every step of the world keeps the types of the gate and its users.
LEMMA GateTyped ==
    ASSUME MaintenanceTypeOK, MaintenanceStep
    PROVE  /\ boot' \in Nat /\ gate' \in GateRows /\ rec' \in [Recoveries -> RecoveryRuns]
           /\ att' \in Attestors
PROOF
  <1>0. /\ gate \in GateRows /\ rec \in [Recoveries -> RecoveryRuns] /\ boot \in Nat
        /\ att \in Attestors /\ store \in [up : BOOLEAN, restarts : Nat] /\ objs \subseteq Keys
    BY DEF MaintenanceTypeOK
  <1>1. ASSUME NEW k \in Keys,
               \/ reserve(k) \/ put_lands(k) \/ put_lost(k) \/ commit_object(k)
               \/ lease_runs_out(k) \/ reap(k) \/ \E r \in Recoveries : recover(r, k)
        PROVE  UNCHANGED <<boot, gate, rec, att>>
    BY <1>1 DEF reserve, put_lands, put_lost, commit_object, lease_runs_out, reap, recover,
                attestorVars
  <1>2. ASSUME NEW r \in Recoveries,
               begin(r) \/ renew(r) \/ finish(r) \/ recovery_fails(r) \/ start_recovery(r)
        PROVE  boot' = boot /\ att' = att /\ gate' \in GateRows
               /\ rec' \in [Recoveries -> RecoveryRuns]
    <2>1. boot' = boot /\ att' = att
      BY <1>2 DEF begin, renew, finish, recovery_fails, start_recovery, attestorVars
    <2>2. gate' = gate \/ gate' = BeginGate(r) \/ gate' = FinishGate
      BY <1>2 DEF begin, renew, finish, recovery_fails, start_recovery
    <2>3. \/ rec' = [rec EXCEPT ![r] = [pc |-> "working", epoch |-> gate.epoch + 1]]
          \/ \E p \in {"starting", "done", "failed"} : rec' = [rec EXCEPT ![r].pc = p]
      BY <1>2 DEF begin, renew, finish, recovery_fails, start_recovery
    <2>4. gate' \in GateRows
      BY <1>0, <2>2, GateWrites
    <2>5. rec' \in [Recoveries -> RecoveryRuns]
      <3>1. CASE rec' = [rec EXCEPT ![r] = [pc |-> "working", epoch |-> gate.epoch + 1]]
        BY <3>1, GateWrites
      <3>2. ASSUME NEW p \in {"starting", "done", "failed"}, rec' = [rec EXCEPT ![r].pc = p]
            PROVE  rec' \in [Recoveries -> RecoveryRuns]
        BY <1>0, <3>2 DEF RecoveryRuns
      <3>q. QED BY <2>3, <3>1, <3>2
    <2>q. QED BY <2>1, <2>4, <2>5
  <1>3. CASE database_restart
    BY <1>0, <1>3 DEF database_restart, attestorVars
  <1>4. CASE owner_expires
    BY <1>0, <1>4, GateWrites DEF owner_expires, attestorVars
  <1>5. CASE AttestorNext
    <2>1. UNCHANGED <<boot, rec>>
      BY <1>5 DEF AttestorNext, inventory_s3, inventory_fails, activate_capacity,
                  write_heartbeat, attestor_restart
    <2>2. \/ gate' = gate \/ gate' = Invalidated
          \/ gate' = [gate EXCEPT !.verified = TRUE, !.attested = TRUE, !.fresh = TRUE,
                                  !.restarts = att.restarts]
      BY <1>5 DEF AttestorNext, inventory_s3, inventory_fails, activate_capacity,
                  write_heartbeat, attestor_restart, AttestorDies
    <2>3. att' \in Attestors
      <3>1. store.restarts \in Nat
        BY <1>0
      <3>2. CASE inventory_s3
        BY <1>0, <3>1, <3>2 DEF inventory_s3, Attestors
      <3>3. CASE inventory_fails \/ write_heartbeat \/ attestor_restart
        BY <1>0, <3>3 DEF inventory_fails, write_heartbeat, attestor_restart, AttestorDies,
                          Attestors
      <3>4. CASE activate_capacity
        BY <1>0, <3>4 DEF activate_capacity, AttestorDies, Attestors
      <3>q. QED BY <1>5, <3>2, <3>3, <3>4 DEF AttestorNext
    <2>q. QED BY <1>0, <2>1, <2>2, <2>3, GateWrites
  <1>q. QED BY <1>0, <1>1, <1>2, <1>3, <1>4, <1>5 DEF MaintenanceStep, MaintenanceNext

\* The gate is never recovered in a later boot than this one, offers capacity
\* only with evidence, and knows every recovery that began.
GateInv ==
    /\ gate.recovered <= boot
    /\ gate.verified => gate.attested
    /\ \A r \in Recoveries : rec[r].epoch <= gate.epoch
    /\ RecoveryGateHolds

\* A step that leaves the gate's owner and the recoveries alone, and adds no
\* reservation unless capacity was offered with evidence.
LEMMA GateKept ==
    ASSUME MaintenanceTypeOK, GateInv, boot' = boot, rec' = rec,
           /\ gate'.token = gate.token /\ gate'.recovered = gate.recovered
           /\ gate'.epoch = gate.epoch,
           gate'.verified => gate'.attested,
           gate.attested => gate'.attested,
           NoTarget /\ ~CapacityAvailable => NoTarget'
    PROVE  GateInv'
PROOF
  <1>0. gate.verified => gate.attested
    BY DEF GateInv
  <1>1. OpenGateIsClean'
    <2> SUFFICES ASSUME gate.token = NoToken, gate.recovered = boot, ~gate'.attested
                 PROVE  NoTarget'
      BY DEF OpenGateIsClean, CapacityLockable
    <2>1. ~gate.attested
      OBVIOUS
    <2>2. NoTarget
      BY <2>1 DEF GateInv, RecoveryGateHolds, OpenGateIsClean, CapacityLockable
    <2>3. ~CapacityAvailable
      BY <2>1, <1>0 DEF CapacityAvailable
    <2>q. QED BY <2>2, <2>3
  <1>2. NewestRecoveryOwnsGate'
    BY DEF GateInv, RecoveryGateHolds, NewestRecoveryOwnsGate
  <1>q. QED BY <1>1, <1>2 DEF GateInv, RecoveryGateHolds

\* A recovery takes the gate under a number nobody has yet.
LEMMA GateBegins ==
    ASSUME MaintenanceTypeOK, GateInv, NEW r \in Recoveries, begin(r)
    PROVE  GateInv'
PROOF
  <1>0. /\ gate \in GateRows /\ gate.epoch \in Nat /\ boot \in Nat
        /\ rec \in [Recoveries -> RecoveryRuns]
        /\ \A q \in Recoveries : rec[q].epoch \in Nat /\ rec[q].epoch <= gate.epoch
    BY DEF MaintenanceTypeOK, GateInv, GateRows, RecoveryRuns
  <1>1. gate' = BeginGate(r) /\ boot' = boot
        /\ rec' = [rec EXCEPT ![r] = [pc |-> "working", epoch |-> gate.epoch + 1]]
    BY DEF begin
  <1>2. /\ gate'.token = r /\ gate'.epoch = gate.epoch + 1 /\ gate'.recovered = 0
        /\ gate'.verified = FALSE
    BY <1>0, <1>1 DEF BeginGate, GateRows
  <1>3. \A q \in Recoveries : IF q = r THEN rec'[q].epoch = gate.epoch + 1
                                       ELSE rec'[q] = rec[q]
    BY <1>0, <1>1
  <1>4. OpenGateIsClean'
    BY <1>2 DEF OpenGateIsClean, CapacityLockable
  <1>5. NewestRecoveryOwnsGate'
    BY <1>0, <1>2, <1>3 DEF NewestRecoveryOwnsGate
  <1>6. \A q \in Recoveries : rec'[q].epoch <= gate'.epoch
    BY <1>0, <1>2, <1>3
  <1>q. QED BY <1>0, <1>1, <1>2, <1>4, <1>5, <1>6 DEF GateInv, RecoveryGateHolds

\* It opens the gate over a ledger without targets, and nobody else is at work
\* under its number.
LEMMA GateFinishes ==
    ASSUME MaintenanceTypeOK, GateInv, NEW r \in Recoveries, finish(r)
    PROVE  GateInv'
PROOF
  <1>0. /\ gate \in GateRows /\ boot \in Nat /\ rec \in [Recoveries -> RecoveryRuns]
    BY DEF MaintenanceTypeOK
  <1>1. /\ gate' = FinishGate /\ boot' = boot /\ rec' = [rec EXCEPT ![r].pc = "done"]
        /\ NoTarget /\ gate.token = r /\ UNCHANGED rows
    BY DEF finish, LockedGate, ledgerVars
  <1>2. /\ gate'.token = NoToken /\ gate'.epoch = gate.epoch /\ gate'.recovered = boot
        /\ gate'.verified = FALSE
    BY <1>0, <1>1 DEF FinishGate, GateRows
  <1>3. \A q \in Recoveries : /\ rec'[q].epoch = rec[q].epoch
                              /\ rec'[q].pc = "working" => q # r /\ rec[q].pc = "working"
    BY <1>0, <1>1 DEF RecoveryRuns
  <1>4. OpenGateIsClean'
    BY <1>1 DEF OpenGateIsClean, NoTarget
  <1>5. NewestRecoveryOwnsGate'
    BY <1>1, <1>2, <1>3 DEF NewestRecoveryOwnsGate, GateInv, RecoveryGateHolds
  <1>6. \A q \in Recoveries : rec'[q].epoch <= gate'.epoch
    BY <1>2, <1>3 DEF GateInv
  <1>7. gate'.recovered <= boot'
    BY <1>0, <1>1, <1>2
  <1>q. QED BY <1>2, <1>4, <1>5, <1>6, <1>7 DEF GateInv, RecoveryGateHolds

\* A recovery that starts, or fails, is not at work, and the gate is its own
\* business.
LEMMA GateIgnores ==
    ASSUME MaintenanceTypeOK, GateInv, NEW r \in Recoveries,
           NEW p \in {"starting", "failed"}, rec' = [rec EXCEPT ![r].pc = p],
           UNCHANGED <<boot, gate, rows>>
    PROVE  GateInv'
PROOF
  <1>0. rec \in [Recoveries -> RecoveryRuns]
    BY DEF MaintenanceTypeOK
  <1>1. \A q \in Recoveries : /\ rec'[q].epoch = rec[q].epoch
                              /\ rec'[q].pc = "working" => rec[q].pc = "working"
    BY <1>0 DEF RecoveryRuns
  <1>2. NewestRecoveryOwnsGate'
    BY <1>1 DEF NewestRecoveryOwnsGate, GateInv, RecoveryGateHolds
  <1>3. OpenGateIsClean'
    BY DEF OpenGateIsClean, CapacityLockable, NoTarget, GateInv, RecoveryGateHolds
  <1>q. QED BY <1>1, <1>2, <1>3 DEF GateInv, RecoveryGateHolds

\* Every step of the world keeps the gate.
LEMMA GateStep ==
    ASSUME MaintenanceTypeOK, BytesAreKnown, GateInv, MaintenanceStep
    PROVE  GateInv'
PROOF
  <1>0. /\ gate \in GateRows /\ boot \in Nat
        /\ NoTarget /\ ~CapacityAvailable => NoTarget'
        /\ gate.verified => gate.attested
    BY LedgerKept DEF MaintenanceTypeOK, GateInv
  <1>1. ASSUME NEW k \in Keys,
               \/ reserve(k) \/ put_lands(k) \/ put_lost(k) \/ commit_object(k)
               \/ lease_runs_out(k) \/ reap(k) \/ \E r \in Recoveries : recover(r, k)
        PROVE  GateInv'
    <2>1. UNCHANGED <<boot, gate, rec>>
      BY <1>1 DEF reserve, put_lands, put_lost, commit_object, lease_runs_out, reap, recover
    <2>q. QED BY <1>0, <2>1, GateKept
  <1>2. ASSUME NEW r \in Recoveries, begin(r) PROVE GateInv'
    BY <1>2, GateBegins
  <1>3. ASSUME NEW r \in Recoveries, finish(r) PROVE GateInv'
    BY <1>3, GateFinishes
  <1>4. ASSUME NEW r \in Recoveries, renew(r) \/ recovery_fails(r) \/ start_recovery(r)
        PROVE  GateInv'
    <2>1. /\ \E p \in {"starting", "failed"} : rec' = [rec EXCEPT ![r].pc = p]
          /\ UNCHANGED <<boot, gate, rows>>
      BY <1>4 DEF renew, recovery_fails, start_recovery, ledgerVars
    <2>q. QED BY <2>1, GateIgnores
  <1>5. CASE database_restart
    <2>1. boot' = boot + 1 /\ UNCHANGED <<gate, rec, rows>>
      BY <1>5 DEF database_restart, ledgerVars
    <2>2. gate.recovered \in Nat /\ gate.recovered <= boot
      BY <1>0 DEF GateRows, GateInv
    <2>3. OpenGateIsClean'
      BY <1>0, <2>1, <2>2 DEF OpenGateIsClean, CapacityLockable
    <2>q. QED BY <1>0, <2>1, <2>2, <2>3 DEF GateInv, RecoveryGateHolds, NewestRecoveryOwnsGate
  <1>6. CASE owner_expires \/ AttestorNext
    <2>1. UNCHANGED <<boot, rec>>
      BY <1>6 DEF owner_expires, AttestorNext, inventory_s3, inventory_fails, activate_capacity,
                  write_heartbeat, attestor_restart
    <2>2. \/ gate' = gate \/ gate' = Invalidated \/ gate' = [gate EXCEPT !.owned = FALSE]
          \/ gate' = [gate EXCEPT !.verified = TRUE, !.attested = TRUE, !.fresh = TRUE,
                                  !.restarts = att.restarts]
      BY <1>6 DEF owner_expires, AttestorNext, inventory_s3, inventory_fails, activate_capacity,
                  write_heartbeat, attestor_restart, AttestorDies
    <2>3. /\ gate'.token = gate.token /\ gate'.recovered = gate.recovered
          /\ gate'.epoch = gate.epoch
      BY <1>0, <2>2 DEF GateRows, Invalidated
    <2>4. (gate'.verified => gate'.attested) /\ (gate.attested => gate'.attested)
      BY <1>0, <2>2 DEF GateRows, Invalidated
    <2>q. QED BY <1>0, <2>1, <2>3, <2>4, GateKept
  <1>q. QED BY <1>1, <1>2, <1>3, <1>4, <1>5, <1>6 DEF MaintenanceStep, MaintenanceNext

-----------------------------------------------------------------------------
(* The controller                                                          *)

CaptureRecords ==
    [inventory : SUBSET Keys, snapshot : SUBSET Keys,
     dump : {<<>>} \cup [Keys -> RowStates], archive : SUBSET Keys]
FlagRecords ==
    [recovered : BOOLEAN, precapture : BOOLEAN, attestorPaused : BOOLEAN,
     captured : BOOLEAN, storeStopped : BOOLEAN, failed : BOOLEAN, gateFailed : BOOLEAN]

\* The locals of create_backup keep their types.
ControllerTypeOK ==
    /\ at \in Nat \ {0}
    /\ errors \in BOOLEAN /\ doubt \in BOOLEAN
    /\ flags \in FlagRecords
    /\ capture \in CaptureRecords
    /\ manifest \in {NoManifest} \cup [present : {TRUE}, capture : CaptureRecords]

Capturing == {"prepare", "wait", "pause_attestor", "inventory", "snapshot", "dump",
              "stop_store", "archive", "start_store"}
Recovering == {"recover_store", "recover_prepare", "recover_wait"}
Ending == Recovering \cup {"resume", "rollback", "end", "passed"}

\* What the drill compares, and what it cannot see.
GoodCapture(c) ==
    /\ {k \in Keys : c.dump[k] # "none"} = c.snapshot
    /\ c.archive = c.inventory
    /\ \A k \in Keys : c.dump[k] = "committed" => k \in c.archive
    /\ \A k \in Keys : c.dump[k] \notin Unfinished
    /\ \A k \in c.archive : c.dump[k] \in {"committed", "retired"}

\* From the recovery on no writer runs and the ledger has no target, so what is
\* captured at different moments is of one state; the bucket is of the same
\* state because it is archived while it is down and compared afterwards.
QuietInv ==
    /\ pc = "quiesce" => rec[BackupRecovery].pc = "idle"
    /\ pc = "recovery" => AllDown /\ (rec[BackupRecovery].pc = "done" => NoTarget)
    /\ pc \in Capturing => AllDown /\ NoTarget
    /\ pc \in {"quiesce", "recovery"} \cup Capturing => CommittedIsStored
CaptureInv ==
    /\ pc \in {"dump", "stop_store", "archive", "start_store"} =>
          capture.snapshot = {k \in Keys : rows[k] # "none"}
    /\ pc \in {"stop_store", "archive", "start_store"} => capture.dump = rows
    /\ pc \in {"archive", "start_store"} => ~store.up
    /\ pc = "start_store" => capture.archive = objs
    /\ pc \in Ending /\ ~flags.failed => GoodCapture(capture)
    /\ manifest.present => GoodCapture(manifest.capture)
    /\ drill # "FAIL"

\* The writers that may run, by where the controller is.
WritersInv ==
    /\ pc = "quiesce" /\ doubt => errors
    /\ ~doubt =>
         /\ pc = "quiesce" => \A i \in 1 .. Len(Quiesced) : i < at => svc[Quiesced[i]] # "running"
         /\ pc \in {"recovery"} \cup Capturing \cup Recovering => AllDown
         /\ pc = "resume" =>
              /\ \A i \in 1 .. Len(ResumeOrder) : i < at => svc[ResumeOrder[i]] = "running"
              /\ \A s \in Services : svc[s] = "running" =>
                    \E i \in 1 .. Len(ResumeOrder) : i < at /\ ResumeOrder[i] = s
         /\ pc = "rollback" =>
              \A s \in Services : svc[s] = "running" =>
                    \E i \in 1 .. Len(ResumeOrder) : i <= at /\ ResumeOrder[i] = s
         /\ pc \in {"end", "passed"} =>
              \/ \A s \in Services : svc[s] = "running"
              \/ AllDown

WorldInv == MaintenanceTypeOK /\ BytesAreKnown /\ GateInv
BackupInv == WorldInv /\ ControllerTypeOK /\ QuietInv /\ CaptureInv /\ WritersInv

\* Both orders name services and, between them, every one.
LEMMA Orders ==
    /\ Len(Quiesced) \in Nat /\ Len(ResumeOrder) \in Nat
    /\ \A i \in 1 .. Len(Quiesced) : Quiesced[i] \in Services
    /\ \A i \in 1 .. Len(ResumeOrder) : ResumeOrder[i] \in Services
    /\ \A s \in Services : \E i \in 1 .. Len(Quiesced) : Quiesced[i] = s
    /\ \A s \in Services : \E i \in 1 .. Len(ResumeOrder) : ResumeOrder[i] = s
PROOF
  <1> DEFINE P == PausedServices  W == WORKER_SERVICES
             B == [i \in 1 .. Len(P) |-> P[Len(P) + 1 - i]]
  <1>1. P \in Seq(Services) /\ W \in Seq(Services) /\ Len(P) \in Nat /\ Len(W) \in Nat
    OBVIOUS
  <1>2. ASSUME NEW i \in 1 .. Len(P)
        PROVE  Len(P) + 1 - i \in 1 .. Len(P) /\ P[Len(P) + 1 - i] \in Services
    <2> DEFINE j == Len(P) + 1 - i
    <2>1. j \in 1 .. Len(P)
      BY <1>1
    <2> HIDE DEF j
    <2>2. P[j] \in Services
      BY <1>1, <2>1
    <2>q. QED BY <2>1, <2>2 DEF j
  <1>3. B \in Seq(Services) /\ Len(B) = Len(P)
    BY <1>1, <1>2
  <1>4. /\ Len(Quiesced) = Len(P) + Len(W)
        /\ \A i \in 1 .. Len(Quiesced) :
              Quiesced[i] = IF i <= Len(P) THEN P[i] ELSE W[i - Len(P)]
    BY <1>1 DEF Quiesced
  <1>5. /\ ResumeOrder = W \o B
        /\ Len(ResumeOrder) = Len(W) + Len(P)
    BY <1>1, <1>3 DEF ResumeOrder
  <1> HIDE DEF B
  <1>6. \A i \in 1 .. Len(ResumeOrder) :
           ResumeOrder[i] = IF i <= Len(W) THEN W[i] ELSE B[i - Len(W)]
    BY <1>1, <1>3, <1>5
  <1>7. \A s \in Services : \E i \in 1 .. Len(Quiesced) : Quiesced[i] = s
    OBVIOUS
  <1>8. \A i \in 1 .. Len(Quiesced) : Quiesced[i] \in Services
    OBVIOUS
  <1>9. \A i \in 1 .. Len(ResumeOrder) : ResumeOrder[i] \in Services
    <2>1. W \o B \in Seq(Services)
      BY <1>1, <1>3
    <2>2. ResumeOrder \in Seq(Services)
      BY <1>5, <2>1
    <2>q. QED BY <2>2
  <1>10. ASSUME NEW s \in Services
         PROVE  \E i \in 1 .. Len(ResumeOrder) : ResumeOrder[i] = s
    <2>1. PICK i \in 1 .. Len(Quiesced) : Quiesced[i] = s
      BY <1>7
    <2>2. CASE i <= Len(P)
      <3>1. /\ P[i] = s /\ i \in 1 .. Len(P) /\ Len(P) + 1 - i \in 1 .. Len(P)
            /\ Len(P) + 1 - (Len(P) + 1 - i) = i
        BY <1>1, <1>4, <2>1, <2>2
      <3> DEFINE m == Len(P) + 1 - i
                 n == Len(W) + m
      <3>2. B[m] = s /\ m \in 1 .. Len(P)
        BY <3>1 DEF B
      <3> HIDE DEF m
      <3>3. n \in 1 .. Len(ResumeOrder) /\ ~(n <= Len(W)) /\ n - Len(W) = m
        BY <1>1, <1>5, <3>2
      <3> HIDE DEF n
      <3>4. ResumeOrder[n] = s
        BY <1>6, <3>2, <3>3
      <3>q. QED BY <3>3, <3>4
    <2>3. CASE ~(i <= Len(P))
      <3>1. W[i - Len(P)] = s /\ i - Len(P) \in 1 .. Len(W)
        BY <1>1, <1>4, <2>1, <2>3
      <3>2. i - Len(P) \in 1 .. Len(ResumeOrder) /\ i - Len(P) <= Len(W)
        BY <1>1, <1>5, <3>1
      <3>q. QED BY <1>6, <3>1, <3>2
    <2>q. QED BY <2>2, <2>3
  <1>11. Len(Quiesced) \in Nat /\ Len(ResumeOrder) \in Nat
    BY <1>1, <1>4, <1>5
  <1>q. QED BY <1>7, <1>8, <1>9, <1>10, <1>11

\* The controller stops and starts services and the store, asks for evidence
\* and starts its recovery; the ledger and the gate's owner it leaves alone.
LEMMA ControllerMoves ==
    ASSUME WorldInv, ControllerTypeOK, ControllerStep
    PROVE  WorldInv'
PROOF
  <1>0. MaintenanceTypeOK /\ BytesAreKnown /\ GateInv
    BY DEF WorldInv
  <1>1. UNCHANGED <<rows, puts, boot>>
    BY DEF ControllerStep, quiesce, quiesced, storage_recovery, prepare_refresh,
           wait_for_refresh, pause_attestor, capture_inventory, database_snapshot, pg_dump,
           stop_store, archive, start_store, recover_store, recover_prepare, recover_wait,
           resume, rollback, resumed, write_manifest, maintenanceVars, ledgerVars
  <1>2. objs' \subseteq objs
    BY DEF ControllerStep, quiesce, quiesced, storage_recovery, prepare_refresh,
           wait_for_refresh, pause_attestor, capture_inventory, database_snapshot, pg_dump,
           stop_store, archive, start_store, recover_store, recover_prepare, recover_wait,
           resume, rollback, resumed, write_manifest, maintenanceVars, ledgerVars, Restarted
  <1>3. store' \in [up : BOOLEAN, restarts : Nat]
    <2>1. \/ store' = store \/ store' = [store EXCEPT !.up = FALSE]
          \/ store' = [up |-> TRUE, restarts |-> IF store.up THEN store.restarts ELSE 1]
      BY DEF ControllerStep, quiesce, quiesced, storage_recovery, prepare_refresh,
             wait_for_refresh, pause_attestor, capture_inventory, database_snapshot, pg_dump,
             stop_store, archive, start_store, recover_store, recover_prepare, recover_wait,
             resume, rollback, resumed, write_manifest, maintenanceVars, Restarted
    <2>2. store \in [up : BOOLEAN, restarts : Nat] /\ store.restarts \in Nat
      BY <1>0 DEF MaintenanceTypeOK
    <2>3. (IF store.up THEN store.restarts ELSE 1) \in Nat
      BY <2>2
    <2>4. [up |-> TRUE, restarts |-> IF store.up THEN store.restarts ELSE 1]
             \in [up : BOOLEAN, restarts : Nat]
      BY <2>3
    <2>5. [store EXCEPT !.up = FALSE] \in [up : BOOLEAN, restarts : Nat]
      BY <2>2
    <2>q. QED BY <2>1, <2>2, <2>4, <2>5
  <1>4. gate' = gate \/ gate' = [gate EXCEPT !.fresh = FALSE]
    BY DEF ControllerStep, quiesce, quiesced, storage_recovery, prepare_refresh,
           wait_for_refresh, pause_attestor, capture_inventory, database_snapshot, pg_dump,
           stop_store, archive, start_store, recover_store, recover_prepare, recover_wait,
           resume, rollback, resumed, write_manifest, maintenanceVars, PrepareRefresh
  <1>5. rec' = rec \/ rec' = [rec EXCEPT ![BackupRecovery].pc = "starting"]
    BY DEF ControllerStep, quiesce, quiesced, storage_recovery, prepare_refresh,
           wait_for_refresh, pause_attestor, capture_inventory, database_snapshot, pg_dump,
           stop_store, archive, start_store, recover_store, recover_prepare, recover_wait,
           resume, rollback, resumed, write_manifest, maintenanceVars
  <1>6. rec' = rec \/ gate' = gate
    BY DEF ControllerStep, quiesce, quiesced, storage_recovery, prepare_refresh,
           wait_for_refresh, pause_attestor, capture_inventory, database_snapshot, pg_dump,
           stop_store, archive, start_store, recover_store, recover_prepare, recover_wait,
           resume, rollback, resumed, write_manifest, maintenanceVars
  <1>7. \/ att' = att
        \/ att' = [att EXCEPT !.paused = TRUE] \/ att' = [att EXCEPT !.paused = FALSE]
        \/ att' = [att EXCEPT !.fresh = FALSE]
        \/ att' = [att EXCEPT !.paused = FALSE, !.fresh = FALSE]
    BY DEF ControllerStep, quiesce, quiesced, storage_recovery, prepare_refresh,
           wait_for_refresh, pause_attestor, capture_inventory, database_snapshot, pg_dump,
           stop_store, archive, start_store, recover_store, recover_prepare, recover_wait,
           resume, rollback, resumed, write_manifest, maintenanceVars, attestorVars,
           PrepareRefresh
  <1>8. svc' \in [Services -> {"running", "paused", "stopped"}]
    <2>0. svc \in [Services -> {"running", "paused", "stopped"}]
      BY <1>0 DEF MaintenanceTypeOK
    <2>1. CASE quiesce
      <3>1. Quiesced[at] \in Services
        BY <2>1, Orders DEF quiesce, ControllerTypeOK
      <3>2. Down(Quiesced[at]) \in {"paused", "stopped"}
        BY DEF Down
      <3>q. QED BY <2>0, <2>1, <3>1, <3>2 DEF quiesce
    <2>2. CASE resume
      BY <2>0, <2>2 DEF resume
    <2>3. CASE rollback
      BY <2>0, <2>3 DEF rollback, Down
    <2>4. CASE ~(quiesce \/ resume \/ rollback)
      <3>1. svc' = svc
        BY <2>4 DEF ControllerStep, quiesced, storage_recovery, prepare_refresh,
               wait_for_refresh, pause_attestor, capture_inventory, database_snapshot, pg_dump,
               stop_store, archive, start_store, recover_store, recover_prepare, recover_wait,
               resumed, write_manifest, maintenanceVars
      <3>q. QED BY <2>0, <3>1
    <2>q. QED BY <2>1, <2>2, <2>3, <2>4
  <1>9. gate' \in GateRows /\ rec' \in [Recoveries -> RecoveryRuns] /\ att' \in Attestors
    <2>1. gate' \in GateRows
      BY <1>0, <1>4, GateWrites DEF MaintenanceTypeOK
    <2>2. rec' \in [Recoveries -> RecoveryRuns]
      <3>1. [rec EXCEPT ![BackupRecovery].pc = "starting"] \in [Recoveries -> RecoveryRuns]
        BY <1>0 DEF MaintenanceTypeOK, RecoveryRuns
      <3>q. QED BY <1>0, <1>5, <3>1 DEF MaintenanceTypeOK
    <2>3. att' \in Attestors
      BY <1>0, <1>7 DEF MaintenanceTypeOK, Attestors
    <2>q. QED BY <2>1, <2>2, <2>3
  <1>10. MaintenanceTypeOK'
    BY <1>0, <1>1, <1>2, <1>3, <1>8, <1>9 DEF MaintenanceTypeOK
  <1>11. BytesAreKnown'
    BY <1>0, <1>1, <1>2 DEF BytesAreKnown
  <1>12. GateInv'
    <2>1. CASE rec' = rec
      <3>1. /\ gate'.token = gate.token /\ gate'.recovered = gate.recovered
            /\ gate'.epoch = gate.epoch /\ gate'.verified = gate.verified
            /\ gate'.attested = gate.attested
        BY <1>0, <1>4 DEF MaintenanceTypeOK, GateRows
      <3>2. NoTarget => NoTarget'
        BY <1>1 DEF NoTarget
      <3>q. QED BY <1>0, <1>1, <2>1, <3>1, <3>2, GateKept DEF GateInv
    <2>2. CASE rec' = [rec EXCEPT ![BackupRecovery].pc = "starting"] /\ gate' = gate
      BY <1>0, <1>1, <2>2, GateIgnores
    <2>q. QED BY <1>5, <1>6, <2>1, <2>2
  <1>q. QED BY <1>10, <1>11, <1>12 DEF WorldInv

\* A failure of the body leads to the finally block with failed set.
LEMMA FailMarks ==
    ASSUME ControllerTypeOK, Fail
    PROVE  flags' \in FlagRecords /\ flags'.failed = TRUE /\ pc' = "recover_store"
PROOF
  <1>1. flags \in FlagRecords /\ (~flags.captured) \in BOOLEAN
    BY DEF ControllerTypeOK
  <1>2. flags' = [flags EXCEPT !.failed = TRUE, !.gateFailed = ~flags.captured]
        /\ pc' = "recover_store"
    BY DEF Fail
  <1>q. QED BY <1>1, <1>2 DEF FlagRecords

CaptureStep ==
    \/ storage_recovery \/ prepare_refresh \/ wait_for_refresh \/ pause_attestor
    \/ capture_inventory \/ database_snapshot \/ pg_dump \/ stop_store \/ archive \/ start_store
RecoverStep == recover_store \/ recover_prepare \/ recover_wait
ResumeStep == resume \/ rollback \/ resumed \/ write_manifest

\* The locals keep their types.
LEMMA ControllerTyped ==
    ASSUME WorldInv, ControllerTypeOK, ControllerStep
    PROVE  ControllerTypeOK'
PROOF
  <1>0. /\ at \in Nat \ {0} /\ flags \in FlagRecords /\ capture \in CaptureRecords
        /\ rows \in [Keys -> RowStates] /\ objs \subseteq Keys
    BY DEF ControllerTypeOK, WorldInv, MaintenanceTypeOK
  <1>1. at' \in Nat \ {0}
    <2>1. at' = at \/ at' = at + 1 \/ at' = 1
      BY DEF ControllerStep, quiesce, quiesced, storage_recovery, prepare_refresh,
             wait_for_refresh, pause_attestor, capture_inventory, database_snapshot, pg_dump,
             stop_store, archive, start_store, recover_store, recover_prepare, recover_wait,
             resume, rollback, resumed, write_manifest
    <2>q. QED BY <1>0, <2>1
  <1>a. errors' \in BOOLEAN /\ doubt' \in BOOLEAN
    <2>1. errors' \in {errors, TRUE, FALSE, errors \/ ~CanResumeWriters}
          /\ doubt' \in {doubt, TRUE}
      BY DEF ControllerStep, quiesce, quiesced, storage_recovery, prepare_refresh,
             wait_for_refresh, pause_attestor, capture_inventory, database_snapshot, pg_dump,
             stop_store, archive, start_store, recover_store, recover_prepare, recover_wait,
             resume, rollback, resumed, write_manifest
    <2>q. QED BY <2>1 DEF ControllerTypeOK
  <1>2. flags' \in FlagRecords
    <2>1. CASE UNCHANGED flags
      BY <1>0, <2>1
    <2>2. CASE Fail
      BY <2>2, FailMarks
    <2>3. CASE storage_recovery \/ wait_for_refresh \/ pause_attestor \/ stop_store
      <3>1. \/ flags' = [flags EXCEPT !.recovered = TRUE] \/ Fail
            \/ flags' = [flags EXCEPT !.precapture = TRUE]
            \/ flags' = [flags EXCEPT !.attestorPaused = TRUE, !.captured = TRUE]
            \/ flags' = [flags EXCEPT !.attestorPaused = TRUE, !.failed = TRUE,
                                      !.gateFailed = TRUE]
            \/ flags' = [flags EXCEPT !.storeStopped = TRUE]
            \/ flags' = [flags EXCEPT !.storeStopped = TRUE, !.failed = TRUE]
        BY <2>3 DEF storage_recovery, wait_for_refresh, pause_attestor, stop_store
      <3>q. QED BY <1>0, <2>2, <3>1 DEF FlagRecords
    <2>4. CASE start_store
      <3>1. (~StoreUnchanged) \in BOOLEAN
        OBVIOUS
      <3>2. \/ flags' = [flags EXCEPT !.storeStopped = FALSE, !.failed = ~StoreUnchanged]
            \/ flags' = [flags EXCEPT !.storeStopped = FALSE, !.failed = TRUE]
            \/ flags' = [flags EXCEPT !.failed = TRUE]
        BY <2>4 DEF start_store
      <3>q. QED BY <1>0, <3>1, <3>2 DEF FlagRecords
    <2>5. CASE recover_store
      BY <1>0, <2>5 DEF recover_store, FlagRecords
    <2>q. QED BY <2>1, <2>2, <2>3, <2>4, <2>5
          DEF ControllerStep, quiesce, quiesced, prepare_refresh, capture_inventory,
              database_snapshot, pg_dump, archive, recover_prepare, recover_wait,
              resume, rollback, resumed, write_manifest, Captures
  <1>3. capture' \in CaptureRecords
    <2>1. \/ capture' = capture
          \/ capture' = [capture EXCEPT !.inventory = objs]
          \/ capture' = [capture EXCEPT !.snapshot = {k \in Keys : rows[k] # "none"}]
          \/ capture' = [capture EXCEPT !.dump = rows]
          \/ capture' = [capture EXCEPT !.archive = objs]
      BY SMTT(30)
         DEF ControllerStep, quiesce, quiesced, storage_recovery, prepare_refresh,
             wait_for_refresh, pause_attestor, capture_inventory, database_snapshot, pg_dump,
             stop_store, archive, start_store, recover_store, recover_prepare, recover_wait,
             resume, rollback, resumed, write_manifest, Captures
    <2>q. QED BY <1>0, <2>1 DEF CaptureRecords
  <1>4. manifest' \in {NoManifest} \cup [present : {TRUE}, capture : CaptureRecords]
    <2>1. manifest' = manifest \/ manifest' = [present |-> TRUE, capture |-> capture]
      BY DEF ControllerStep, quiesce, quiesced, storage_recovery, prepare_refresh,
             wait_for_refresh, pause_attestor, capture_inventory, database_snapshot, pg_dump,
             stop_store, archive, start_store, recover_store, recover_prepare, recover_wait,
             resume, rollback, resumed, write_manifest
    <2>2. [present |-> TRUE, capture |-> capture] \in [present : {TRUE}, capture : CaptureRecords]
      BY <1>0
    <2>q. QED BY <2>1, <2>2 DEF ControllerTypeOK
  <1>q. QED BY <1>1, <1>a, <1>2, <1>3, <1>4 DEF ControllerTypeOK

\* What all steps of the body of create_backup have in common.
LEMMA CaptureSteps ==
    ASSUME CaptureStep
    PROVE  /\ pc \in {"recovery"} \cup Capturing
           /\ pc' \in Capturing \cup {"recover_store"}
           /\ pc' \in Capturing => objs' = objs
           /\ UNCHANGED <<svc, rows, rec, doubt, manifest, drill>>
PROOF
  <1>1. UNCHANGED <<svc, rows, rec, doubt, manifest, drill>>
    BY DEF CaptureStep, storage_recovery, prepare_refresh, wait_for_refresh, pause_attestor,
           capture_inventory, database_snapshot, pg_dump, stop_store, archive, start_store,
           maintenanceVars, ledgerVars
  <1>2. pc \in {"recovery"} \cup Capturing /\ pc' \in Capturing \cup {"recover_store"}
    BY DEF CaptureStep, storage_recovery, prepare_refresh, wait_for_refresh, pause_attestor,
           capture_inventory, database_snapshot, pg_dump, stop_store, archive, start_store,
           Captures, Fail, Capturing
  <1>3. pc' \in Capturing => objs' = objs
    BY DEF CaptureStep, storage_recovery, prepare_refresh, wait_for_refresh, pause_attestor,
           capture_inventory, database_snapshot, pg_dump, stop_store, archive, start_store,
           maintenanceVars, ledgerVars, Capturing
  <1>q. QED BY <1>1, <1>2, <1>3

\* And those of the finally block up to the writers.
LEMMA RecoverSteps ==
    ASSUME RecoverStep
    PROVE  /\ pc \in Recovering
           /\ pc' \in Recovering \cup {"end"} \/ (pc' = "resume" /\ at' = 1)
           /\ UNCHANGED <<svc, doubt, manifest, drill, capture>>
           /\ flags' = flags \/ flags' = [flags EXCEPT !.storeStopped = FALSE]
  BY DEF RecoverStep, recover_store, recover_prepare, recover_wait, Recovering, maintenanceVars

\* From the recovery until the writers: nothing runs, or the controller doubts.
LEMMA WritersWait ==
    ASSUME WritersInv, pc \in {"recovery"} \cup Capturing \cup Recovering,
           UNCHANGED <<svc, doubt>>,
           \/ pc' \in {"recovery"} \cup Capturing \cup Recovering \cup {"end"}
           \/ pc' = "resume" /\ at' = 1
    PROVE  WritersInv'
PROOF
  <1>1. ~doubt => AllDown
    BY DEF WritersInv
  <1>2. ~doubt => AllDown'
    BY <1>1 DEF AllDown
  <1>3. pc' # "quiesce" /\ pc' # "rollback" /\ pc' # "passed"
    BY DEF Capturing, Recovering
  <1>4. ASSUME pc' = "resume", ~doubt
        PROVE  /\ \A i \in 1 .. Len(ResumeOrder) : i < at' => svc'[ResumeOrder[i]] = "running"
               /\ \A s \in Services : svc'[s] = "running" =>
                     \E i \in 1 .. Len(ResumeOrder) : i < at' /\ ResumeOrder[i] = s
    <2>1. at' = 1
      BY <1>4 DEF Capturing, Recovering
    <2>2. \A i \in 1 .. Len(ResumeOrder) : ~(i < 1)
      OBVIOUS
    <2>q. QED BY <1>2, <1>4, <2>1, <2>2 DEF AllDown
  <1>q. QED BY <1>2, <1>3, <1>4 DEF WritersInv

\* Quiescing stops one service after the other; it goes on to the recovery only
\* when every command worked, and then nothing runs.
LEMMA QuiesceStep ==
    ASSUME BackupInv, quiesce \/ quiesced
    PROVE  QuietInv' /\ CaptureInv' /\ WritersInv'
PROOF
  <1>0. /\ svc \in [Services -> {"running", "paused", "stopped"}] /\ at \in Nat \ {0}
        /\ rec \in [Recoveries -> RecoveryRuns]
        /\ WritersInv /\ QuietInv /\ CaptureInv /\ ControllerTypeOK
    BY DEF BackupInv, WorldInv, MaintenanceTypeOK, ControllerTypeOK
  <1>1. pc = "quiesce" /\ UNCHANGED <<rows, objs, store, capture, manifest, drill>>
    BY DEF quiesce, quiesced, ledgerVars
  <1>2. CommittedIsStored'
    BY <1>0, <1>1 DEF QuietInv, CommittedIsStored
  <1>3. CASE quiesce
    <2>1. pc' = "quiesce" /\ UNCHANGED <<rec, flags>> /\ at' = at + 1 /\ at <= Len(Quiesced)
      BY <1>1, <1>3 DEF quiesce
    <2>2. QuietInv'
      BY <1>0, <1>1, <1>2, <2>1 DEF QuietInv, Capturing
    <2>3. CaptureInv'
      BY <1>0, <1>1, <2>1 DEF CaptureInv, Ending, Recovering
    <2>4. doubt' => errors'
      <3>1. (errors' = errors /\ doubt' = doubt) \/ errors' = TRUE
        BY <1>3 DEF quiesce
      <3>2. doubt => errors
        BY <1>0, <1>1 DEF WritersInv
      <3>q. QED BY <1>0, <3>1, <3>2 DEF ControllerTypeOK
    <2>5. ASSUME ~doubt', NEW i \in 1 .. Len(Quiesced), i < at'
          PROVE  svc'[Quiesced[i]] # "running"
      <3>1. Quiesced[i] \in Services /\ Quiesced[at] \in Services
        BY <1>0, <2>1, Orders
      <3>2. ~doubt /\ \E d \in {"paused", "stopped"} : svc' = [svc EXCEPT ![Quiesced[at]] = d]
        BY <1>3, <2>5 DEF quiesce, Down
      <3>3. CASE i < at
        BY <1>0, <1>1, <3>1, <3>2, <3>3 DEF WritersInv
      <3>4. CASE ~(i < at)
        <4>1. i = at
          BY <1>0, <2>1, <2>5, <3>4
        <4>q. QED BY <1>0, <3>1, <3>2, <4>1
      <3>q. QED BY <3>3, <3>4
    <2>6. WritersInv'
      BY <2>1, <2>4, <2>5 DEF WritersInv, Capturing, Recovering
    <2>q. QED BY <2>2, <2>3, <2>6
  <1>4. CASE quiesced
    <2>1. at > Len(Quiesced) /\ UNCHANGED <<svc, doubt>>
      BY <1>4 DEF quiesced
    <2>2. ~doubt => AllDown /\ AllDown'
      <3>1. ASSUME ~doubt, NEW s \in Services PROVE svc[s] # "running"
        <4>1. PICK i \in 1 .. Len(Quiesced) : Quiesced[i] = s
          BY Orders
        <4>2. Len(Quiesced) \in Nat /\ i < at
          BY <1>0, <2>1 DEF Quiesced
        <4>q. QED BY <1>0, <1>1, <3>1, <4>1, <4>2 DEF WritersInv
      <3>q. QED BY <3>1, <2>1 DEF AllDown
    <2>3. CASE WritersQuiesced
      <3>1. pc' = "recovery" /\ UNCHANGED flags
            /\ rec' = [rec EXCEPT ![BackupRecovery].pc = "starting"]
        BY <1>4, <2>3 DEF quiesced
      <3>2. ~doubt
        BY <1>0, <1>1, <2>3 DEF WritersInv, WritersQuiesced
      <3>3. rec'[BackupRecovery].pc = "starting"
        BY <1>0, <3>1 DEF RecoveryRuns
      <3>4. QuietInv'
        BY <1>2, <2>2, <3>1, <3>2, <3>3 DEF QuietInv, Capturing
      <3>5. CaptureInv'
        BY <1>0, <1>1, <3>1 DEF CaptureInv, Ending, Recovering
      <3>6. WritersInv'
        BY <2>2, <3>1, <3>2 DEF WritersInv
      <3>q. QED BY <3>4, <3>5, <3>6
    <2>4. CASE ~WritersQuiesced
      <3>1. pc' = "recover_store" /\ flags'.failed = TRUE
        BY <1>0, <1>4, <2>4, FailMarks DEF quiesced
      <3>2. QuietInv'
        BY <3>1 DEF QuietInv, Capturing
      <3>3. CaptureInv'
        BY <1>0, <1>1, <3>1 DEF CaptureInv
      <3>4. WritersInv'
        BY <2>1, <2>2, <3>1 DEF WritersInv
      <3>q. QED BY <3>2, <3>3, <3>4
    <2>q. QED BY <2>3, <2>4
  <1>q. QED BY <1>3, <1>4

\* While it captures, nothing runs and the ledger has no target.
LEMMA CaptureIsQuiet ==
    ASSUME BackupInv, CaptureStep
    PROVE  QuietInv' /\ WritersInv'
PROOF
  <1>0. WritersInv /\ QuietInv
    BY DEF BackupInv
  <1>1. /\ pc \in {"recovery"} \cup Capturing
        /\ pc' \in Capturing \cup {"recover_store"}
        /\ pc' \in Capturing => objs' = objs
        /\ UNCHANGED <<svc, rows, rec, doubt, manifest, drill>>
    BY CaptureSteps
  <1>2. WritersInv'
    BY <1>0, <1>1, WritersWait DEF Recovering
  <1>3. pc' \in Capturing => NoTarget
    <2>1. pc = "recovery" => storage_recovery
      BY DEF CaptureStep, prepare_refresh, wait_for_refresh, pause_attestor, capture_inventory,
             database_snapshot, pg_dump, stop_store, archive, start_store
    <2>2. storage_recovery /\ pc' \in Capturing => rec[BackupRecovery].pc = "done"
      BY DEF storage_recovery, Fail, Capturing
    <2>q. QED BY <1>0, <1>1, <2>1, <2>2 DEF QuietInv, storage_recovery
  <1>4. AllDown /\ CommittedIsStored
    BY <1>0, <1>1 DEF QuietInv
  <1>5. QuietInv'
    BY <1>1, <1>3, <1>4 DEF QuietInv, Capturing, NoTarget, AllDown, CommittedIsStored
  <1>q. QED BY <1>2, <1>5

\* Each part of the capture is of the same quiet state, and what is not is
\* noticed by the second inventory.
LEMMA CaptureAgrees ==
    ASSUME BackupInv, CaptureStep
    PROVE  CaptureInv'
PROOF
  <1>0. /\ QuietInv /\ CaptureInv /\ BytesAreKnown /\ ControllerTypeOK
        /\ capture \in CaptureRecords /\ flags \in FlagRecords
        /\ rows \in [Keys -> RowStates] /\ objs \subseteq Keys
        /\ store \in [up : BOOLEAN, restarts : Nat]
    BY DEF BackupInv, WorldInv, MaintenanceTypeOK, ControllerTypeOK
  <1>1. /\ pc \in {"recovery"} \cup Capturing
        /\ pc' \in Capturing \cup {"recover_store"}
        /\ pc' \in Capturing => objs' = objs
        /\ UNCHANGED <<svc, rows, rec, doubt, manifest, drill>>
    BY CaptureSteps
  <1>2. (manifest'.present => GoodCapture(manifest'.capture)) /\ drill' # "FAIL"
    BY <1>0, <1>1 DEF CaptureInv
  <1>3. ASSUME flags'.failed = TRUE, pc' = "recover_store" PROVE CaptureInv'
    BY <1>2, <1>3 DEF CaptureInv, GoodCapture, Capturing
  <1>4. CASE Fail
    BY <1>0, <1>3, <1>4, FailMarks
  <1>5. ASSUME pc' \in {"prepare", "wait", "pause_attestor", "inventory", "snapshot"}
        PROVE  CaptureInv'
    BY <1>2, <1>5 DEF CaptureInv, GoodCapture, Ending, Recovering
  <1>6. CASE storage_recovery \/ prepare_refresh \/ wait_for_refresh
    BY <1>4, <1>5, <1>6 DEF storage_recovery, prepare_refresh, wait_for_refresh
  <1>7. CASE pause_attestor
    <2>1. CASE pc' = "inventory"
      BY <1>5, <2>1
    <2>2. CASE pc' = "recover_store" /\
               flags' = [flags EXCEPT !.attestorPaused = TRUE, !.failed = TRUE, !.gateFailed = TRUE]
      <3>1. flags'.failed = TRUE
        BY <1>0, <2>2 DEF FlagRecords
      <3>q. QED BY <1>3, <2>2, <3>1
    <2>q. QED BY <1>7, <2>1, <2>2 DEF pause_attestor
  <1>8. CASE capture_inventory
    BY <1>4, <1>5, <1>8 DEF capture_inventory, Captures
  <1>9. CASE database_snapshot
    <2>1. CASE pc' = "dump" /\ capture' = [capture EXCEPT !.snapshot = {k \in Keys : rows[k] # "none"}]
      <3>1. capture'.snapshot = {k \in Keys : rows[k] # "none"}
        BY <1>0, <2>1 DEF CaptureRecords
      <3>q. QED BY <1>1, <1>2, <2>1, <3>1 DEF CaptureInv, GoodCapture, Ending, Recovering
    <2>q. QED BY <1>4, <1>9, <2>1 DEF database_snapshot, Captures
  <1>10. CASE pg_dump
    <2>1. CASE pc' = "stop_store" /\ capture' = [capture EXCEPT !.dump = rows]
      <3>1. capture'.dump = rows /\ capture'.snapshot = capture.snapshot
        BY <1>0, <2>1 DEF CaptureRecords
      <3>2. pc = "dump"
        BY <1>10 DEF pg_dump
      <3>q. QED BY <1>0, <1>1, <1>2, <2>1, <3>1, <3>2
            DEF CaptureInv, GoodCapture, Ending, Recovering
    <2>q. QED BY <1>4, <1>10, <2>1 DEF pg_dump, Captures
  <1>11. CASE stop_store
    <2>1. CASE pc' = "archive" /\ store' = [store EXCEPT !.up = FALSE] /\ capture' = capture
      <3>1. ~store'.up
        BY <1>0, <2>1
      <3>2. pc = "stop_store"
        BY <1>11 DEF stop_store
      <3>q. QED BY <1>0, <1>1, <1>2, <2>1, <3>1, <3>2
            DEF CaptureInv, GoodCapture, Ending, Recovering
    <2>2. CASE pc' = "recover_store" /\ flags' = [flags EXCEPT !.storeStopped = TRUE, !.failed = TRUE]
      <3>1. flags'.failed = TRUE
        BY <1>0, <2>2 DEF FlagRecords
      <3>q. QED BY <1>3, <2>2, <3>1
    <2>q. QED BY <1>11, <2>1, <2>2 DEF stop_store
  <1>12. CASE archive
    <2>1. CASE pc' = "start_store" /\ capture' = [capture EXCEPT !.archive = objs]
      <3>1. /\ capture'.archive = objs /\ capture'.dump = capture.dump
            /\ capture'.snapshot = capture.snapshot
        BY <1>0, <2>1 DEF CaptureRecords
      <3>2. pc = "archive" /\ UNCHANGED <<store, objs>>
        BY <1>12 DEF archive, maintenanceVars, ledgerVars
      <3>q. QED BY <1>0, <1>1, <1>2, <2>1, <3>1, <3>2
            DEF CaptureInv, GoodCapture, Ending, Recovering
    <2>q. QED BY <1>4, <1>12, <2>1 DEF archive, Captures
  <1>13. CASE start_store
    <2>0. pc = "start_store" /\ pc' = "recover_store" /\ capture' = capture
      BY <1>13 DEF start_store
    <2>1. CASE flags' = [flags EXCEPT !.storeStopped = FALSE, !.failed = ~StoreUnchanged]
      <3>1. ~flags'.failed => StoreUnchanged
        BY <1>0, <2>1 DEF FlagRecords
      <3>2. StoreUnchanged => GoodCapture(capture)
        <4>1. /\ capture.snapshot = {k \in Keys : rows[k] # "none"} /\ capture.dump = rows
              /\ capture.archive = objs
          BY <1>0, <2>0 DEF CaptureInv
        <4>2. CommittedIsStored /\ NoTarget
          BY <1>0, <2>0 DEF QuietInv, Capturing
        <4>q. QED BY <1>0, <4>1, <4>2 DEF GoodCapture, StoreUnchanged, CommittedIsStored,
                                          NoTarget, BytesAreKnown, RowStates, Unfinished
      <3>q. QED BY <1>2, <2>0, <3>1, <3>2 DEF CaptureInv, Ending, Recovering
    <2>2. CASE \/ flags' = [flags EXCEPT !.storeStopped = FALSE, !.failed = TRUE]
               \/ flags' = [flags EXCEPT !.failed = TRUE]
      <3>1. flags'.failed = TRUE
        BY <1>0, <2>2 DEF FlagRecords
      <3>q. QED BY <1>3, <2>0, <3>1
    <2>q. QED BY <1>13, <2>1, <2>2 DEF start_store
  <1>q. QED BY <1>6, <1>7, <1>8, <1>9, <1>10, <1>11, <1>12, <1>13 DEF CaptureStep

\* The finally block decides whether the writers go on; the capture it leaves
\* as it is.
LEMMA RecoverKeeps ==
    ASSUME BackupInv, RecoverStep
    PROVE  QuietInv' /\ CaptureInv' /\ WritersInv'
PROOF
  <1>0. WritersInv /\ CaptureInv /\ flags \in FlagRecords
    BY DEF BackupInv, ControllerTypeOK
  <1>1. /\ pc \in Recovering
        /\ pc' \in Recovering \cup {"end"} \/ (pc' = "resume" /\ at' = 1)
        /\ UNCHANGED <<svc, doubt, manifest, drill, capture>>
        /\ flags' = flags \/ flags' = [flags EXCEPT !.storeStopped = FALSE]
    BY RecoverSteps
  <1>2. WritersInv'
    BY <1>0, <1>1, WritersWait
  <1>3. pc' \in Ending /\ pc' \notin {"quiesce", "recovery"} \cup Capturing /\ pc \in Ending
    BY <1>1 DEF Recovering, Ending, Capturing
  <1>4. QuietInv'
    BY <1>3 DEF QuietInv
  <1>5. flags'.failed = flags.failed
    BY <1>0, <1>1 DEF FlagRecords
  <1>6. CaptureInv'
    BY <1>0, <1>1, <1>3, <1>5 DEF CaptureInv, GoodCapture, Capturing
  <1>q. QED BY <1>2, <1>4, <1>6

\* The writers are resumed one after the other, and all of them stopped again
\* when one does not start.
LEMMA ResumeKeeps ==
    ASSUME BackupInv, ResumeStep
    PROVE  QuietInv' /\ CaptureInv' /\ WritersInv'
PROOF
  <1>0. /\ svc \in [Services -> {"running", "paused", "stopped"}] /\ at \in Nat \ {0}
        /\ WritersInv /\ CaptureInv
        /\ manifest \in {NoManifest} \cup [present : {TRUE}, capture : CaptureRecords]
    BY DEF BackupInv, WorldInv, MaintenanceTypeOK, ControllerTypeOK
  <1>1. /\ pc \in {"resume", "rollback", "end"} /\ pc' \in {"resume", "rollback", "end", "passed"}
        /\ UNCHANGED <<flags, capture, drill>>
        /\ manifest' = manifest
           \/ (manifest' = [present |-> TRUE, capture |-> capture] /\ ~flags.failed)
    BY DEF ResumeStep, resume, rollback, resumed, write_manifest
  <1>2. QuietInv'
    BY <1>1 DEF QuietInv, Capturing
  <1>3. CaptureInv'
    <2>1. pc \in Ending /\ pc' \notin Capturing
      BY <1>1 DEF Ending, Capturing
    <2>2. ~flags.failed => GoodCapture(capture)
      BY <1>0, <2>1 DEF CaptureInv
    <2>3. manifest'.present => GoodCapture(manifest'.capture)
      BY <1>0, <1>1, <2>2 DEF CaptureInv
    <2>q. QED BY <1>0, <1>1, <2>1, <2>2, <2>3 DEF CaptureInv, GoodCapture, Capturing
  <1>4. CASE resume
    <2>0. pc = "resume" /\ at <= Len(ResumeOrder) /\ at \in 1 .. Len(ResumeOrder)
          /\ UNCHANGED doubt /\ ResumeOrder[at] \in Services
      <3>1. pc = "resume" /\ at <= Len(ResumeOrder) /\ UNCHANGED doubt
        BY <1>4 DEF resume
      <3>2. Len(ResumeOrder) \in Nat
        BY Orders
      <3>3. at \in 1 .. Len(ResumeOrder)
        BY <1>0, <3>1, <3>2
      <3>4. ResumeOrder[at] \in Services
        BY <3>3, Orders
      <3>q. QED BY <3>1, <3>3, <3>4
    <2>a. doubt' <=> doubt
      BY <2>0
    <2>1. ~doubt =>
            /\ \A i \in 1 .. Len(ResumeOrder) : i < at => svc[ResumeOrder[i]] = "running"
            /\ \A s \in Services : svc[s] = "running" =>
                  \E i \in 1 .. Len(ResumeOrder) : i < at /\ ResumeOrder[i] = s
      BY <1>0, <2>0 DEF WritersInv
    <2>2. CASE svc' = [svc EXCEPT ![ResumeOrder[at]] = "running"] /\ at' = at + 1 /\ pc' = pc
      <3>1. ASSUME ~doubt, NEW i \in 1 .. Len(ResumeOrder), i < at'
            PROVE  svc'[ResumeOrder[i]] = "running"
        <4>1. i < at \/ i = at
          BY <1>0, <2>2, <3>1
        <4>2. ResumeOrder[i] \in Services
          BY Orders
        <4>q. QED BY <1>0, <2>0, <2>1, <2>2, <3>1, <4>1, <4>2
      <3>2. ASSUME ~doubt, NEW s \in Services, svc'[s] = "running"
            PROVE  \E i \in 1 .. Len(ResumeOrder) : i < at' /\ ResumeOrder[i] = s
        <4>1. CASE s = ResumeOrder[at]
          BY <1>0, <2>0, <2>2, <4>1
        <4>2. CASE s # ResumeOrder[at]
          <5>1. svc[s] = "running"
            BY <1>0, <2>0, <2>2, <3>2, <4>2
          <5>2. PICK i \in 1 .. Len(ResumeOrder) : i < at /\ ResumeOrder[i] = s
            BY <2>1, <3>2, <5>1
          <5>q. QED BY <1>0, <2>2, <5>2
        <4>q. QED BY <4>1, <4>2
      <3>3. pc' = "resume"
        BY <2>0, <2>2
      <3>q. QED BY <1>2, <1>3, <2>a, <3>1, <3>2, <3>3 DEF WritersInv, Capturing, Recovering
    <2>3. CASE svc' \in {svc, [svc EXCEPT ![ResumeOrder[at]] = "running"]} /\ pc' = "rollback"
               /\ at' = at
      <3>1. ASSUME ~doubt, NEW s \in Services, svc'[s] = "running"
            PROVE  \E i \in 1 .. Len(ResumeOrder) : i <= at' /\ ResumeOrder[i] = s
        <4>1. CASE s = ResumeOrder[at]
          BY <1>0, <2>0, <2>3, <4>1
        <4>2. CASE s # ResumeOrder[at]
          <5>1. svc[s] = "running"
            BY <1>0, <2>0, <2>3, <3>1, <4>2
          <5>2. PICK i \in 1 .. Len(ResumeOrder) : i < at /\ ResumeOrder[i] = s
            BY <2>1, <3>1, <5>1
          <5>q. QED BY <1>0, <2>3, <5>2
        <4>q. QED BY <4>1, <4>2
      <3>q. QED BY <1>2, <1>3, <2>a, <2>3, <3>1 DEF WritersInv, Capturing, Recovering
    <2>q. QED BY <1>4, <2>2, <2>3 DEF resume
  <1>5. CASE rollback
    <2>0. pc = "rollback" /\ pc' = "end"
      BY <1>5 DEF rollback
    <2>1. ~doubt' => AllDown'
      <3>1. CASE UNCHANGED doubt
                 /\ svc' = [s \in Services |->
                       IF \E i \in 1 .. RollbackFrom : ResumeOrder[i] = s THEN Down(s) ELSE svc[s]]
        <4> SUFFICES ASSUME ~doubt, NEW s \in Services, svc'[s] = "running" PROVE FALSE
          BY <3>1 DEF AllDown
        <4>1. Down(s) # "running"
          BY DEF Down
        <4>2. svc[s] = "running" /\ ~\E i \in 1 .. at : ResumeOrder[i] = s
          BY <3>1, <4>1 DEF RollbackFrom
        <4>3. PICK i \in 1 .. Len(ResumeOrder) : i <= at /\ ResumeOrder[i] = s
          BY <1>0, <2>0, <4>2 DEF WritersInv
        <4>4. i \in 1 .. at
          BY <1>0, <4>3
        <4>q. QED BY <4>2, <4>3, <4>4
      <3>q. QED BY <1>5, <3>1 DEF rollback
    <2>2. WritersInv'
      BY <2>0, <2>1 DEF WritersInv, Capturing, Recovering
    <2>q. QED BY <1>2, <1>3, <2>2
  <1>6. CASE resumed
    <2>0. pc = "resume" /\ pc' = "end" /\ at > Len(ResumeOrder) /\ UNCHANGED <<svc, doubt>>
      BY <1>6 DEF resumed, maintenanceVars
    <2>1. ASSUME ~doubt, NEW s \in Services PROVE svc'[s] = "running"
      <3>1. PICK i \in 1 .. Len(ResumeOrder) : ResumeOrder[i] = s
        BY Orders
      <3>2. Len(ResumeOrder) \in Nat /\ i < at
        BY <1>0, <2>0 DEF ResumeOrder
      <3>q. QED BY <1>0, <2>0, <2>1, <3>1, <3>2 DEF WritersInv
    <2>2. WritersInv'
      BY <2>0, <2>1 DEF WritersInv, Capturing, Recovering
    <2>q. QED BY <1>2, <1>3, <2>2
  <1>7. CASE write_manifest
    <2>1. pc = "end" /\ pc' = "passed" /\ UNCHANGED <<svc, doubt>>
      BY <1>7 DEF write_manifest, maintenanceVars
    <2>2. WritersInv'
      BY <1>0, <2>1 DEF WritersInv, Capturing, Recovering, AllDown
    <2>q. QED BY <1>2, <1>3, <2>2
  <1>q. QED BY <1>4, <1>5, <1>6, <1>7 DEF ResumeStep

\* The controller's own steps keep everything.
LEMMA ControllerKeeps ==
    ASSUME BackupInv, ControllerStep
    PROVE  BackupInv'
PROOF
  <1>0. WorldInv /\ ControllerTypeOK
    BY DEF BackupInv
  <1>1. WorldInv' /\ ControllerTypeOK'
    BY <1>0, ControllerMoves, ControllerTyped
  <1>2. QuietInv' /\ CaptureInv' /\ WritersInv'
    <2>1. CASE quiesce \/ quiesced
      BY <2>1, QuiesceStep
    <2>2. CASE CaptureStep
      BY <2>2, CaptureIsQuiet, CaptureAgrees
    <2>3. CASE RecoverStep
      BY <2>3, RecoverKeeps
    <2>4. CASE ResumeStep
      BY <2>4, ResumeKeeps
    <2>q. QED BY <2>1, <2>2, <2>3, <2>4 DEF ControllerStep, CaptureStep, RecoverStep, ResumeStep
  <1>q. QED BY <1>1, <1>2 DEF BackupInv

\* The backup's own recovery starts nowhere else, and ends over a ledger
\* without targets.
LEMMA OwnRecovery ==
    ASSUME rec \in [Recoveries -> RecoveryRuns],
           MaintenanceNext \/ \E r \in Recoveries \ {BackupRecovery} : start_recovery(r)
    PROVE  /\ rec[BackupRecovery].pc = "idle" => rec'[BackupRecovery].pc = "idle"
           /\ rec'[BackupRecovery].pc = "done" =>
                 rec[BackupRecovery].pc = "done" \/ (NoTarget /\ NoTarget')
PROOF
  <1>1. ASSUME NEW k \in Keys,
               \/ reserve(k) \/ put_lands(k) \/ put_lost(k) \/ commit_object(k)
               \/ lease_runs_out(k) \/ reap(k) \/ \E r \in Recoveries : recover(r, k)
        PROVE  rec' = rec
    BY <1>1 DEF reserve, put_lands, put_lost, commit_object, lease_runs_out, reap, recover
  <1>2. CASE database_restart \/ owner_expires \/ AttestorNext
    BY <1>2 DEF database_restart, owner_expires, AttestorNext, inventory_s3, inventory_fails,
                activate_capacity, write_heartbeat, attestor_restart
  <1>3. ASSUME NEW r \in Recoveries, begin(r)
        PROVE  /\ rec[BackupRecovery].pc = "idle" => rec'[BackupRecovery].pc = "idle"
               /\ rec'[BackupRecovery].pc = "done" => rec[BackupRecovery].pc = "done"
    <2>1. /\ rec[r].pc = "starting"
          /\ rec' = [rec EXCEPT ![r] = [pc |-> "working", epoch |-> gate.epoch + 1]]
      BY <1>3 DEF begin
    <2>2. CASE r = BackupRecovery
      BY <2>1, <2>2
    <2>3. CASE r # BackupRecovery
      BY <2>1, <2>3
    <2>q. QED BY <2>2, <2>3
  <1>4. ASSUME NEW r \in Recoveries, finish(r)
        PROVE  /\ rec[BackupRecovery].pc = "idle" => rec'[BackupRecovery].pc = "idle"
               /\ rec'[BackupRecovery].pc = "done" =>
                     rec[BackupRecovery].pc = "done" \/ (NoTarget /\ NoTarget')
    <2>1. /\ rec[r].pc = "working" /\ NoTarget /\ rows' = rows
          /\ rec' = [rec EXCEPT ![r].pc = "done"]
      BY <1>4 DEF finish, ledgerVars
    <2>2. NoTarget'
      BY <2>1 DEF NoTarget
    <2>3. CASE r = BackupRecovery
      BY <2>1, <2>2, <2>3
    <2>4. CASE r # BackupRecovery
      BY <2>1, <2>4
    <2>q. QED BY <2>3, <2>4
  <1>5. ASSUME NEW r \in Recoveries,
               \/ renew(r) \/ recovery_fails(r)
               \/ r # BackupRecovery /\ start_recovery(r)
        PROVE  /\ rec[BackupRecovery].pc = "idle" => rec'[BackupRecovery].pc = "idle"
               /\ rec'[BackupRecovery].pc = "done" => rec[BackupRecovery].pc = "done"
    <2>1. /\ r = BackupRecovery => rec[r].pc # "idle"
          /\ \E p \in {"starting", "failed"} : rec' = [rec EXCEPT ![r].pc = p]
      BY <1>5 DEF renew, recovery_fails, start_recovery
    <2>2. CASE r = BackupRecovery
      BY <2>1, <2>2 DEF RecoveryRuns
    <2>3. CASE r # BackupRecovery
      BY <2>1, <2>3
    <2>q. QED BY <2>2, <2>3
  <1>q. QED BY <1>1, <1>2, <1>3, <1>4, <1>5 DEF MaintenanceNext

\* The world around the controller keeps everything: while nothing runs and the
\* ledger has no target, only late PUTs move, and none into a stopped store.
LEMMA WorldKeeps ==
    ASSUME BackupInv, UNCHANGED backupVars,
           MaintenanceNext \/ \E r \in Recoveries \ {BackupRecovery} : start_recovery(r)
    PROVE  BackupInv'
PROOF
  <1>0. /\ WorldInv /\ MaintenanceTypeOK /\ BytesAreKnown /\ GateInv /\ MaintenanceStep
        /\ ControllerTypeOK /\ QuietInv /\ CaptureInv /\ WritersInv
        /\ UNCHANGED <<pc, at, errors, flags, capture, doubt, manifest, drill>>
    BY DEF BackupInv, WorldInv, MaintenanceStep, backupVars
  <1>1. UNCHANGED <<svc, store>>
    BY <1>0, LedgerMoves
  <1>2. /\ rows' \in [Keys -> RowStates] /\ puts' \subseteq Keys /\ objs' \subseteq Keys
        /\ BytesAreKnown'
        /\ CommittedIsStored => CommittedIsStored'
        /\ AllDown => AllDown'
        /\ AllDown /\ NoTarget => rows' = rows /\ NoTarget'
        /\ AllDown /\ NoTarget /\ ~store.up => objs' = objs
    BY <1>0, LedgerKept
  <1>3. WorldInv'
    <2>1. MaintenanceTypeOK'
      BY <1>0, <1>1, <1>2, GateTyped DEF MaintenanceTypeOK
    <2>2. GateInv'
      BY <1>0, GateStep
    <2>q. QED BY <1>2, <2>1, <2>2 DEF WorldInv
  <1>4. /\ rec[BackupRecovery].pc = "idle" => rec'[BackupRecovery].pc = "idle"
        /\ rec'[BackupRecovery].pc = "done" =>
              rec[BackupRecovery].pc = "done" \/ (NoTarget /\ NoTarget')
    BY <1>0, OwnRecovery DEF MaintenanceTypeOK
  <1>5. QuietInv'
    BY <1>0, <1>2, <1>4 DEF QuietInv
  <1>6. CaptureInv'
    <2>1. pc \in Capturing => rows' = rows /\ (~store.up => objs' = objs)
      BY <1>0, <1>2 DEF QuietInv
    <2>2. /\ pc' \in {"dump", "stop_store", "archive", "start_store"} =>
                capture'.snapshot = {k \in Keys : rows'[k] # "none"}
          /\ pc' \in {"stop_store", "archive", "start_store"} => capture'.dump = rows'
          /\ pc' \in {"archive", "start_store"} => ~store'.up
          /\ pc' = "start_store" => capture'.archive = objs'
      BY <1>0, <1>1, <2>1 DEF CaptureInv, Capturing
    <2>3. /\ pc' \in Ending /\ ~flags'.failed => GoodCapture(capture')
          /\ manifest'.present => GoodCapture(manifest'.capture)
          /\ drill' # "FAIL"
      BY <1>0 DEF CaptureInv
    <2>q. QED BY <2>2, <2>3 DEF CaptureInv, GoodCapture
  <1>7. WritersInv'
    BY <1>0, <1>1 DEF WritersInv, AllDown
  <1>8. ControllerTypeOK'
    BY <1>0 DEF ControllerTypeOK
  <1>q. QED BY <1>3, <1>5, <1>6, <1>7, <1>8 DEF BackupInv

-----------------------------------------------------------------------------
(* The theorems                                                            *)

\* At first every writer runs, every row is committed and stored, and the gate
\* is open with evidence.
LEMMA BackupInvInit == BackupInit => BackupInv
PROOF
  <1> SUFFICES ASSUME BackupInit PROVE BackupInv
    OBVIOUS
  <1>1. MaintenanceTypeOK
    <2>1. gate \in GateRows
      BY DEF BackupInit, MaintenanceInit, GateRows
    <2>2. att \in Attestors
      BY DEF BackupInit, MaintenanceInit, Attestors
    <2>3. rec \in [Recoveries -> RecoveryRuns]
      BY DEF BackupInit, MaintenanceInit, RecoveryRuns
    <2>4. store \in [up : BOOLEAN, restarts : Nat]
      BY DEF BackupInit, MaintenanceInit
    <2>5. rows \in [Keys -> RowStates]
      BY DEF BackupInit, MaintenanceInit, RowStates
    <2>q. QED BY <2>1, <2>2, <2>3, <2>4, <2>5 DEF BackupInit, MaintenanceInit, MaintenanceTypeOK
  <1>2. BytesAreKnown /\ CommittedIsStored
    BY DEF BackupInit, MaintenanceInit, BytesAreKnown, CommittedIsStored
  <1>3. GateInv
    <2>1. /\ gate.recovered = 1 /\ boot = 1 /\ gate.attested = TRUE /\ gate.epoch = 0
          /\ \A r \in Recoveries : rec[r].epoch = 0 /\ rec[r].pc = "idle"
      BY DEF BackupInit, MaintenanceInit
    <2>q. QED BY <2>1 DEF GateInv, RecoveryGateHolds, OpenGateIsClean, NewestRecoveryOwnsGate
  <1>4. ControllerTypeOK
    <2>1. flags \in FlagRecords
      BY DEF BackupInit, FlagRecords
    <2>2. capture \in CaptureRecords
      BY DEF BackupInit, CaptureRecords, NoCapture
    <2>3. errors \in BOOLEAN /\ doubt \in BOOLEAN
      BY DEF BackupInit
    <2>q. QED BY <2>1, <2>2, <2>3 DEF BackupInit, ControllerTypeOK
  <1>5. QuietInv
    BY <1>2 DEF BackupInit, MaintenanceInit, QuietInv, Capturing
  <1>6. CaptureInv
    BY DEF BackupInit, CaptureInv, NoManifest, Ending, Recovering
  <1>7. WritersInv
    BY DEF BackupInit, WritersInv, Capturing, Recovering
  <1>q. QED BY <1>1, <1>2, <1>3, <1>4, <1>5, <1>6, <1>7 DEF BackupInv, WorldInv

\* Every step keeps the invariant.
LEMMA BackupInvStep ==
    BackupInv /\ [BackupNext]_<<maintenanceVars, backupVars>> => BackupInv'
PROOF
  <1> SUFFICES ASSUME BackupInv, [BackupNext]_<<maintenanceVars, backupVars>> PROVE BackupInv'
    OBVIOUS
  <1>1. CASE MaintenanceNext /\ UNCHANGED backupVars
    BY <1>1, WorldKeeps
  <1>2. CASE \E r \in Recoveries \ {BackupRecovery} : start_recovery(r) /\ UNCHANGED backupVars
    BY <1>2, WorldKeeps
  <1>3. CASE ControllerStep
    BY <1>3, ControllerKeeps
  <1>4. ASSUME UNCHANGED maintenanceVars,
               UNCHANGED <<at, errors, flags, capture, manifest, drill>>,
               (doubt' = TRUE /\ pc' = "killed")
        PROVE  BackupInv'
    <2>1. /\ WorldInv' /\ ControllerTypeOK'
      BY <1>4 DEF maintenanceVars, ledgerVars, attestorVars, BackupInv, WorldInv,
                  MaintenanceTypeOK, BytesAreKnown, GateInv, RecoveryGateHolds,
                  OpenGateIsClean, CapacityLockable, NoTarget, NewestRecoveryOwnsGate,
                  ControllerTypeOK
    <2>2. QuietInv' /\ WritersInv'
      BY <1>4 DEF QuietInv, WritersInv, Capturing
    <2>3. CaptureInv'
      BY <1>4 DEF BackupInv, CaptureInv, GoodCapture, Ending, Recovering
    <2>q. QED BY <2>1, <2>2, <2>3 DEF BackupInv
  <1>5. CASE controller_dies
    BY <1>4, <1>5 DEF controller_dies
  <1>6. ASSUME UNCHANGED maintenanceVars,
               UNCHANGED <<pc, at, errors, flags, capture, doubt, manifest>>,
               drill' # "FAIL"
        PROVE  BackupInv'
    <2>1. /\ WorldInv' /\ ControllerTypeOK'
      BY <1>6 DEF maintenanceVars, ledgerVars, attestorVars, BackupInv, WorldInv,
                  MaintenanceTypeOK, BytesAreKnown, GateInv, RecoveryGateHolds,
                  OpenGateIsClean, CapacityLockable, NoTarget, NewestRecoveryOwnsGate,
                  ControllerTypeOK
    <2>2. UNCHANGED <<svc, rows, objs, store, rec>>
      BY <1>6 DEF maintenanceVars, ledgerVars
    <2>3. QuietInv' /\ WritersInv'
      BY <1>6, <2>2 DEF BackupInv, QuietInv, WritersInv, AllDown, NoTarget, CommittedIsStored
    <2>4. CaptureInv'
      BY <1>6, <2>2 DEF BackupInv, CaptureInv, GoodCapture
    <2>q. QED BY <2>1, <2>3, <2>4 DEF BackupInv
  <1>7. CASE run_restore_drill
    <2>1. GoodCapture(manifest.capture)
      BY <1>7 DEF run_restore_drill, BackupInv, CaptureInv
    <2>2. drill' # "FAIL"
      BY <1>7, <2>1 DEF run_restore_drill, GoodCapture
    <2>q. QED BY <1>6, <1>7, <2>2 DEF run_restore_drill
  <1>8. CASE UNCHANGED <<maintenanceVars, backupVars>>
    <2>1. drill # "FAIL"
      BY DEF BackupInv, CaptureInv
    <2>q. QED BY <1>6, <1>8, <2>1 DEF backupVars
  <1>q. QED BY <1>1, <1>2, <1>3, <1>5, <1>7, <1>8 DEF BackupNext

\* Every reachable state of a backup and the world around it satisfies the
\* invariant.
THEOREM BackupInvariant == BackupSpec => []BackupInv
PROOF
  <1>q. QED BY BackupInvInit, BackupInvStep, PTL DEF BackupSpec

\* Capacity is offered only by the recovery in charge, over a clean ledger
\* (PostgresRecoveryStore.finish, _locked_gate).
THEOREM GateHolds == BackupSpec => []RecoveryGateHolds
PROOF
  <1>1. BackupInv => RecoveryGateHolds
    BY DEF BackupInv, WorldInv, GateInv
  <1>q. QED BY <1>1, BackupInvariant, PTL

\* What a manifest binds restores to a ledger and a bucket that agree, and the
\* drill never refuses it (create_backup, run_restore_drill).
THEOREM RestoreAgrees == BackupSpec => []RestoresToAgreement
PROOF
  <1>1. BackupInv => RestoresToAgreement
    BY DEF BackupInv, CaptureInv, GoodCapture, RestoresToAgreement
  <1>q. QED BY <1>1, BackupInvariant, PTL

\* A backup that ends leaves all writers running or none (the rollback of a
\* partial restart in create_backup).
THEOREM WritersAllOrNone == BackupSpec => []AllOrNothingRuns
PROOF
  <1>1. BackupInv => AllOrNothingRuns
    BY DEF BackupInv, WritersInv, AllDown, AllOrNothingRuns
  <1>q. QED BY <1>1, BackupInvariant, PTL
=============================================================================
