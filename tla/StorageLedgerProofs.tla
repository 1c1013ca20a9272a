------------------------- MODULE StorageLedgerProofs -------------------------
(***************************************************************************)
(* Reference safety of the storage ledger, for any objects, batches (even  *)
(* ones that share objects), writers and reapers.                          *)
(***************************************************************************)
EXTENDS StorageLedger, FiniteSums, TLAPS

\* Every row the functions write is a row.
LEMMA RowsWritten ==
    /\ AbsentRow \in Row /\ CommittedRow \in Row
    /\ \A w \in Writers : ReservedRow(w) \in Row
    /\ \A r \in Reapers, m \in {"none", "reserved", "committed"} : ReapingRow(r, m) \in Row
    /\ AbsentRow.state = "absent" /\ AbsentRow.fresh = FALSE
    /\ CommittedRow.state = "committed"
    /\ \A w : ReservedRow(w).state = "reserved"
    /\ \A r, m : ReapingRow(r, m).state = "reaping"
BY DEF AbsentRow, CommittedRow, ReservedRow, ReapingRow, Row

\* A row whose lease runs out is still a row.
LEMMA RowExpires ==
    ASSUME NEW r \in Row
    PROVE  Expired(r) \in Row /\ Expired(r).state = r.state
BY DEF Expired, Row

\* A writer or reaper that moves on is still one.
LEMMA ProcessesMove ==
    /\ \A p \in WriterRow : \A pc \in {"ready", "storing", "committing", "done"} :
          /\ At(p, pc) \in WriterRow /\ At(p, pc).pc = pc
          /\ At(p, pc).stored = p.stored
    /\ \A p \in WriterRow : \A o \in Objects :
          /\ WithStored(p, o) \in WriterRow /\ WithStored(p, o).pc = p.pc
          /\ WithStored(p, o).stored = p.stored \cup {o}
    /\ \A p \in ReaperRow :
          \A pc \in {"claimed", "deleting", "confirming", "confirmed"} :
          /\ At(p, pc) \in ReaperRow /\ At(p, pc).pc = pc
          /\ At(p, pc).object = p.object
    /\ IdleReaper \in ReaperRow /\ IdleReaper.pc = "idle" /\ IdleReaper.object = {}
BY DEF At, WithStored, WriterRow, ReaperRow, IdleReaper

\* The initial state satisfies the invariant.
LEMMA InitLedgerInv == Init => LedgerInv
<1> SUFFICES ASSUME Init PROVE LedgerInv
    OBVIOUS
<1> USE LedgerAssumption DEF Init
<1>1. StateTyped
  <2>1. row \in [Objects -> Row]
    BY RowsWritten
  <2>2. writer \in [Writers -> WriterRow]
    BY DEF NewWriter, WriterRow
  <2>3. reaper \in [Reapers -> ReaperRow]
    BY DEF IdleReaper, ReaperRow
  <2>4. QED
    BY <2>1, <2>2, <2>3 DEF StateTyped
<1>2. \A w \in Writers : writer[w].stored = {} /\ writer[w].pc # "committing"
  BY DEF NewWriter
<1>3. \A r \in Reapers : reaper[r].pc = "idle"
  BY DEF IdleReaper
<1>4. \A o \in Objects : row[o].state = "absent"
  BY RowsWritten
<1>5. QED
  BY <1>1, <1>2, <1>3, <1>4
     DEF LedgerInv, ReferencedBytesExist, RetiredStaysRetired, DeletesAreDoomed,
         StoredBytesExist, CompletionsHoldTheirRows, Committing

-----------------------------------------------------------------------------
(* The step.  Types first, then the rest action by action. *)

\* Every step keeps rows and processes of their types.
LEMMA NextStateTyped == LedgerInv /\ [Next]_vars => StateTyped'
<1> SUFFICES ASSUME LedgerInv, [Next]_vars PROVE StateTyped'
    OBVIOUS
<1> USE LedgerAssumption, RowsWritten
<1>t. StateTyped
  BY DEF LedgerInv
<1>w. \A w \in Writers : \A pc \in {"ready", "storing", "committing", "done"} :
        At(writer[w], pc) \in WriterRow
  BY <1>t, ProcessesMove DEF StateTyped
<1>r. \A r \in Reapers : \A pc \in {"claimed", "deleting", "confirming", "confirmed"} :
        At(reaper[r], pc) \in ReaperRow
  BY <1>t, ProcessesMove DEF StateTyped
<1>i. IdleReaper \in ReaperRow
  BY DEF IdleReaper, ReaperRow
<1>1. ASSUME NEW j \in Jobs, JobStep(j) PROVE StateTyped'
  BY <1>1, <1>t DEF JobStep, retry_job, terminalize_job, requeue_generation,
                    StateTyped, ledger, counters
<1>2. ASSUME NEW w \in Writers, WriterStep(w) PROVE StateTyped'
  <2>1. CASE claim_job(w)
    BY <2>1, <1>t, <1>w DEF claim_job, StateTyped, ledger, counters
  <2>2. CASE reserve_batch(w)
    BY <2>2, <1>t, <1>w DEF reserve_batch, StateTyped
  <2>3. ASSUME NEW o \in Batch[w], store_object(w, o) PROVE StateTyped'
    <3>1. o \in Objects
      BY <2>3
    <3>2. writer' \in [Writers -> WriterRow]
      BY <2>3, <3>1, <1>t, ProcessesMove DEF store_object, StateTyped
    <3>3. QED
      BY <2>3, <3>1, <3>2, <1>t DEF store_object, StateTyped, ledger, counters
  <2>4. CASE commit_batch(w)
    BY <2>4, <1>t, <1>w DEF commit_batch, StateTyped, ledger, counters
  <2>5. CASE commit_transaction(w)
    BY <2>5, <1>t, <1>w DEF commit_transaction, StateTyped
  <2>6. CASE writer_fails(w)
    BY <2>6, <1>t, <1>w DEF writer_fails, StateTyped, ledger, counters
  <2>7. QED
    BY <1>2, <2>1, <2>2, <2>3, <2>4, <2>5, <2>6 DEF WriterStep
<1>3. ASSUME NEW r \in Reapers, NEW o \in Objects, ReapStep(r, o) PROVE StateTyped'
  <2>1. ASSUME NEW m \in {"reserved", "committed"}, claim_reap_scan(r, o, m)
        PROVE  StateTyped'
    <3>1. [pc |-> "scanned", object |-> {o}, marker |-> m] \in ReaperRow
      BY DEF ReaperRow
    <3>2. QED
      BY <2>1, <3>1, <1>t DEF claim_reap_scan, StateTyped, ledger, counters
  <2>2. CASE claim_reap_lock(r, o)
    <3>1. CASE ~ObjectLocked(o) /\ Candidate(o, reaper[r].marker)
      <4>1. reaper[r].marker \in {"none", "reserved", "committed"}
        BY <1>t DEF StateTyped, ReaperRow
      <4>2. ReapingRow(r, reaper[r].marker) \in Row
        BY <4>1
      <4>3. QED
        BY <2>2, <3>1, <4>2, <1>t, <1>r DEF claim_reap_lock, StateTyped, counters
    <3>2. CASE ~(~ObjectLocked(o) /\ Candidate(o, reaper[r].marker))
      BY <2>2, <3>2, <1>t, <1>i DEF claim_reap_lock, StateTyped, counters
    <3>3. QED
      BY <3>1, <3>2
  <2>3. CASE reap_preflight(r, o)
    <3>1. reaper' \in [Reapers -> ReaperRow]
      BY <2>3, <1>t, <1>r, <1>i DEF reap_preflight, StateTyped
    <3>2. QED
      BY <2>3, <3>1, <1>t DEF reap_preflight, StateTyped, ledger, counters
  <2>4. CASE delete_object(r, o)
    <3>1. CASE o \in bytes
      <4>1. reaper' = [reaper EXCEPT ![r] = At(reaper[r], "confirming")]
        BY <2>4, <3>1 DEF delete_object
      <4>2. reaper' \in [Reapers -> ReaperRow]
        BY <4>1, <1>t, <1>r DEF StateTyped
      <4>3. bytes' \subseteq Objects /\ stray' \subseteq Objects
        BY <2>4, <3>1, <1>t DEF delete_object, StateTyped
      <4>4. QED
        BY <2>4, <4>2, <4>3, <1>t DEF delete_object, StateTyped, ledger, counters
    <3>2. CASE o \notin bytes
      <4>1. reaper' = [reaper EXCEPT ![r] = At(reaper[r], "confirmed")]
        BY <2>4, <3>2 DEF delete_object
      <4>2. reaper' \in [Reapers -> ReaperRow]
        BY <4>1, <1>t, <1>r DEF StateTyped
      <4>3. UNCHANGED <<bytes, stray>>
        BY <2>4, <3>2 DEF delete_object
      <4>4. QED
        BY <2>4, <4>2, <4>3, <1>t DEF delete_object, StateTyped, ledger, counters
    <3>3. QED
      BY <3>1, <3>2
  <2>5. CASE delete_object_fails(r, o)
    BY <2>5, <1>t, <1>i DEF delete_object_fails, StateTyped, ledger, counters
  <2>6. CASE confirm_missing(r, o)
    <3>1. reaper' \in [Reapers -> ReaperRow]
      BY <2>6, <1>t, <1>r, <1>i DEF confirm_missing, StateTyped
    <3>2. QED
      BY <2>6, <3>1, <1>t DEF confirm_missing, StateTyped, ledger, counters
  <2>7. CASE finalize_reap(r, o)
    <3>1. reaper' \in [Reapers -> ReaperRow]
      BY <2>7, <1>t, <1>i DEF finalize_reap, StateTyped
    <3>2. row' \in [Objects -> Row] /\ tombstones' \subseteq Objects
      BY <2>7, <1>t DEF finalize_reap, StateTyped, ledger
    <3>3. QED
      BY <2>7, <3>1, <3>2, <1>t DEF finalize_reap, StateTyped
  <2>8. QED
    BY <1>3, <2>1, <2>2, <2>3, <2>4, <2>5, <2>6, <2>7 DEF ReapStep
<1>4. ASSUME NEW r \in Reapers, reaper_crash(r) PROVE StateTyped'
  BY <1>4, <1>t, <1>i DEF reaper_crash, StateTyped, ledger, counters
<1>5. ASSUME NEW o \in Objects, StrayDelete(o) PROVE StateTyped'
  BY <1>5, <1>t DEF StrayDelete, StateTyped, ledger, counters
<1>6. ASSUME NEW o \in Objects, LeaseExpires(o) PROVE StateTyped'
  <2>1. row' \in [Objects -> Row]
    BY <1>6, <1>t, RowExpires DEF LeaseExpires, StateTyped
  <2>2. QED
    BY <1>6, <2>1, <1>t DEF LeaseExpires, StateTyped, counters
<1>7. CASE UNCHANGED vars
  BY <1>7, <1>t DEF vars, ledger, counters, StateTyped
<1>8. QED
  BY <1>1, <1>2, <1>3, <1>4, <1>5, <1>6, <1>7 DEF Next

-----------------------------------------------------------------------------
(* The conjuncts of LedgerInv beside its types. *)

LedgerRest ==
    /\ ReferencedBytesExist /\ RetiredStaysRetired
    /\ DeletesAreDoomed /\ StoredBytesExist /\ CompletionsHoldTheirRows

\* Every step keeps the remaining conjuncts of the invariant.
LEMMA NextLedgerRest == LedgerInv /\ StateTyped' /\ [Next]_vars => LedgerRest'
<1> SUFFICES ASSUME LedgerInv, StateTyped', [Next]_vars PROVE LedgerRest'
    OBVIOUS
<1> USE LedgerAssumption, RowsWritten, ProcessesMove
    DEF LedgerInv, LedgerRest, ReferencedBytesExist, RetiredStaysRetired,
        DeletesAreDoomed, Doomed, StoredBytesExist, CompletionsHoldTheirRows,
        Committing
<1>t. StateTyped
  OBVIOUS
<1>1. ASSUME NEW j \in Jobs, JobStep(j) PROVE LedgerRest'
  BY <1>1, <1>t DEF JobStep, retry_job, terminalize_job, requeue_generation,
                    StateTyped, ledger, counters
<1>2. ASSUME NEW w \in Writers, WriterStep(w) PROVE LedgerRest'
  <2>1. CASE claim_job(w)
    BY <2>1, <1>t DEF claim_job, StateTyped, ledger, counters
  <2>2. CASE reserve_batch(w)
    <3>1. \A o \in Objects :
            \/ row'[o].state = row[o].state
            \/ o \notin tombstones /\ row[o].state = "absent" /\ row'[o].state = "reserved"
      <4> TAKE o \in Objects
      <4>1. CASE o \in Batch[w] /\ row[o].state # "committed"
        <5>1. row'[o] = ReservedRow(w) /\ Reservable(w, o)
          BY <2>2, <4>1 DEF reserve_batch
        <5>2. QED
          BY <5>1, <4>1 DEF Reservable
      <4>2. CASE ~(o \in Batch[w] /\ row[o].state # "committed")
        BY <2>2, <4>2 DEF reserve_batch
      <4>3. QED
        BY <4>1, <4>2
    <3>2. \A o \in tombstones : row'[o] = row[o]
      BY <2>2, <1>t DEF reserve_batch, Reservable, StateTyped
    <3>3. \A v \in Writers : /\ writer'[v].stored = writer[v].stored
                             /\ ~Committing(v)'
      BY <2>2, <1>t DEF reserve_batch, GlobalLocked, StateTyped
    <3>4. UNCHANGED <<tombstones, references, bytes, stray, reaper>>
      BY <2>2 DEF reserve_batch
    <3>5. RetiredStaysRetired'
      BY <3>2, <3>4
    <3>6. DeletesAreDoomed'
      <4>1. \A o \in Objects : Doomed(o) => Doomed(o)'
        BY <3>1, <3>4
      <4>2. QED
        BY <4>1, <3>4, <1>t DEF StateTyped, ReaperRow
    <3>7. StoredBytesExist'
      <4>1. \A o \in Objects : row'[o].state = "committed" => row[o].state = "committed"
        BY <3>1
      <4>2. \A o \in Objects : row[o].state = "reaping" => row'[o].state = "reaping"
        BY <3>1
      <4>3. \A v \in Writers : writer[v].stored \subseteq Objects
        BY <1>t DEF StateTyped, WriterRow
      <4>4. QED
        BY <4>1, <4>2, <4>3, <3>3, <3>4
    <3>8. QED
      BY <3>3, <3>4, <3>5, <3>6, <3>7
  <2>3. ASSUME NEW o \in Batch[w], store_object(w, o) PROVE LedgerRest'
    <3>1. o \in Objects
      BY <2>3
    <3>2. \A v \in Writers : /\ writer'[v].stored \subseteq writer[v].stored \cup {o}
                             /\ Committing(v)' => writer'[v] = writer[v]
      BY <2>3, <3>1, <1>t DEF store_object, StateTyped
    <3>3. /\ bytes' = bytes \cup {o}
          /\ UNCHANGED <<row, tombstones, references, stray, reaper>>
      BY <2>3 DEF store_object, ledger
    <3>4. StoredBytesExist'
      BY <3>2, <3>3
    <3>5. CompletionsHoldTheirRows'
      BY <3>2, <3>3
    <3>6. QED
      BY <3>3, <3>4, <3>5
  <2>4. CASE commit_batch(w)
    BY <2>4, <1>t, SMTT(30) DEF commit_batch, Committable, StateTyped, ledger, counters
  <2>5. CASE commit_transaction(w)
    <3>1. \A o \in Batch[w] : /\ o \in Objects /\ o \in bytes /\ o \notin tombstones
                              /\ row[o].state \in {"reserved", "committed"}
                              /\ row'[o].state = "committed"
      <4>0. Committing(w) /\ Batch[w] \subseteq Objects
        BY <2>5 DEF commit_transaction
      <4>1. \A o \in Batch[w] : /\ o \in bytes /\ o \notin tombstones
                                /\ row[o].state \in {"reserved", "committed"}
        <5>1. \A o \in Batch[w] : o \in writer[w].stored /\ row[o].state \in {"reserved", "committed"}
          BY <4>0
        <5>2. \A o \in tombstones : row[o].state = "absent"
          OBVIOUS
        <5>3. \A o \in writer[w].stored : o \in bytes \/ row[o].state = "reaping" \/ o \in tombstones
          OBVIOUS
        <5>4. QED
          BY <5>1, <5>2, <5>3
      <4>2. \A o \in Batch[w] : row'[o] = IF row[o].state = "reserved" THEN CommittedRow ELSE row[o]
        BY <2>5, <4>0 DEF commit_transaction, MovedObjects
      <4>. QED BY <4>0, <4>1, <4>2
    <3>2. \A o \in Objects \ Batch[w] : row'[o] = row[o]
      BY <2>5 DEF commit_transaction, MovedObjects
    <3>3. \A v \in Writers : /\ writer'[v].stored = writer[v].stored
                             /\ Committing(v)' => Committing(v)
      BY <2>5, <1>t DEF commit_transaction, StateTyped
    <3>4. /\ references' = references \cup Batch[w]
          /\ UNCHANGED <<tombstones, bytes, stray, reaper>>
      BY <2>5 DEF commit_transaction
    <3>5. ReferencedBytesExist' /\ RetiredStaysRetired'
      BY <3>1, <3>2, <3>4, <1>t DEF StateTyped
    <3>6. DeletesAreDoomed'
      <4>1. \A o \in Objects : Doomed(o) => Doomed(o)'
        BY <3>1, <3>2, <3>4
      <4>2. QED
        BY <4>1, <3>4, <1>t DEF StateTyped, ReaperRow
    <3>7. StoredBytesExist'
      BY <3>1, <3>2, <3>3, <3>4, <1>t DEF StateTyped, WriterRow
    <3>8. CompletionsHoldTheirRows'
      BY <3>1, <3>2, <3>3
    <3>9. QED
      BY <3>5, <3>6, <3>7, <3>8
  <2>6. CASE writer_fails(w)
    BY <2>6, <1>t DEF writer_fails, StateTyped, ledger, counters
  <2>7. QED
    BY <1>2, <2>1, <2>2, <2>3, <2>4, <2>5, <2>6 DEF WriterStep
<1>3. ASSUME NEW r \in Reapers, NEW o \in Objects, ReapStep(r, o) PROVE LedgerRest'
  <2>1. ASSUME NEW m \in {"reserved", "committed"}, claim_reap_scan(r, o, m)
        PROVE  LedgerRest'
    BY <2>1, <1>t DEF claim_reap_scan, StateTyped, ledger, counters
  <2>2. CASE claim_reap_lock(r, o)
    <3>1. UNCHANGED <<tombstones, references, bytes, stray, writer>>
      BY <2>2 DEF claim_reap_lock
    <3>2. \A p \in Objects : \/ row'[p] = row[p]
                             \/ /\ p = o /\ row'[p].state = "reaping"
                                /\ ~ObjectLocked(p) /\ p \notin tombstones
      BY <2>2, <1>t DEF claim_reap_lock, Candidate, StateTyped
    <3>3. \A q \in Reapers : \/ reaper'[q] = reaper[q]
                             \/ reaper'[q].pc \in {"idle", "claimed"}
      BY <2>2, <1>t DEF claim_reap_lock, StateTyped
    <3>4. RetiredStaysRetired'
      BY <3>1, <3>2, <1>t DEF StateTyped
    <3>5. DeletesAreDoomed'
      <4>1. \A p \in Objects : Doomed(p) => Doomed(p)'
        BY <3>1, <3>2
      <4>2. QED
        BY <4>1, <3>1, <3>3, <1>t DEF StateTyped, ReaperRow
    <3>6. StoredBytesExist'
      <4>1. \A p \in Objects : row'[p].state = "committed" => p \in bytes'
        BY <3>1, <3>2
      <4>2. ASSUME NEW w \in Writers, NEW p \in writer'[w].stored
            PROVE  p \in bytes' \/ row'[p].state = "reaping" \/ p \in tombstones'
        <5>1. p \in Objects /\ p \in writer[w].stored
          BY <3>1, <4>2 DEF StateTyped, WriterRow
        <5>2. QED
          BY <5>1, <3>1, <3>2
      <4>3. QED
        BY <4>1, <4>2
    <3>7. CompletionsHoldTheirRows'
      BY <3>1, <3>2 DEF ObjectLocked
    <3>8. QED
      BY <3>1, <3>4, <3>5, <3>6, <3>7
  <2>3. CASE reap_preflight(r, o)
    BY <2>3, <1>t DEF reap_preflight, HoldsClaim, Protected, StateTyped, ledger, counters
  <2>4. CASE delete_object(r, o)
    <3>1. Doomed(o)
      BY <2>4 DEF delete_object
    <3>2. /\ bytes \ {o} \subseteq bytes' /\ stray' \subseteq stray \cup {o}
          /\ UNCHANGED <<row, tombstones, references, writer>>
      BY <2>4 DEF delete_object, ledger
    <3>3. \A q \in Reapers : reaper'[q] = reaper[q] \/ reaper'[q].object = {o}
      <4>1. \E pc \in {"confirming", "confirmed"} :
              reaper' = [reaper EXCEPT ![r] = At(reaper[r], pc)]
        <5>1. CASE o \in bytes
          BY <2>4, <5>1 DEF delete_object
        <5>2. CASE o \notin bytes
          BY <2>4, <5>2 DEF delete_object
        <5>3. QED
          BY <5>1, <5>2
      <4>2. PICK pc \in {"confirming", "confirmed"} :
              reaper' = [reaper EXCEPT ![r] = At(reaper[r], pc)]
        BY <4>1
      <4>3. reaper'[r].object = {o}
        <5>1. reaper[r] \in ReaperRow /\ reaper'[r] = At(reaper[r], pc)
          BY <4>2, <1>t DEF StateTyped
        <5>2. At(reaper[r], pc).object = reaper[r].object
          BY <5>1, ProcessesMove
        <5>3. reaper[r].object = {o}
          BY <2>4 DEF delete_object
        <5>4. QED
          BY <5>1, <5>2, <5>3
      <4>4. QED
        BY <4>2, <4>3, <1>t DEF StateTyped
    <3>4. ReferencedBytesExist' /\ RetiredStaysRetired' /\ CompletionsHoldTheirRows'
      BY <3>1, <3>2
    <3>5. DeletesAreDoomed'
      BY <3>1, <3>2, <3>3
    <3>6. StoredBytesExist'
      BY <3>1, <3>2
    <3>7. QED
      BY <3>4, <3>5, <3>6
  <2>5. CASE delete_object_fails(r, o)
    BY <2>5, <1>t, ZenonT(30) DEF delete_object_fails, StateTyped, ledger, counters
  <2>6. CASE confirm_missing(r, o)
    BY <2>6, <1>t DEF confirm_missing, StateTyped, ledger, counters
  <2>7. CASE finalize_reap(r, o)
    <3>1. UNCHANGED <<references, bytes, stray, writer>>
      BY <2>7 DEF finalize_reap
    <3>2. \A q \in Reapers : reaper'[q] = reaper[q] \/ reaper'[q].pc = "idle"
      BY <2>7, <1>t DEF finalize_reap, StateTyped
    <3>3. CASE UNCHANGED <<row, tombstones>>
      BY <3>1, <3>2, <3>3
    <3>4. CASE HoldsClaim(r, o) /\ ~Protected(o)
      <4>1. /\ o \notin references /\ row[o].state = "reaping"
            /\ tombstones' = tombstones \cup {o}
            /\ row' = [row EXCEPT ![o] = AbsentRow]
        BY <2>7, <3>4 DEF finalize_reap, HoldsClaim, Protected
      <4>2. /\ row'[o] = AbsentRow
            /\ \A p \in Objects \ {o} : row'[p] = row[p]
        BY <4>1, <1>t DEF StateTyped
      <4>3. ReferencedBytesExist' /\ RetiredStaysRetired'
        BY <3>1, <4>1, <4>2, <1>t DEF StateTyped
      <4>4. DeletesAreDoomed'
        <5>1. \A p \in Objects : Doomed(p) => Doomed(p)'
          BY <3>1, <4>1, <4>2
        <5>2. QED
          BY <5>1, <3>1, <3>2, <1>t DEF StateTyped, ReaperRow
      <4>5. StoredBytesExist'
        BY <3>1, <4>1, <4>2, <1>t DEF StateTyped, WriterRow
      <4>6. CompletionsHoldTheirRows'
        BY <3>1, <4>1, <4>2
      <4>7. QED
        BY <4>3, <4>4, <4>5, <4>6
    <3>5. QED
      BY <2>7, <3>3, <3>4 DEF finalize_reap, ledger
  <2>8. QED
    BY <1>3, <2>1, <2>2, <2>3, <2>4, <2>5, <2>6, <2>7 DEF ReapStep
<1>4. ASSUME NEW r \in Reapers, reaper_crash(r) PROVE LedgerRest'
  BY <1>4, <1>t DEF reaper_crash, StateTyped, ledger, counters
<1>5. ASSUME NEW o \in Objects, StrayDelete(o) PROVE LedgerRest'
  BY <1>5, <1>t DEF StrayDelete, StateTyped, ledger, counters
<1>6. ASSUME NEW o \in Objects, LeaseExpires(o) PROVE LedgerRest'
  BY <1>6, <1>t, RowExpires DEF LeaseExpires, StateTyped, counters
<1>7. CASE UNCHANGED vars
  BY <1>7, <1>t DEF vars, ledger, counters, StateTyped
<1>8. QED
  BY <1>1, <1>2, <1>3, <1>4, <1>5, <1>6, <1>7 DEF Next

-----------------------------------------------------------------------------
(* The theorems *)

\* The inductive invariant holds in every reachable state.
LEMMA LedgerInvariant == Spec => []LedgerInv
<1>1. LedgerInv /\ [Next]_vars => LedgerInv'
  BY NextStateTyped, NextLedgerRest DEF LedgerInv, LedgerRest
<1>2. QED
  BY <1>1, InitLedgerInv, PTL DEF Spec

\* Whatever writers, reapers, crashes, expired claims and delayed DELETEs interleave
\* (commit_batch, claim_reap, reap_storage_claim, finalize_reap), the object store
\* holds every object a domain row refers to.
THEOREM ReferencesAreSafe == Spec => []ReferencedBytesExist
BY LedgerInvariant, PTL DEF LedgerInv

\* A key with a tombstone (finalize_reap) is never bound or referenced again.
THEOREM RetirementIsFinal == Spec => []RetiredStaysRetired
BY LedgerInvariant, PTL DEF LedgerInv

\* No step takes a row from reaping back to a writer: it leaves reaping only when
\* finalize_reap replaces it by a tombstone.
THEOREM ReapingNeverReturns == Spec => ReapingIsOneWay
<1>1. LedgerInv /\ [Next]_vars =>
        [\A o \in Objects :
            row[o].state = "reaping" /\ row'[o].state # "reaping"
            => row'[o].state = "absent" /\ o \in tombstones']_vars
  <2> SUFFICES ASSUME LedgerInv, Next,
                      NEW o \in Objects, row[o].state = "reaping",
                      row'[o].state # "reaping"
               PROVE  row'[o].state = "absent" /\ o \in tombstones'
    OBVIOUS
  <2> USE RowsWritten, LedgerAssumption DEF LedgerInv
  <2>1. ASSUME NEW j \in Jobs, JobStep(j) PROVE FALSE
    BY <2>1 DEF JobStep, retry_job, terminalize_job, requeue_generation, ledger
  <2>2. ASSUME NEW w \in Writers, WriterStep(w) PROVE FALSE
    BY <2>2 DEF WriterStep, claim_job, reserve_batch, Reservable, store_object,
                commit_batch, commit_transaction, MovedObjects, writer_fails, ledger
  <2>3. ASSUME NEW r \in Reapers, NEW p \in Objects, ReapStep(r, p)
        PROVE  row'[o].state = "absent" /\ o \in tombstones'
    <3>1. CASE finalize_reap(r, p)
      BY <2>3, <3>1 DEF finalize_reap, ledger, StateTyped
    <3>2. CASE claim_reap_lock(r, p)
      BY <2>3, <3>2 DEF claim_reap_lock, StateTyped
    <3>3. QED
      BY <2>3, <3>1, <3>2 DEF ReapStep, claim_reap_scan, reap_preflight, delete_object,
                              delete_object_fails, confirm_missing, ledger
  <2>4. ASSUME NEW r \in Reapers, reaper_crash(r) PROVE FALSE
    BY <2>4 DEF reaper_crash, ledger
  <2>5. ASSUME NEW p \in Objects, StrayDelete(p) PROVE FALSE
    BY <2>5 DEF StrayDelete, ledger
  <2>6. ASSUME NEW p \in Objects, LeaseExpires(p) PROVE FALSE
    BY <2>6, RowExpires DEF LeaseExpires, StateTyped
  <2>7. QED
    BY <2>1, <2>2, <2>3, <2>4, <2>5, <2>6 DEF Next
<1>2. QED
  BY <1>1, LedgerInvariant, PTL DEF Spec, ReapingIsOneWay

-----------------------------------------------------------------------------
(* Quotas *)

\* Total is the sum of the sizes.
LEMMA TotalIsSum ==
    ASSUME NEW S
    PROVE  Total(S) = SumFunctionOnSet(Size, S)
BY DEF Total, MapThenSumSet, SumFunctionOnSet, FoldFunctionOnSet

\* The objects of one scope are some of the objects.
LEMMA ScopeParts ==
    ASSUME NEW A, NEW B, NEW s \in Scopes
    PROVE  /\ InScope(A, s) \subseteq A
           /\ InScope(A \cup B, s) = InScope(A, s) \cup InScope(B, s)
           /\ InScope(A \ B, s) = InScope(A, s) \ InScope(B, s)
           /\ A \cap B = {} => InScope(A, s) \cap InScope(B, s) = {}
           /\ B \subseteq A => InScope(B, s) \subseteq InScope(A, s)
<1>1. CASE s = Global
  BY <1>1 DEF InScope
<1>2. CASE s # Global
  BY <1>2 DEF InScope
<1>3. QED
  BY <1>1, <1>2

\* The bytes of a finite set of objects, in one scope, are a number.
LEMMA TotalIsNat ==
    ASSUME NEW A \in SUBSET Objects, IsFiniteSet(A), NEW s \in Scopes
    PROVE  Total(InScope(A, s)) \in Nat
<1>1. InScope(A, s) \subseteq A
  BY ScopeParts
<1>2. IsFiniteSet(InScope(A, s)) /\ \A o \in InScope(A, s) : Size[o] \in Nat
  BY <1>1, FS_Subset, LedgerAssumption
<1>3. QED
  BY <1>2, SumIsNat, TotalIsSum

\* Objects that are added are added to the bytes of every scope they are in.
LEMMA TotalsAdd ==
    ASSUME NEW A \in SUBSET Objects, NEW B \in SUBSET Objects,
           IsFiniteSet(A), IsFiniteSet(B), A \cap B = {}, NEW s \in Scopes
    PROVE  Total(InScope(A \cup B, s)) = Total(InScope(A, s)) + Total(InScope(B, s))
<1> DEFINE a == InScope(A, s)
           b == InScope(B, s)
<1>1. a \subseteq A /\ b \subseteq B /\ a \cap b = {} /\ InScope(A \cup B, s) = a \cup b
  <2>1. InScope(A, s) \subseteq A
    BY ScopeParts
  <2>2. b \subseteq B
    BY ScopeParts
  <2>3. InScope(A \cup B, s) = InScope(A, s) \cup InScope(B, s)
    BY ScopeParts
  <2>4. InScope(A, s) \cap InScope(B, s) = {}
    BY <2>1, <2>2
  <2>5. QED
    BY <2>1, <2>2, <2>3, <2>4
<1>2. IsFiniteSet(a) /\ IsFiniteSet(b) /\ \A o \in a \cup b : Size[o] \in Int
  BY <1>1, FS_Subset, LedgerAssumption
<1> HIDE DEF a, b
<1>3. SumFunctionOnSet(Size, a \cup b) = SumFunctionOnSet(Size, a) + SumFunctionOnSet(Size, b)
  BY <1>1, <1>2, SumsAdd
<1>4. QED
  BY <1>1, <1>3, TotalIsSum DEF a, b

\* Objects that are removed are taken off the bytes of every scope they are in.
LEMMA TotalsSubtract ==
    ASSUME NEW A \in SUBSET Objects, NEW B \in SUBSET A, IsFiniteSet(A), NEW s \in Scopes
    PROVE  Total(InScope(A \ B, s)) = Total(InScope(A, s)) - Total(InScope(B, s))
<1> DEFINE a == InScope(A, s)
           b == InScope(B, s)
<1>0. B \subseteq A
  OBVIOUS
<1>1. a \subseteq A /\ b \subseteq a /\ InScope(A \ B, s) = a \ b
  BY <1>0, ScopeParts, Zenon
<1>2. IsFiniteSet(a) /\ \A o \in a : Size[o] \in Int
  BY <1>1, FS_Subset, LedgerAssumption
<1> HIDE DEF a, b
<1>3. SumFunctionOnSet(Size, a \ b) = SumFunctionOnSet(Size, a) - SumFunctionOnSet(Size, b)
  BY <1>1, <1>2, SumsSubtract
<1>4. QED
  BY <1>1, <1>3, TotalIsSum DEF a, b

\* No bytes are accounted for where there is no object.
LEMMA TotalOfNone ==
    ASSUME NEW s \in Scopes
    PROVE  Total(InScope({}, s)) = 0
<1>1. InScope({}, s) = {}
  BY DEF InScope
<1>2. QED
  BY <1>1, SumOfNone, TotalIsSum

\* The rows that are there are accounted under exactly one state each.
LEMMA PresentIsAccounted ==
    StateTyped /\ ClaimsCarryTheirState =>
        /\ Present = Accounted("reserved") \cup Accounted("committed")
        /\ Accounted("reserved") \cap Accounted("committed") = {}
        /\ Accounted("reserved") \in SUBSET Objects
        /\ Accounted("committed") \in SUBSET Objects
        /\ Present \in SUBSET Objects
BY DEF StateTyped, ClaimsCarryTheirState, Present, Accounted, Row

\* A step that leaves the accounting of every row alone, and the counters, leaves the
\* quotas alone.
LEMMA AccountingKept ==
    ASSUME QuotaInv, ClaimsCarryTheirState', UNCHANGED <<reserved, committed>>,
           Accounted("reserved")' = Accounted("reserved"),
           Accounted("committed")' = Accounted("committed"),
           Present' = Present
    PROVE  QuotaInv'
BY DEF QuotaInv, CountersMatchLedger, CountersFitQuota

\* The counters after objects that were absent have been reserved.
LEMMA ReservedMore ==
    ASSUME StateTyped, QuotaInv, StateTyped', ClaimsCarryTheirState',
           NEW A \in SUBSET Objects, IsFiniteSet(A), A \cap Present = {},
           FitsQuota(A),
           reserved' = [s \in Scopes |-> reserved[s] + Total(InScope(A, s))],
           committed' = committed,
           Accounted("reserved")' = Accounted("reserved") \cup A,
           Accounted("committed")' = Accounted("committed")
    PROVE  QuotaInv'
<1> DEFINE R == Accounted("reserved")
           C == Accounted("committed")
<1>1. Present = R \cup C /\ R \in SUBSET Objects /\ C \in SUBSET Objects
  BY PresentIsAccounted DEF QuotaInv
<1>2. IsFiniteSet(Present) /\ IsFiniteSet(R)
  BY <1>1, FS_Subset DEF QuotaInv
<1>3. Present' = Present \cup A
  <2>1. Present' = Accounted("reserved")' \cup Accounted("committed")'
    BY DEF StateTyped, ClaimsCarryTheirState, Present, Accounted, Row
  <2>2. QED
    BY <1>1, <2>1
<1>4. IsFiniteSet(Present')
  BY <1>2, <1>3, FS_Union
<1>5. \A s \in Scopes : Total(InScope(A, s)) \in Nat
  BY TotalIsNat
<1>6. \A s \in Scopes :
        Total(InScope(R \cup A, s)) = Total(InScope(R, s)) + Total(InScope(A, s))
  BY <1>1, <1>2, TotalsAdd
<1>7. reserved' \in [Scopes -> Int] /\ committed' \in [Scopes -> Int]
  BY <1>5 DEF QuotaInv
<1>8. CountersMatchLedger'
  BY <1>6 DEF QuotaInv, CountersMatchLedger
<1>9. CountersFitQuota'
  <2> SUFFICES ASSUME NEW s \in Scopes
               PROVE  reserved'[s] + committed'[s] <= Limit[s]
    BY DEF CountersFitQuota
  <2>1. reserved[s] \in Int /\ committed[s] \in Int /\ Total(InScope(A, s)) \in Int
        /\ Limit[s] \in Int
    BY <1>5, LedgerAssumption DEF QuotaInv
  <2>2. reserved[s] + committed[s] + Total(InScope(A, s)) <= Limit[s]
    BY DEF FitsQuota
  <2>3. reserved'[s] = reserved[s] + Total(InScope(A, s)) /\ committed'[s] = committed[s]
    OBVIOUS
  <2>4. QED
    BY <2>1, <2>2, <2>3
<1>10. QED
  BY <1>4, <1>7, <1>8, <1>9 DEF QuotaInv

\* The counters after reserved objects have been committed.
LEMMA CommittedMore ==
    ASSUME StateTyped, QuotaInv, StateTyped', ClaimsCarryTheirState',
           NEW A \in SUBSET Accounted("reserved"),
           reserved' = [s \in Scopes |-> reserved[s] - Total(InScope(A, s))],
           committed' = [s \in Scopes |-> committed[s] + Total(InScope(A, s))],
           Accounted("reserved")' = Accounted("reserved") \ A,
           Accounted("committed")' = Accounted("committed") \cup A
    PROVE  QuotaInv'
<1> DEFINE R == Accounted("reserved")
           C == Accounted("committed")
<1>1. /\ Present = R \cup C /\ R \cap C = {}
      /\ R \in SUBSET Objects /\ C \in SUBSET Objects
  BY PresentIsAccounted DEF QuotaInv
<1>2. IsFiniteSet(Present) /\ IsFiniteSet(R) /\ IsFiniteSet(C) /\ IsFiniteSet(A)
  BY <1>1, FS_Subset DEF QuotaInv
<1>3. Present' = Present
  <2>1. Present' = Accounted("reserved")' \cup Accounted("committed")'
    BY DEF StateTyped, ClaimsCarryTheirState, Present, Accounted, Row
  <2>2. QED
    BY <1>1, <2>1
<1>4. \A s \in Scopes : Total(InScope(A, s)) \in Nat
  BY <1>1, <1>2, TotalIsNat
<1>5. \A s \in Scopes :
        Total(InScope(C \cup A, s)) = Total(InScope(C, s)) + Total(InScope(A, s))
  BY <1>1, <1>2, TotalsAdd
<1>6. \A s \in Scopes :
        Total(InScope(R \ A, s)) = Total(InScope(R, s)) - Total(InScope(A, s))
  BY <1>1, <1>2, TotalsSubtract
<1>7. reserved' \in [Scopes -> Int] /\ committed' \in [Scopes -> Int]
  BY <1>4 DEF QuotaInv
<1>8. CountersMatchLedger'
  BY <1>5, <1>6 DEF QuotaInv, CountersMatchLedger
<1>9. CountersFitQuota'
  <2> SUFFICES ASSUME NEW s \in Scopes
               PROVE  reserved'[s] + committed'[s] <= Limit[s]
    BY DEF CountersFitQuota
  <2>1. reserved[s] \in Int /\ committed[s] \in Int /\ Total(InScope(A, s)) \in Int
    BY <1>4 DEF QuotaInv
  <2>2. reserved[s] + committed[s] <= Limit[s]
    BY DEF QuotaInv, CountersFitQuota
  <2>3. /\ reserved'[s] = reserved[s] - Total(InScope(A, s))
        /\ committed'[s] = committed[s] + Total(InScope(A, s))
    OBVIOUS
  <2>4. reserved'[s] + committed'[s] = reserved[s] + committed[s]
    BY <2>1, <2>3
  <2>5. QED
    BY <2>2, <2>4
<1>10. QED
  BY <1>2, <1>3, <1>7, <1>8, <1>9 DEF QuotaInv

\* The counters after an object has been reaped: from is the accounting state its
\* claim carried, with the counter of that state.
LEMMA ReapedOne ==
    ASSUME StateTyped, QuotaInv, StateTyped', ClaimsCarryTheirState',
           NEW o \in Objects,
           \/ /\ o \in Accounted("reserved")
              /\ reserved' = Debited(reserved, o) /\ committed' = committed
              /\ Accounted("reserved")' = Accounted("reserved") \ {o}
              /\ Accounted("committed")' = Accounted("committed")
           \/ /\ o \in Accounted("committed")
              /\ committed' = Debited(committed, o) /\ reserved' = reserved
              /\ Accounted("committed")' = Accounted("committed") \ {o}
              /\ Accounted("reserved")' = Accounted("reserved")
    PROVE  QuotaInv'
<1> DEFINE R == Accounted("reserved")
           C == Accounted("committed")
<1>1. Present = R \cup C /\ R \in SUBSET Objects /\ C \in SUBSET Objects
  BY PresentIsAccounted DEF QuotaInv
<1>2. IsFiniteSet(Present) /\ IsFiniteSet(R) /\ IsFiniteSet(C) /\ IsFiniteSet({o})
  BY <1>1, FS_Subset, FS_Singleton DEF QuotaInv
<1>3. IsFiniteSet(Present')
  <2>1. Present' = Accounted("reserved")' \cup Accounted("committed")'
    BY DEF StateTyped, ClaimsCarryTheirState, Present, Accounted, Row
  <2>2. Present' \in SUBSET Present
    BY <1>1, <2>1
  <2>3. QED
    BY <1>2, <2>2, FS_Subset
<1>4. \A s \in Scopes : Total(InScope({o}, s)) \in Nat
  BY <1>2, TotalIsNat
<1>5. ASSUME NEW counter \in [Scopes -> Int]
      PROVE  /\ Debited(counter, o) \in [Scopes -> Int]
             /\ \A s \in Scopes : Debited(counter, o)[s] = counter[s] - Total(InScope({o}, s))
  BY <1>4 DEF Debited
<1>6. reserved \in [Scopes -> Int] /\ committed \in [Scopes -> Int]
  BY DEF QuotaInv
<1>7. CASE /\ o \in R
           /\ reserved' = Debited(reserved, o) /\ committed' = committed
           /\ Accounted("reserved")' = R \ {o} /\ Accounted("committed")' = C
  <2>1. \A s \in Scopes :
          Total(InScope(R \ {o}, s)) = Total(InScope(R, s)) - Total(InScope({o}, s))
    BY <1>1, <1>2, <1>7, TotalsSubtract
  <2>2. CountersMatchLedger'
    BY <1>5, <1>6, <1>7, <2>1 DEF QuotaInv, CountersMatchLedger
  <2>3. CountersFitQuota'
    <3> SUFFICES ASSUME NEW s \in Scopes
                 PROVE  reserved'[s] + committed'[s] <= Limit[s]
      BY DEF CountersFitQuota
    <3>1. reserved[s] + committed[s] <= Limit[s] /\ Limit[s] \in Int
      BY LedgerAssumption DEF QuotaInv, CountersFitQuota
    <3>2. /\ reserved'[s] = reserved[s] - Total(InScope({o}, s)) /\ committed'[s] = committed[s]
      BY <1>5, <1>6, <1>7
    <3>3. reserved[s] \in Int /\ committed[s] \in Int /\ Total(InScope({o}, s)) \in Nat
      BY <1>4, <1>6
    <3>4. QED
      BY <3>1, <3>2, <3>3
  <2>4. QED
    BY <1>3, <1>5, <1>6, <1>7, <2>2, <2>3 DEF QuotaInv
<1>8. CASE /\ o \in C
           /\ committed' = Debited(committed, o) /\ reserved' = reserved
           /\ Accounted("committed")' = C \ {o} /\ Accounted("reserved")' = R
  <2>1. \A s \in Scopes :
          Total(InScope(C \ {o}, s)) = Total(InScope(C, s)) - Total(InScope({o}, s))
    BY <1>1, <1>2, <1>8, TotalsSubtract
  <2>2. CountersMatchLedger'
    BY <1>5, <1>6, <1>8, <2>1 DEF QuotaInv, CountersMatchLedger
  <2>3. CountersFitQuota'
    <3> SUFFICES ASSUME NEW s \in Scopes
                 PROVE  reserved'[s] + committed'[s] <= Limit[s]
      BY DEF CountersFitQuota
    <3>1. reserved[s] + committed[s] <= Limit[s] /\ Limit[s] \in Int
      BY LedgerAssumption DEF QuotaInv, CountersFitQuota
    <3>2. /\ committed'[s] = committed[s] - Total(InScope({o}, s)) /\ reserved'[s] = reserved[s]
      BY <1>5, <1>6, <1>8
    <3>3. reserved[s] \in Int /\ committed[s] \in Int /\ Total(InScope({o}, s)) \in Nat
      BY <1>4, <1>6
    <3>4. QED
      BY <3>1, <3>2, <3>3
  <2>4. QED
    BY <1>3, <1>5, <1>6, <1>8, <2>2, <2>3 DEF QuotaInv
<1>9. QED
  BY <1>7, <1>8

\* What the functions write into the columns the quotas depend on.
LEMMA ColumnsWritten ==
    /\ AbsentRow.state = "absent" /\ CommittedRow.state = "committed"
    /\ \A w : ReservedRow(w).state = "reserved"
    /\ \A r, m : /\ ReapingRow(r, m).state = "reaping" /\ ReapingRow(r, m).holder = r
                 /\ ReapingRow(r, m).marker = m
    /\ \A p \in Row : /\ Expired(p).state = p.state /\ Expired(p).holder = p.holder
                      /\ Expired(p).marker = p.marker
    /\ \A p \in ReaperRow :
          \A pc \in {"claimed", "deleting", "confirming", "confirmed"} :
              At(p, pc).object = p.object /\ At(p, pc).marker = p.marker /\ At(p, pc).pc = pc
    /\ IdleReaper.pc = "idle"
BY DEF AbsentRow, CommittedRow, ReservedRow, ReapingRow, Expired, Row, At, ReaperRow, IdleReaper

\* The steps of jobs, writers and the clock leave the claims of reapers as they are.
LEMMA ClaimsUntouched ==
    ASSUME StateTyped, ClaimsCarryTheirState, reaper' = reaper,
           \A o \in Objects :
               \/ row'[o].state # "reaping"
               \/ /\ row'[o].state = row[o].state /\ row'[o].holder = row[o].holder
                  /\ row'[o].marker = row[o].marker
    PROVE  ClaimsCarryTheirState'
BY DEF ClaimsCarryTheirState

\* A reaper that forgets its claim, or one step further in it, changes no claim.
LEMMA ReaperMoves ==
    ASSUME StateTyped, ClaimsCarryTheirState, NEW r \in Reapers,
           NEW p \in {IdleReaper} \cup
                     {At(reaper[r], pc) : pc \in {"deleting", "confirming", "confirmed"}},
           p = IdleReaper \/ reaper[r].pc \notin {"idle", "scanned"},
           reaper' = [reaper EXCEPT ![r] = p], row' = row
    PROVE  ClaimsCarryTheirState'
<1>1. reaper[r] \in ReaperRow /\ reaper \in [Reapers -> ReaperRow]
  BY DEF StateTyped
<1>2. \/ p.pc = "idle"
      \/ /\ p.object = reaper[r].object /\ p.marker = reaper[r].marker
         /\ reaper[r].pc \notin {"idle", "scanned"}
  BY <1>1, ColumnsWritten
<1>3. \A q \in Reapers : reaper'[q] = IF q = r THEN p ELSE reaper[q]
  BY <1>1
<1>4. QED
  BY <1>2, <1>3 DEF ClaimsCarryTheirState

\* Every step keeps the accounting state of claims: claim_reap carries over the state
\* of the row or of the expired claim it takes over.
LEMMA ClaimsNext ==
    ASSUME StateTyped, ClaimsCarryTheirState, [Next]_vars
    PROVE  ClaimsCarryTheirState'
<1>t. row \in [Objects -> Row] /\ reaper \in [Reapers -> ReaperRow]
  BY DEF StateTyped
<1>1. ASSUME NEW j \in Jobs, JobStep(j) PROVE ClaimsCarryTheirState'
  BY <1>1, ClaimsUntouched DEF JobStep, retry_job, terminalize_job, requeue_generation, ledger
<1>2. ASSUME NEW w \in Writers, WriterStep(w) PROVE ClaimsCarryTheirState'
  <2>1. CASE reserve_batch(w)
    <3>1. \A o \in Objects : row'[o] = row[o] \/ row'[o].state = "reserved"
      BY <2>1, ColumnsWritten DEF reserve_batch
    <3>2. QED
      BY <2>1, <3>1, ClaimsUntouched DEF reserve_batch
  <2>2. CASE commit_transaction(w)
    <3>1. \A o \in Objects : row'[o] = row[o] \/ row'[o].state = "committed"
      BY <2>2, ColumnsWritten DEF commit_transaction
    <3>2. QED
      BY <2>2, <3>1, ClaimsUntouched DEF commit_transaction
  <2>3. QED
    BY <1>2, <2>1, <2>2, ClaimsUntouched
       DEF WriterStep, claim_job, store_object, commit_batch, writer_fails, ledger
<1>3. ASSUME NEW r \in Reapers, NEW o \in Objects, ReapStep(r, o) PROVE ClaimsCarryTheirState'
  <2>1. CASE \E marker \in {"reserved", "committed"} : claim_reap_scan(r, o, marker)
    <3>1. PICK marker \in {"reserved", "committed"} : claim_reap_scan(r, o, marker)
      BY <2>1
    <3>2. row' = row /\ \A q \in Reapers : reaper'[q] = reaper[q] \/ reaper'[q].pc = "scanned"
      BY <3>1, <1>t DEF claim_reap_scan, ledger
    <3>3. QED
      BY <3>2 DEF ClaimsCarryTheirState
  <2>2. CASE claim_reap_lock(r, o)
    <3>1. CASE ~ObjectLocked(o) /\ Candidate(o, reaper[r].marker)
      <4> DEFINE m == reaper[r].marker
      <4>1. m \in {"reserved", "committed"}
        BY <3>1, <1>t DEF Candidate, ClaimsCarryTheirState
      <4>2. /\ row' = [row EXCEPT ![o] = ReapingRow(r, m)]
            /\ reaper' = [reaper EXCEPT ![r] = At(reaper[r], "claimed")]
            /\ reaper[r].object = {o}
        BY <2>2, <3>1 DEF claim_reap_lock
      <4>3. /\ row'[o].state = "reaping" /\ row'[o].holder = r /\ row'[o].marker = m
            /\ \A p \in Objects \ {o} : row'[p] = row[p]
        BY <4>2, <1>t, ColumnsWritten
      <4>4. /\ reaper'[r].object = {o} /\ reaper'[r].marker = m
            /\ \A q \in Reapers \ {r} : reaper'[q] = reaper[q]
        BY <4>2, <1>t, ColumnsWritten
      <4> HIDE DEF m
      <4>5. QED
        BY <4>1, <4>3, <4>4 DEF ClaimsCarryTheirState
    <3>2. CASE ~(~ObjectLocked(o) /\ Candidate(o, reaper[r].marker))
      <4>1. row' = row /\ reaper' = [reaper EXCEPT ![r] = IdleReaper]
        BY <2>2, <3>2 DEF claim_reap_lock
      <4>2. QED
        BY <4>1, ReaperMoves
    <3>3. QED
      BY <3>1, <3>2
  <2>3. CASE reap_preflight(r, o)
    BY <2>3, ReaperMoves DEF reap_preflight, ledger
  <2>4. CASE delete_object(r, o)
    BY <2>4, ReaperMoves DEF delete_object, ledger
  <2>5. CASE delete_object_fails(r, o)
    BY <2>5, ReaperMoves DEF delete_object_fails, ledger
  <2>6. CASE confirm_missing(r, o)
    BY <2>6, ReaperMoves DEF confirm_missing, ledger
  <2>7. CASE finalize_reap(r, o)
    <3>1. \A p \in Objects : row'[p] = row[p] \/ row'[p].state = "absent"
      BY <2>7, <1>t, ColumnsWritten DEF finalize_reap, ledger
    <3>2. \A q \in Reapers : reaper'[q] = reaper[q] \/ reaper'[q].pc = "idle"
      BY <2>7, <1>t, ColumnsWritten DEF finalize_reap
    <3>3. QED
      BY <3>1, <3>2 DEF ClaimsCarryTheirState
  <2>8. QED
    BY <1>3, <2>1, <2>2, <2>3, <2>4, <2>5, <2>6, <2>7 DEF ReapStep
<1>4. ASSUME NEW r \in Reapers, reaper_crash(r) PROVE ClaimsCarryTheirState'
  BY <1>4, ReaperMoves DEF reaper_crash, ledger
<1>5. ASSUME NEW o \in Objects, StrayDelete(o) PROVE ClaimsCarryTheirState'
  BY <1>5, ClaimsUntouched DEF StrayDelete, ledger
<1>6. ASSUME NEW o \in Objects, LeaseExpires(o) PROVE ClaimsCarryTheirState'
  <2>1. \A p \in Objects : /\ row'[p].state = row[p].state /\ row'[p].holder = row[p].holder
                           /\ row'[p].marker = row[p].marker
    BY <1>6, <1>t, ColumnsWritten DEF LeaseExpires
  <2>2. QED
    BY <1>6, <2>1, ClaimsUntouched DEF LeaseExpires
<1>7. CASE UNCHANGED vars
  BY <1>7, ClaimsUntouched DEF vars, ledger
<1>8. QED
  BY <1>1, <1>2, <1>3, <1>4, <1>5, <1>6, <1>7 DEF Next

\* A step that changes neither the counters nor the accounting columns of a row.
LEMMA ColumnsKept ==
    ASSUME QuotaInv, ClaimsCarryTheirState', UNCHANGED <<reserved, committed>>,
           \A o \in Objects : row'[o].state = row[o].state /\ row'[o].marker = row[o].marker
    PROVE  QuotaInv'
<1>1. /\ Accounted("reserved")' = Accounted("reserved")
      /\ Accounted("committed")' = Accounted("committed") /\ Present' = Present
  BY DEF Accounted, Present
<1>2. QED
  BY <1>1, AccountingKept

\* A claim moves an object between accounting columns that count the same.
LEMMA ClaimKeepsAccounting ==
    ASSUME StateTyped, QuotaInv, ClaimsCarryTheirState', NEW r \in Reapers, NEW o \in Objects,
           claim_reap_lock(r, o)
    PROVE  QuotaInv'
<1>t. row \in [Objects -> Row]
  BY DEF StateTyped
<1>1. CASE ~ObjectLocked(o) /\ Candidate(o, reaper[r].marker)
  <2> DEFINE m == reaper[r].marker
  <2>1. row' = [row EXCEPT ![o] = ReapingRow(r, m)] /\ UNCHANGED <<reserved, committed>>
    BY <1>1 DEF claim_reap_lock, counters
  <2>2. /\ row'[o].state = "reaping" /\ row'[o].marker = m
        /\ \A p \in Objects \ {o} : row'[p] = row[p]
    BY <2>1, <1>t, ColumnsWritten
  <2>3. /\ m \in {"reserved", "committed"}
        /\ row[o].state = m \/ (row[o].state = "reaping" /\ row[o].marker = m)
    <3>1. Candidate(o, m)
      BY <1>1
    <3>2. row[o].state = "reaping" => row[o].marker \in {"reserved", "committed"}
      BY DEF QuotaInv, ClaimsCarryTheirState
    <3> HIDE DEF m
    <3>3. QED
      BY <3>1, <3>2 DEF Candidate
  <2> HIDE DEF m
  <2>4. row[o].state \in {m, "reaping"} /\ (row[o].state = "reaping" => row[o].marker = m)
    BY <2>3
  <2>5. Accounted("reserved")' = Accounted("reserved")
    BY <2>2, <2>3, <2>4 DEF Accounted
  <2>6. Accounted("committed")' = Accounted("committed")
    BY <2>2, <2>3, <2>4 DEF Accounted
  <2>7. Present' = Present
    BY <2>2, <2>3, <2>4 DEF Present
  <2>8. QED
    BY <2>1, <2>5, <2>6, <2>7, AccountingKept
<1>2. CASE ~(~ObjectLocked(o) /\ Candidate(o, reaper[r].marker))
  BY <1>2, ColumnsKept DEF claim_reap_lock, counters
<1>3. QED
  BY <1>1, <1>2

\* finalize_reap debits the counter under which the row was accounted.
LEMMA FinalizeKeepsAccounting ==
    ASSUME StateTyped, QuotaInv, StateTyped', ClaimsCarryTheirState',
           NEW r \in Reapers, NEW o \in Objects, finalize_reap(r, o)
    PROVE  QuotaInv'
<1>t. row \in [Objects -> Row]
  BY DEF StateTyped
<1>1. CASE HoldsClaim(r, o) /\ ~Protected(o)
  <2>1. row[o].state = "reaping" /\ row[o].marker = reaper[r].marker
    BY <1>1 DEF HoldsClaim, finalize_reap, QuotaInv, ClaimsCarryTheirState
  <2>2. row[o].marker \in {"reserved", "committed"}
    BY <2>1 DEF QuotaInv, ClaimsCarryTheirState
  <2>3. /\ row'[o].state = "absent"
        /\ \A p \in Objects \ {o} : row'[p] = row[p]
    BY <1>1, <1>t, ColumnsWritten DEF finalize_reap
  <2>4. CASE row[o].marker = "reserved"
    <3>1. reserved' = Debited(reserved, o) /\ committed' = committed
      BY <1>1, <2>1, <2>4 DEF finalize_reap
    <3>2. /\ o \in Accounted("reserved") /\ o \notin Accounted("committed")
          /\ Accounted("reserved")' = Accounted("reserved") \ {o}
          /\ Accounted("committed")' = Accounted("committed")
      BY <2>1, <2>3, <2>4 DEF Accounted
    <3>3. QED
      BY <3>1, <3>2, ReapedOne
  <2>5. CASE row[o].marker = "committed"
    <3>1. committed' = Debited(committed, o) /\ reserved' = reserved
      BY <1>1, <2>1, <2>5 DEF finalize_reap
    <3>2. /\ o \in Accounted("committed") /\ o \notin Accounted("reserved")
          /\ Accounted("committed")' = Accounted("committed") \ {o}
          /\ Accounted("reserved")' = Accounted("reserved")
      BY <2>1, <2>3, <2>5 DEF Accounted
    <3>3. QED
      BY <3>1, <3>2, ReapedOne
  <2>6. QED
    BY <2>2, <2>4, <2>5
<1>2. CASE ~(HoldsClaim(r, o) /\ ~Protected(o))
  BY <1>2, ColumnsKept DEF finalize_reap, ledger, counters
<1>3. QED
  BY <1>1, <1>2

\* reserve_batch charges the objects that had no row, commit_transaction moves the
\* charge of those that were reserved.
LEMMA WritersKeepAccounting ==
    ASSUME StateTyped, QuotaInv, StateTyped', ClaimsCarryTheirState',
           NEW w \in Writers, WriterStep(w)
    PROVE  QuotaInv'
<1>b. Batch[w] \in SUBSET Objects /\ IsFiniteSet(Batch[w])
  BY LedgerAssumption, BatchesAreFinite
<1>1. CASE reserve_batch(w)
  <2> DEFINE A == NewObjects(w)
  <2>1. A \in SUBSET Objects /\ IsFiniteSet(A) /\ A \cap Present = {}
    <3>1. A \in SUBSET Batch[w]
      BY DEF NewObjects
    <3>2. QED
      BY <3>1, <1>b, FS_Subset DEF NewObjects, Present
  <2>2. \A o \in Objects : row'[o] = IF o \in Batch[w] /\ row[o].state # "committed"
                                     THEN ReservedRow(w) ELSE row[o]
    BY <1>1 DEF reserve_batch
  <2>3. \A o \in Batch[w] : row[o].state \in {"absent", "committed", "reserved"}
    BY <1>1 DEF reserve_batch, Reservable
  <2>4. \A o \in Objects :
           /\ o \in A => row'[o].state = "reserved" /\ row[o].state = "absent"
           /\ o \notin A => \/ row'[o] = row[o]
                            \/ row'[o].state = "reserved" /\ row[o].state = "reserved"
    BY <2>2, <2>3, ColumnsWritten DEF NewObjects
  <2>5. FitsQuota(A) /\ committed' = committed
        /\ reserved' = [s \in Scopes |-> reserved[s] + Total(InScope(A, s))]
    BY <1>1 DEF reserve_batch
  <2> HIDE DEF A
  <2>6. Accounted("reserved")' = Accounted("reserved") \cup A
    BY <2>1, <2>4 DEF Accounted
  <2>7. Accounted("committed")' = Accounted("committed")
    BY <2>1, <2>4 DEF Accounted
  <2>8. QED
    BY <2>1, <2>5, <2>6, <2>7, ReservedMore
<1>2. CASE commit_transaction(w)
  <2> DEFINE A == MovedObjects(w)
  <2>1. A \in SUBSET Accounted("reserved")
    BY <1>b DEF MovedObjects, Accounted
  <2>2. \A o \in Objects : row'[o] = IF o \in A THEN CommittedRow ELSE row[o]
    BY <1>2 DEF commit_transaction
  <2>3. \A o \in Objects : /\ o \in A => row'[o].state = "committed" /\ row[o].state = "reserved"
                           /\ o \notin A => row'[o] = row[o]
    BY <2>2, ColumnsWritten DEF MovedObjects
  <2>4. /\ reserved' = [s \in Scopes |-> reserved[s] - Total(InScope(A, s))]
        /\ committed' = [s \in Scopes |-> committed[s] + Total(InScope(A, s))]
    BY <1>2 DEF commit_transaction
  <2> HIDE DEF A
  <2>5. Accounted("reserved")' = Accounted("reserved") \ A
    BY <2>1, <2>3 DEF Accounted
  <2>6. Accounted("committed")' = Accounted("committed") \cup A
    BY <2>1, <2>3 DEF Accounted
  <2>7. QED
    BY <2>1, <2>4, <2>5, <2>6, CommittedMore
<1>3. QED
  BY <1>1, <1>2, ColumnsKept
     DEF WriterStep, claim_job, store_object, commit_batch, writer_fails, ledger, counters

\* Every step keeps the quotas exact.
LEMMA QuotaNext ==
    StateTyped /\ StateTyped' /\ QuotaInv /\ [Next]_vars => QuotaInv'
<1> SUFFICES ASSUME StateTyped, StateTyped', QuotaInv, [Next]_vars PROVE QuotaInv'
  OBVIOUS
<1>c. ClaimsCarryTheirState'
  BY ClaimsNext DEF QuotaInv
<1>t. row \in [Objects -> Row]
  BY DEF StateTyped
<1>1. ASSUME NEW j \in Jobs, JobStep(j) PROVE QuotaInv'
  BY <1>1, <1>c, ColumnsKept
     DEF JobStep, retry_job, terminalize_job, requeue_generation, ledger, counters
<1>2. ASSUME NEW w \in Writers, WriterStep(w) PROVE QuotaInv'
  BY <1>2, <1>c, WritersKeepAccounting
<1>3. ASSUME NEW r \in Reapers, NEW o \in Objects, ReapStep(r, o) PROVE QuotaInv'
  <2>1. CASE claim_reap_lock(r, o)
    BY <2>1, <1>c, ClaimKeepsAccounting
  <2>2. CASE finalize_reap(r, o)
    BY <2>2, <1>c, FinalizeKeepsAccounting
  <2>3. QED
    BY <1>3, <1>c, <2>1, <2>2, ColumnsKept
       DEF ReapStep, claim_reap_scan, reap_preflight, delete_object, delete_object_fails,
           confirm_missing, ledger, counters
<1>4. ASSUME NEW r \in Reapers, reaper_crash(r) PROVE QuotaInv'
  BY <1>4, <1>c, ColumnsKept DEF reaper_crash, ledger, counters
<1>5. ASSUME NEW o \in Objects, StrayDelete(o) PROVE QuotaInv'
  BY <1>5, <1>c, ColumnsKept DEF StrayDelete, ledger, counters
<1>6. ASSUME NEW o \in Objects, LeaseExpires(o) PROVE QuotaInv'
  <2>1. \A p \in Objects : row'[p].state = row[p].state /\ row'[p].marker = row[p].marker
    BY <1>6, <1>t, ColumnsWritten DEF LeaseExpires
  <2>2. QED
    BY <1>6, <1>c, <2>1, ColumnsKept DEF LeaseExpires, counters
<1>7. CASE UNCHANGED vars
  BY <1>7, <1>c, ColumnsKept DEF vars, ledger, counters
<1>8. QED
  BY <1>1, <1>2, <1>3, <1>4, <1>5, <1>6, <1>7 DEF Next

\* Empty counters match an empty ledger.
LEMMA QuotaInit == Init => QuotaInv
<1> SUFFICES ASSUME Init PROVE QuotaInv
  OBVIOUS
<1>1. \A o \in Objects : row[o].state = "absent"
  BY ColumnsWritten DEF Init
<1>2. Present = {} /\ Accounted("reserved") = {} /\ Accounted("committed") = {}
  BY <1>1 DEF Present, Accounted
<1>3. reserved = [s \in Scopes |-> 0] /\ committed = [s \in Scopes |-> 0]
  BY DEF Init
<1>4. CountersMatchLedger
  BY <1>2, <1>3, TotalOfNone DEF CountersMatchLedger
<1>5. CountersFitQuota
  BY <1>3, LedgerAssumption DEF CountersFitQuota
<1>6. ClaimsCarryTheirState
  BY <1>1 DEF ClaimsCarryTheirState
<1>7. QED
  BY <1>2, <1>3, <1>4, <1>5, <1>6, FS_EmptySet DEF QuotaInv

\* The rows that exist fit the limits their counters fit.
LEMMA ExactFromCounters == StateTyped /\ QuotaInv => QuotaIsExact
<1> SUFFICES ASSUME StateTyped, QuotaInv PROVE LedgerFitsQuota
  BY DEF QuotaInv, QuotaIsExact
<1> SUFFICES ASSUME NEW s \in Scopes
             PROVE  Total(InScope(Present, s)) <= Limit[s]
  BY DEF LedgerFitsQuota, Present
<1> DEFINE R == Accounted("reserved")
           C == Accounted("committed")
<1>1. /\ Present = R \cup C /\ R \cap C = {}
      /\ R \in SUBSET Objects /\ C \in SUBSET Objects
  BY PresentIsAccounted DEF QuotaInv
<1>2. IsFiniteSet(R) /\ IsFiniteSet(C)
  BY <1>1, FS_Subset DEF QuotaInv
<1>3. Total(InScope(R \cup C, s)) = Total(InScope(R, s)) + Total(InScope(C, s))
  BY <1>1, <1>2, TotalsAdd
<1>4. Total(InScope(Present, s)) = reserved[s] + committed[s]
  BY <1>1, <1>3 DEF QuotaInv, CountersMatchLedger
<1>5. QED
  BY <1>4 DEF QuotaInv, CountersFitQuota

\* For any organisations, sizes, limits, writers and reapers the quota counters are the
\* sums over the rows, and the rows of every scope fit its limit: no reservation,
\* commit, takeover or reap (reserve_batch, commit_batch, finalize_reap) makes them
\* drift.
THEOREM QuotasAreExact == Spec => []QuotaIsExact
<1>1. Spec => []QuotaInv
  <2>1. LedgerInv /\ LedgerInv' => StateTyped /\ StateTyped'
    BY DEF LedgerInv
  <2>2. QED
    BY <2>1, QuotaInit, QuotaNext, LedgerInvariant, PTL DEF Spec
<1>2. LedgerInv => StateTyped
  BY DEF LedgerInv
<1>3. QED
  BY <1>1, <1>2, ExactFromCounters, LedgerInvariant, PTL
=============================================================================
