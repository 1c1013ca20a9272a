------------------------- MODULE ArtifactRouteProofs -------------------------
(***************************************************************************)
(* The artifact routes, for any organisations, requests, objects, sizes,   *)
(* limits and numbers of operations, faults and row changes.               *)
(*                                                                         *)
(* First what a route does inside its guard (ArtifactDownload): the budget *)
(* of transient bytes balances, only verified bytes are served and all of  *)
(* them when a response completes, and no answer rests on rows that were   *)
(* stale when the last storage byte had been checked.                      *)
(*                                                                         *)
(* Then the guard itself (ArtifactOperationLease): it serialises the       *)
(* operations of a tenant, also when two tenants share a lock key.  That   *)
(* argument never mentions Redis: what excludes are the advisory locks,    *)
(* held until the transaction ends.                                        *)
(***************************************************************************)
EXTENDS ArtifactDownload, ArtifactOperationLease, FiniteSums, FiniteSetTheorems, TLAPS

\* What the store, the provider and one operation say.
ObjectRecord == [size : Nat, bytes : {"recorded", "other"}, sha : {"recorded", "other", "none"}]
IORecord == [held : Nat, retained : Nat, body : ObjectRecord, read : Nat,
             expired : BOOLEAN, token : {"none", "open", "closed"}, pos : Nat,
             iterating : BOOLEAN, releasing : {"nobody", "iterator", "response"}]

\* Places in which an operation has not made its token yet, and holds no bytes.
Unreserved == {"open", "body", "put", "verify"}
Fetching == {"open", "get", "reading"}
Retaining == {"siblings", "body", "put", "verify"}
Answering == {"streaming", "ending"}

\* What an operation owns where it is: it keeps retained bytes only while it retains
\* something, the token's bytes only until the winner of close() has given them back,
\* and nothing once it is over.
OwnsItsPlace(p, o, i) ==
    /\ i.releasing # "nobody" => i.token = "closed"
    /\ i.token = "closed" /\ i.releasing = "nobody" => i.held = 0
    /\ p \notin Retaining => i.retained = 0
    /\ p = "idle" => i.token # "open" /\ (i.token = "none" => i.held = 0)
    /\ p \in Unreserved => i.held = 0 /\ i.token = "none"
    /\ p \in {"get", "reading"} => i.token = "none"
    /\ p \in Answering => i.token # "none"
    /\ p \in Fetching => o.route \in {"job", "release", "statement"} /\ o.kind \in Kinds
    /\ p = "retention" /\ o.route = "statement" => i.held = 0 /\ i.token = "none" /\ o.kind \in Kinds
    /\ o.route \in {"list", "list_release"} => i.held = 0 /\ i.token = "none"

\* A token stands for the recorded object, read to its end; before the response it is
\* rewound, and during it the client has what the iterator has passed.
ServesItsSpool(p, o, i, s, r) ==
    /\ i.token # "none" => i.body.bytes = "recorded"
    /\ i.token # "none" /\ p # "idle" => i.read = SizeOf[o.kind]
    /\ p \notin Answering => s = 0
    /\ p \notin Answering \cup {"idle"} /\ i.token # "none" => i.pos = 0
    /\ p = "streaming" => s = i.pos /\ (i.token = "closed" => i.pos = i.read)
    /\ p # "ending" => r = "none"
    /\ p = "ending" /\ r = "complete" => s = SizeOf[o.kind]

SpoolTyped ==
    /\ store \in [Organizations -> [Kinds -> ObjectRecord]]
    /\ io \in [Organizations -> IORecord]
    /\ reserved \in Int
    /\ DOMAIN pc = Organizations /\ DOMAIN op = Organizations
    /\ DOMAIN sent = Organizations /\ DOMAIN result = Organizations

OperationsInPlace ==
    \A t \in Organizations :
        /\ OwnsItsPlace(pc[t], op[t], io[t])
        /\ ServesItsSpool(pc[t], op[t], io[t], sent[t], result[t])

SpoolInv == SpoolTyped /\ OperationsInPlace /\ BudgetBalances

\* Rows only move away from what was generated: what they still say now they said
\* when the last storage byte was checked.
RowRecord == [current : BOOLEAN, approval : {"generated", "renewed"},
              evidence : {"valid", "revoked"}, statement : {"valid", "revoked"},
              uploaded : BOOLEAN]

StillSays(now, then) ==
    /\ now.current => then.current
    /\ now.evidence = "valid" => then.evidence = "valid"
    /\ now.approval = "generated" => then.approval = "generated"
    /\ now.statement = "valid" => then.statement = "valid"

\* What the gates after the last storage byte have established so far.
GatesPassed(p, o, row, machine) ==
    /\ o.route \in {"job", "list"} /\ p \in {"refresh", "profile", "respond", "streaming"}
          => row.evidence = "valid" /\ row.approval = "generated"
    /\ o.route \in {"job", "list"} /\ p \in {"profile", "respond", "streaming"}
          => row.current
    /\ p = "profile" => o.route \in {"job", "list"}
    /\ p \in {"respond", "streaming"} => CurrentFor(o, row, machine)

RowsTyped ==
    /\ rows \in [Organizations -> RowRecord]
    /\ profile \in {"generated", "rotated"}
    /\ atIO \in [Organizations -> [rows : RowRecord, profile : {"generated", "rotated"}]]
    /\ DOMAIN pc = Organizations /\ DOMAIN op = Organizations

AnswersInv ==
    /\ RowsTyped
    /\ \A t \in Organizations :
          /\ StillSays(rows[t], atIO[t].rows)
          /\ profile = "generated" => atIO[t].profile = "generated"
          /\ pc[t] \in Fetching => op[t].route \in {"job", "release", "statement"}
          /\ GatesPassed(pc[t], op[t], atIO[t].rows, atIO[t].profile)

-----------------------------------------------------------------------------
(* Answers are current *)

\* An operation moves to another place, with the same rows remembered.
LEMMA PlaceMoves ==
    ASSUME AnswersInv, NEW t \in Organizations, NEW to,
           UNCHANGED <<rows, profile, op, atIO>>, pc' = [pc EXCEPT ![t] = to],
           to \in Fetching => op[t].route \in {"job", "release", "statement"},
           GatesPassed(to, op[t], atIO[t].rows, atIO[t].profile)
    PROVE  AnswersInv'
<1>1. RowsTyped'
  BY DEF AnswersInv, RowsTyped
<1>2. \A u \in Organizations : pc'[u] = IF u = t THEN to ELSE pc[u]
  BY DEF AnswersInv, RowsTyped
<1>3. QED
  BY <1>1, <1>2 DEF AnswersInv

\* Nothing that answers depend on changes.
LEMMA AnswersStay ==
    ASSUME AnswersInv, UNCHANGED <<rows, profile, op, atIO, pc>>
    PROVE  AnswersInv'
BY DEF AnswersInv, RowsTyped

\* The rows are remembered as they are.
LEMMA RowsRemembered ==
    ASSUME AnswersInv, NEW t \in Organizations, NEW to,
           UNCHANGED <<rows, profile, op>>, pc' = [pc EXCEPT ![t] = to],
           atIO' = [atIO EXCEPT ![t] = [rows |-> rows[t], profile |-> profile]],
           to \notin Fetching,
           GatesPassed(to, op[t], rows[t], profile)
    PROVE  AnswersInv'
<1>1. RowsTyped'
  BY DEF AnswersInv, RowsTyped
<1>2. /\ \A u \in Organizations : pc'[u] = IF u = t THEN to ELSE pc[u]
      /\ \A u \in Organizations \ {t} : atIO'[u] = atIO[u]
      /\ atIO'[t].rows = rows[t] /\ atIO'[t].profile = profile
  BY DEF AnswersInv, RowsTyped
<1>3. StillSays(rows[t], rows[t])
  BY DEF StillSays
<1>4. QED
  BY <1>1, <1>2, <1>3 DEF AnswersInv

\* An operation begins or is over: it has passed no gate yet.
LEMMA NoGatesYet ==
    ASSUME NEW p, p \notin {"refresh", "profile", "respond", "streaming"},
           NEW o, NEW row, NEW machine
    PROVE  GatesPassed(p, o, row, machine)
BY DEF GatesPassed

\* It begins: what the last operation remembered is nothing it answers with.
LEMMA BeginsKeepsAnswers ==
    ASSUME AnswersInv, NEW t \in Organizations, NEW route, NEW k, NEW role,
           NEW to \in {"review", "open", "retention", "body"},
           to = "open" => route \in {"job", "release", "statement"},
           Begins(t, route, k, role, to)
    PROVE  AnswersInv'
<1>1. /\ UNCHANGED <<rows, profile, atIO>> /\ pc' = [pc EXCEPT ![t] = to]
      /\ op' = [op EXCEPT ![t] = [route |-> route, kind |-> k, role |-> role]]
  BY DEF Begins, Proceeds, RowsKept
<1>2. RowsTyped'
  BY <1>1 DEF AnswersInv, RowsTyped
<1>3. /\ \A u \in Organizations : pc'[u] = IF u = t THEN to ELSE pc[u]
      /\ \A u \in Organizations \ {t} : op'[u] = op[u]
      /\ op'[t].route = route
  BY <1>1 DEF AnswersInv, RowsTyped
<1>4. GatesPassed(to, op'[t], atIO'[t].rows, atIO'[t].profile)
  BY NoGatesYet
<1>5. QED
  BY <1>1, <1>2, <1>3, <1>4 DEF AnswersInv, Fetching

\* It is over: the rows it remembered are forgotten.
LEMMA ForgetsKeepsAnswers ==
    ASSUME AnswersInv, NEW t \in Organizations, Forgets(t),
           UNCHANGED profile, pc' = [pc EXCEPT ![t] = "idle"],
           rows' \in [Organizations -> RowRecord],
           \A u \in Organizations \ {t} : rows'[u] = rows[u]
    PROVE  AnswersInv'
<1>1. AsGenerated \in RowRecord
  BY DEF AsGenerated, RowRecord
<1>2. RowsTyped'
  BY <1>1 DEF AnswersInv, RowsTyped, Forgets
<1>3. /\ \A u \in Organizations : pc'[u] = IF u = t THEN "idle" ELSE pc[u]
      /\ \A u \in Organizations \ {t} : atIO'[u] = atIO[u] /\ op'[u] = op[u]
      /\ atIO'[t].rows = AsGenerated /\ atIO'[t].profile = "generated"
  BY DEF AnswersInv, RowsTyped, Forgets
<1>4. StillSays(rows'[t], AsGenerated)
  BY DEF StillSays, AsGenerated
<1>5. GatesPassed("idle", op'[t], AsGenerated, "generated")
  BY NoGatesYet
<1>6. QED
  BY <1>2, <1>3, <1>4, <1>5 DEF AnswersInv, Fetching

\* An exception ends the operation, or leaves it to its response.
LEMMA RaisesKeepsAnswers ==
    ASSUME AnswersInv, NEW t \in Organizations, Raises(t)
    PROVE  AnswersInv'
<1>1. CASE io[t].token = "none"
  <2>1. /\ Forgets(t) /\ UNCHANGED <<rows, profile>> /\ pc' = [pc EXCEPT ![t] = "idle"]
        /\ rows' \in [Organizations -> RowRecord]
    BY <1>1 DEF Raises, RowsKept, AnswersInv, RowsTyped
  <2>2. QED
    BY <2>1, ForgetsKeepsAnswers
<1>2. CASE io[t].token # "none"
  <2>1. UNCHANGED <<rows, profile, op, atIO>> /\ pc' = [pc EXCEPT ![t] = "ending"]
    BY <1>2 DEF Raises, RowsKept
  <2>2. QED
    BY <2>1, PlaceMoves, NoGatesYet DEF Fetching
<1>3. QED
  BY <1>1, <1>2

\* The gates that come after the last storage byte find in the rows what the rows said
\* when that byte was checked.
LEMMA GatesKeepAnswers ==
    ASSUME AnswersInv, NEW t \in Organizations,
           \/ _require_current_bound_job_evidence(t) \/ Refreshes(t) \/ ProfileRechecked(t)
           \/ _verified_artifact_response(t)
    PROVE  AnswersInv'
<1> DEFINE r == atIO[t].rows
           m == atIO[t].profile
<1>t. /\ StillSays(rows[t], r) /\ (profile = "generated" => m = "generated")
      /\ GatesPassed(pc[t], op[t], r, m)
  BY DEF AnswersInv
<1> HIDE DEF r, m
<1>1. CASE _require_current_bound_job_evidence(t)
  <2>1. rows[t].evidence = "valid" /\ rows[t].approval = "generated"
    BY <1>1 DEF _require_current_bound_job_evidence, BindingsCurrent, EvidenceCurrent, ApprovalCurrent
  <2>2. GatesPassed("refresh", op[t], r, m)
    BY <2>1, <1>t DEF GatesPassed, StillSays
  <2>3. UNCHANGED <<rows, profile, op, atIO>> /\ pc' = [pc EXCEPT ![t] = "refresh"]
    BY <1>1 DEF _require_current_bound_job_evidence, Proceeds, Same, RowsKept
  <2>4. QED
    BY <2>2, <2>3, PlaceMoves DEF Fetching, r, m
<1>2. CASE Refreshes(t)
  <2>0. UNCHANGED <<rows, profile, op, atIO>> /\ pc[t] = "refresh" /\ RefreshedFits(t)
    BY <1>2 DEF Refreshes, Proceeds, Same, RowsKept
  <2>1. CASE op[t].route \in {"list", "job"}
    <3>1. rows[t].current /\ pc' = [pc EXCEPT ![t] = "profile"]
      BY <1>2, <2>0, <2>1 DEF Refreshes, Proceeds, RefreshedFits, FreshVersion
    <3>2. GatesPassed("profile", op[t], r, m)
      BY <2>0, <2>1, <3>1, <1>t DEF GatesPassed, StillSays
    <3>3. QED
      BY <2>0, <3>1, <3>2, PlaceMoves DEF Fetching, r, m
  <2>2. CASE op[t].route \notin {"list", "job"}
    <3>1. pc' = [pc EXCEPT ![t] = "respond"]
      BY <1>2, <2>2 DEF Refreshes, Proceeds
    <3>2. op[t].route = "statement" => rows[t].statement = "valid" /\ rows[t].current
      BY <2>0, <2>2 DEF RefreshedFits, FreshVersion
    <3>3. GatesPassed("respond", op[t], r, m)
      BY <2>2, <3>2, <1>t DEF GatesPassed, StillSays, CurrentFor
    <3>4. QED
      BY <2>0, <3>1, <3>3, PlaceMoves DEF Fetching, r, m
  <2>3. QED
    BY <2>1, <2>2
<1>3. CASE ProfileRechecked(t)
  <2>1. /\ UNCHANGED <<rows, profile, op, atIO>> /\ pc[t] = "profile"
        /\ pc' = [pc EXCEPT ![t] = "respond"] /\ (NeedsProfile(t) => profile = "generated")
    BY <1>3 DEF ProfileRechecked, Proceeds, Same, RowsKept
  <2>2. op[t].route \in {"list", "job"}
    BY <2>1, <1>t DEF GatesPassed
  <2>3. GatesPassed("respond", op[t], r, m)
    BY <2>1, <2>2, <1>t DEF GatesPassed, StillSays, CurrentFor, NeedsProfile
  <2>4. QED
    BY <2>1, <2>3, PlaceMoves DEF Fetching, r, m
<1>4. CASE _verified_artifact_response(t)
  <2>1. /\ UNCHANGED <<rows, profile, op, atIO>> /\ pc[t] = "respond"
        /\ pc' = [pc EXCEPT ![t] = "streaming"]
    BY <1>4 DEF _verified_artifact_response, Proceeds, Same, RowsKept
  <2>2. GatesPassed("streaming", op[t], r, m)
    BY <2>1, <1>t DEF GatesPassed
  <2>3. QED
    BY <2>1, <2>2, PlaceMoves DEF Fetching, r, m
<1>5. QED
  BY <1>1, <1>2, <1>3, <1>4

\* The steps of the storage I/O: what they answer with later is decided after them.
LEMMA StorageKeepsAnswers ==
    ASSUME AnswersInv, NEW t \in Organizations,
           \/ Opens(t) \/ Gets(t) \/ Verifies(t)
           \/ _require_current_retention_binding(t)
           \/ ReviewReserves(t) \/ ReviewsSiblings(t)
           \/ _resolve_external_evidence_rows(t) \/ _verified_external_evidence(t)
    PROVE  AnswersInv'
<1>f. pc[t] \in Fetching => op[t].route \in {"job", "release", "statement"}
  BY DEF AnswersInv
<1>1. CASE Opens(t)
  <2>1. /\ UNCHANGED <<rows, profile, op, atIO>> /\ pc' = [pc EXCEPT ![t] = "get"]
        /\ pc[t] = "open"
    BY <1>1 DEF Opens, Proceeds, Same, RowsKept
  <2>2. QED
    BY <2>1, <1>f, PlaceMoves, NoGatesYet DEF Fetching
<1>2. CASE Gets(t)
  <2>1. /\ UNCHANGED <<rows, profile, op, atIO>> /\ pc' = [pc EXCEPT ![t] = "reading"]
        /\ pc[t] = "get"
    BY <1>2 DEF Gets, Proceeds, Same, RowsKept
  <2>2. QED
    BY <2>1, <1>f, PlaceMoves, NoGatesYet DEF Fetching
<1>3. CASE Verifies(t)
  <2>1. /\ UNCHANGED <<rows, profile, op>> /\ pc' = [pc EXCEPT ![t] = AfterOpen(t)]
        /\ pc[t] = "reading"
        /\ atIO' = [atIO EXCEPT ![t] = [rows |-> rows[t], profile |-> profile]]
    BY <1>3 DEF Verifies, Proceeds, RowsKept
  <2>2. op[t].route \in {"job", "release", "statement"}
    BY <2>1, <1>f DEF Fetching
  <2>3. /\ AfterOpen(t) \in {"review", "retention", "refresh"}
        /\ AfterOpen(t) = "refresh" => op[t].route = "statement"
    BY <2>2 DEF AfterOpen
  <2>4. GatesPassed(AfterOpen(t), op[t], rows[t], profile)
    BY <2>3 DEF GatesPassed
  <2>5. QED
    BY <2>1, <2>3, <2>4, RowsRemembered DEF Fetching
<1>4. CASE _require_current_retention_binding(t)
  <2>1. /\ UNCHANGED <<rows, profile, op, atIO>>
        /\ pc' = [pc EXCEPT ![t] = AfterRetention(t)]
    BY <1>4 DEF _require_current_retention_binding, Proceeds, Same, RowsKept
  <2>2. /\ AfterRetention(t) \in {"open", "review"}
        /\ AfterRetention(t) = "open" => op[t].route = "statement"
    BY DEF AfterRetention
  <2>3. QED
    BY <2>1, <2>2, PlaceMoves, NoGatesYet DEF Fetching
<1>5. CASE ReviewReserves(t)
  <2>1. UNCHANGED <<rows, profile, op, atIO>> /\ pc' = [pc EXCEPT ![t] = "siblings"]
    BY <1>5 DEF ReviewReserves, Proceeds, Same, RowsKept
  <2>2. QED
    BY <2>1, PlaceMoves, NoGatesYet DEF Fetching
<1>6. CASE ReviewsSiblings(t)
  <2>1. /\ UNCHANGED <<rows, profile, op>> /\ pc' = [pc EXCEPT ![t] = AfterReview(t)]
        /\ atIO' = [atIO EXCEPT ![t] = [rows |-> rows[t], profile |-> profile]]
    BY <1>6 DEF ReviewsSiblings, Proceeds, RowsKept
  <2>2. /\ AfterReview(t) \in {"bound", "refresh"}
        /\ AfterReview(t) = "refresh" => op[t].route \notin {"list", "job"}
    BY DEF AfterReview
  <2>3. GatesPassed(AfterReview(t), op[t], rows[t], profile)
    BY <2>2 DEF GatesPassed
  <2>4. QED
    BY <2>1, <2>2, <2>3, RowsRemembered DEF Fetching
<1>7. CASE _resolve_external_evidence_rows(t)
  <2>1. UNCHANGED <<rows, profile, op, atIO>> /\ pc' = [pc EXCEPT ![t] = "evidence"]
    BY <1>7 DEF _resolve_external_evidence_rows, Proceeds, RowsKept
  <2>2. QED
    BY <2>1, PlaceMoves, NoGatesYet DEF Fetching
<1>8. CASE _verified_external_evidence(t)
  <2>1. /\ UNCHANGED <<rows, profile, op>> /\ pc' = [pc EXCEPT ![t] = "recheck"]
        /\ atIO' = [atIO EXCEPT ![t] = [rows |-> rows[t], profile |-> profile]]
    BY <1>8 DEF _verified_external_evidence, Proceeds, RowsKept
  <2>2. QED
    BY <2>1, RowsRemembered, NoGatesYet DEF Fetching
<1>9. QED
  BY <1>1, <1>2, <1>3, <1>4, <1>5, <1>6, <1>7, <1>8

\* Streaming and uploads.
LEMMA StreamsKeepAnswers ==
    ASSUME AnswersInv, NEW t \in Organizations,
           \/ Reads(t) \/ Misdelivers(t) \/ DeadlinePasses(t)
           \/ SendsChunk(t) \/ SpoolDrained(t) \/ StreamStops(t) \/ SpoolFails(t) \/ StreamCut(t)
           \/ ResponseCloses(t) \/ ResponseOver(t) \/ Closes(t) \/ SignsLinks(t)
           \/ BufferFragment(t) \/ UploadRouted(t) \/ store_create_once_object(t)
           \/ register_upload(t)
    PROVE  AnswersInv'
<1>t. rows \in [Organizations -> RowRecord]
  BY DEF AnswersInv, RowsTyped
<1>1. CASE Reads(t) \/ Misdelivers(t) \/ DeadlinePasses(t) \/ BufferFragment(t)
  BY <1>1, AnswersStay DEF Reads, Misdelivers, DeadlinePasses, BufferFragment, Same, RowsKept
<1>2. CASE SendsChunk(t) \/ SpoolDrained(t) \/ ResponseCloses(t)
  BY <1>2, AnswersStay DEF SendsChunk, SpoolDrained, ResponseCloses, StreamKept, RowsKept
<1>3. CASE Closes(t)
  BY <1>3, AnswersStay DEF Closes, apiVars
<1>4. CASE StreamStops(t) \/ SpoolFails(t) \/ StreamCut(t)
  <2>1. UNCHANGED <<rows, profile, op, atIO>> /\ pc' = [pc EXCEPT ![t] = "ending"]
    BY <1>4 DEF StreamStops, SpoolFails, StreamCut, StreamKept, Proceeds, RowsKept
  <2>2. QED
    BY <2>1, PlaceMoves, NoGatesYet DEF Fetching
<1>5. CASE ResponseOver(t) \/ SignsLinks(t)
  <2>1. Forgets(t) /\ UNCHANGED <<rows, profile>> /\ pc' = [pc EXCEPT ![t] = "idle"]
    BY <1>5 DEF ResponseOver, SignsLinks, Proceeds, RowsKept
  <2>2. QED
    BY <2>1, <1>t, ForgetsKeepsAnswers
<1>6. CASE UploadRouted(t)
  <2>1. /\ UNCHANGED <<rows, profile, op, atIO>>
        /\ pc' = [pc EXCEPT ![t] = IF rows[t].uploaded THEN "verify" ELSE "put"]
    BY <1>6 DEF UploadRouted, Proceeds, Same, RowsKept
  <2>2. QED
    BY <2>1, PlaceMoves, NoGatesYet DEF Fetching
<1>7. CASE store_create_once_object(t)
  <2>1. UNCHANGED <<rows, profile, op, atIO>> /\ pc' = [pc EXCEPT ![t] = "verify"]
    BY <1>7 DEF store_create_once_object, Proceeds, Same, RowsKept
  <2>2. QED
    BY <2>1, PlaceMoves, NoGatesYet DEF Fetching
<1>8. CASE register_upload(t)
  <2>1. /\ Forgets(t) /\ UNCHANGED profile /\ pc' = [pc EXCEPT ![t] = "idle"]
        /\ rows' = [rows EXCEPT ![t].uploaded = TRUE]
    BY <1>8 DEF register_upload, UploadEnds, Proceeds
  <2>2. /\ rows' \in [Organizations -> RowRecord]
        /\ \A u \in Organizations \ {t} : rows'[u] = rows[u]
    BY <2>1, <1>t DEF RowRecord
  <2>3. QED
    BY <2>1, <2>2, ForgetsKeepsAnswers
<1>9. QED
  BY <1>1, <1>2, <1>3, <1>4, <1>5, <1>6, <1>7, <1>8

\* Rows move away from what was generated; what an operation remembered
\* stays.
LEMMA OthersKeepAnswers ==
    ASSUME AnswersInv, NEW t \in Organizations,
           RowChanges(t) \/ LinksExpire(t) \/ \E k \in Kinds : Rots(t, k)
    PROVE  AnswersInv'
<1>t. rows \in [Organizations -> RowRecord]
  BY DEF AnswersInv, RowsTyped
<1>1. CASE RowChanges(t)
  <2>1. UNCHANGED <<pc, op, atIO, profile>>
    BY <1>1 DEF RowChanges, OthersKept
  <2>2. /\ rows' \in [Organizations -> RowRecord]
        /\ \A u \in Organizations \ {t} : rows'[u] = rows[u]
        /\ StillSays(rows'[t], rows[t])
    <3>1. CASE rows' = [rows EXCEPT ![t].current = FALSE]
      BY <3>1, <1>t DEF RowRecord, StillSays
    <3>2. CASE rows' = [rows EXCEPT ![t].evidence = "revoked"]
      BY <3>2, <1>t DEF RowRecord, StillSays
    <3>3. CASE rows' = [rows EXCEPT ![t].statement = "revoked"]
      BY <3>3, <1>t DEF RowRecord, StillSays
    <3>4. CASE rows' = [rows EXCEPT ![t].approval = "renewed"]
      BY <3>4, <1>t DEF RowRecord, StillSays
    <3>5. QED
      BY <1>1, <3>1, <3>2, <3>3, <3>4 DEF RowChanges
  <2>3. RowsTyped'
    BY <2>1, <2>2 DEF AnswersInv, RowsTyped
  <2>4. StillSays(rows'[t], atIO[t].rows)
    BY <2>2 DEF AnswersInv, StillSays
  <2>5. QED
    BY <2>1, <2>2, <2>3, <2>4 DEF AnswersInv
<1>2. CASE LinksExpire(t)
  BY <1>2, AnswersStay DEF LinksExpire, OthersKept, RowsKept
<1>3. CASE \E k \in Kinds : Rots(t, k)
  BY <1>3, AnswersStay DEF Rots, apiVars
<1>4. QED
  BY <1>1, <1>2, <1>3

\* A fresh process, an unchanged row.
LEMMA AnswersInit == DownloadInit => AnswersInv
<1> SUFFICES ASSUME DownloadInit PROVE AnswersInv
  OBVIOUS
<1>1. AsGenerated \in RowRecord /\ StillSays(AsGenerated, AsGenerated)
  BY DEF AsGenerated, RowRecord, StillSays
<1>2. RowsTyped
  BY <1>1 DEF DownloadInit, RowsTyped
<1>3. ASSUME NEW t \in Organizations
      PROVE  /\ rows[t] = AsGenerated /\ atIO[t].rows = AsGenerated
             /\ atIO[t].profile = "generated" /\ pc[t] = "idle"
  BY DEF DownloadInit
<1>4. \A t \in Organizations : GatesPassed(pc[t], op[t], atIO[t].rows, atIO[t].profile)
  BY <1>3, NoGatesYet
<1>5. QED
  BY <1>1, <1>2, <1>3, <1>4 DEF AnswersInv, Fetching

\* Every step keeps the answers current.
LEMMA AnswersNext == AnswersInv /\ [DownloadNext]_downloadVars => AnswersInv'
<1> SUFFICES ASSUME AnswersInv, [DownloadNext]_downloadVars PROVE AnswersInv'
  OBVIOUS
<1>1. ASSUME NEW t \in Organizations, Begin(t) PROVE AnswersInv'
  BY <1>1, BeginsKeepsAnswers
     DEF Begin, list_artifacts, list_release_artifacts, download_joint_retention_evidence,
         download_artifact, download_release_artifact, receive_body
<1>2. ASSUME NEW t \in Organizations, Handles(t) PROVE AnswersInv'
  <2>1. CASE Fails(t) \/ ReadFails(t)
    BY <2>1, RaisesKeepsAnswers DEF Fails, ReadFails
  <2>2. QED
    BY <1>2, <2>1, StorageKeepsAnswers, GatesKeepAnswers, StreamsKeepAnswers DEF Handles
<1>3. ASSUME NEW t \in Organizations, Moves(t) PROVE AnswersInv'
  <2>1. CASE BodyFails(t)
    BY <2>1, RaisesKeepsAnswers DEF BodyFails
  <2>2. QED
    BY <1>1, <1>2, <1>3, <2>1, StreamsKeepAnswers, OthersKeepAnswers DEF Moves
<1>4. CASE ProfileRotates
  <2>1. UNCHANGED <<pc, op, atIO, rows>> /\ profile' = "rotated"
    BY <1>4 DEF ProfileRotates, OthersKept
  <2>2. QED
    BY <2>1 DEF AnswersInv, RowsTyped
<1>5. CASE UNCHANGED downloadVars
  BY <1>5, AnswersStay DEF downloadVars, apiVars
<1>6. QED
  BY <1>3, <1>4, <1>5 DEF DownloadNext

\* No response starts, and no link is signed, on the strength of rows or of a profile
\* that were stale when the last storage byte had been checked, whatever changes them
\* and whenever (download_artifact, list_artifacts and the statement route).
THEOREM AnswersCurrent == DownloadSpec => []AnswersAreCurrent
<1>1. AnswersInv => AnswersAreCurrent
  BY DEF AnswersInv, AnswersAreCurrent, GatesPassed
<1>2. QED
  BY <1>1, AnswersInit, AnswersNext, PTL DEF DownloadSpec

-----------------------------------------------------------------------------
(* The budget balances, and what is served is recorded *)

Holds(i) == i.held + i.retained

\* Only the operation of one organisation moves.
Elsewhere(t) ==
    \A u \in Organizations \ {t} :
        /\ io'[u] = io[u] /\ pc'[u] = pc[u] /\ op'[u] = op[u]
        /\ sent'[u] = sent[u] /\ result'[u] = result[u]

\* The places of an operation are kept by the functions that hold them.
PlacesTyped ==
    /\ DOMAIN pc' = Organizations /\ DOMAIN op' = Organizations
    /\ DOMAIN sent' = Organizations /\ DOMAIN result' = Organizations

\* A budget that one operation changes by what it takes or gives back.
LEMMA BudgetMoves ==
    ASSUME SpoolInv, NEW t \in Organizations, io' \in [Organizations -> IORecord],
           \A u \in Organizations \ {t} : io'[u] = io[u],
           reserved' = reserved + (Holds(io'[t]) - Holds(io[t])), reserved' <= Capacity
    PROVE  BudgetBalances'
<1> DEFINE f == OwnedBytes
           g == OwnedBytes'
<1>1. /\ \A u \in Organizations : f[u] = Holds(io[u]) /\ g[u] = Holds(io'[u])
      /\ io \in [Organizations -> IORecord] /\ reserved \in Int
  BY DEF OwnedBytes, Holds, SpoolInv, SpoolTyped
<1>2. \A i \in IORecord : Holds(i) \in Int
  BY DEF Holds, IORecord
<1>3. \A u \in Organizations : f[u] \in Int /\ g[u] \in Int
  BY <1>1, <1>2
<1>4. \A u \in Organizations \ {t} : f[u] = g[u]
  BY <1>1
<1>5. IsFiniteSet(Organizations)
  BY SpoolAssumption
<1>6. reserved = SumFunctionOnSet(f, Organizations)
  BY DEF SpoolInv, BudgetBalances, HeldBytes
<1> HIDE DEF f, g
<1>7. SumFunctionOnSet(g, Organizations) = SumFunctionOnSet(f, Organizations) - f[t] + g[t]
  BY <1>3, <1>4, <1>5, SumChanges
<1>8. f[t] = Holds(io[t]) /\ g[t] = Holds(io'[t]) /\ f[t] \in Int /\ g[t] \in Int
  BY <1>1, <1>3
<1>9. reserved' = SumFunctionOnSet(g, Organizations)
  BY <1>1, <1>6, <1>7, <1>8
<1>10. QED
  BY <1>9 DEF BudgetBalances, HeldBytes, g

\* One operation moves: what it owns and serves fits its new place, and the budget
\* moves with what it owns.
LEMMA OperationMoves ==
    ASSUME SpoolInv, NEW t \in Organizations, PlacesTyped, Elsewhere(t),
           store' \in [Organizations -> [Kinds -> ObjectRecord]],
           io' \in [Organizations -> IORecord],
           OwnsItsPlace(pc'[t], op'[t], io'[t]),
           ServesItsSpool(pc'[t], op'[t], io'[t], sent'[t], result'[t]),
           reserved' = reserved + (Holds(io'[t]) - Holds(io[t])), reserved' <= Capacity
    PROVE  SpoolInv'
<1>1. BudgetBalances'
  BY BudgetMoves DEF Elsewhere
<1>2. reserved' \in Int
  <2>1. \A i \in IORecord : Holds(i) \in Int
    BY DEF Holds, IORecord
  <2>2. QED
    BY <2>1 DEF SpoolInv, SpoolTyped
<1>3. SpoolTyped'
  BY <1>2 DEF SpoolTyped, PlacesTyped
<1>4. OperationsInPlace'
  BY DEF SpoolInv, OperationsInPlace, Elsewhere
<1>5. QED
  BY <1>1, <1>3, <1>4 DEF SpoolInv

\* It moves without taking or giving back bytes.
LEMMA OperationProceeds ==
    ASSUME SpoolInv, NEW t \in Organizations, PlacesTyped, Elsewhere(t),
           store' \in [Organizations -> [Kinds -> ObjectRecord]],
           io' \in [Organizations -> IORecord],
           io'[t].held = io[t].held, io'[t].retained = io[t].retained,
           reserved' = reserved,
           OwnsItsPlace(pc'[t], op'[t], io'[t]),
           ServesItsSpool(pc'[t], op'[t], io'[t], sent'[t], result'[t])
    PROVE  SpoolInv'
<1>1. io[t] \in IORecord /\ reserved \in Int /\ reserved <= Capacity
  BY DEF SpoolInv, SpoolTyped, BudgetBalances
<1>2. Holds(io[t]) \in Int /\ Holds(io'[t]) = Holds(io[t])
  BY <1>1 DEF Holds, IORecord
<1>3. reserved' = reserved + (Holds(io'[t]) - Holds(io[t])) /\ reserved' <= Capacity
  BY <1>1, <1>2
<1>4. QED
  BY <1>3, OperationMoves

\* Objects and rows change under the operations.
LEMMA OperationsStay ==
    ASSUME SpoolInv, UNCHANGED <<io, reserved, pc, op, sent, result>>,
           store' \in [Organizations -> [Kinds -> ObjectRecord]]
    PROVE  SpoolInv'
<1>1. OwnedBytes' = OwnedBytes
  BY DEF OwnedBytes
<1>2. QED
  BY <1>1 DEF SpoolInv, SpoolTyped, OperationsInPlace, BudgetBalances, HeldBytes

\* What an operation is while it has done no I/O.
LEMMA NoIOTyped ==
    /\ NoIO \in IORecord /\ Holds(NoIO) = 0
    /\ NoIO.held = 0 /\ NoIO.retained = 0 /\ NoIO.token = "none" /\ NoIO.releasing = "nobody"
BY DEF NoIO, IORecord, ObjectRecord, NoBody, Missing, Holds

\* The state of one organisation, and what its place says of it.
LEMMA OperationTyped ==
    ASSUME SpoolInv, NEW t \in Organizations
    PROVE  /\ io[t] \in IORecord /\ io \in [Organizations -> IORecord]
           /\ store \in [Organizations -> [Kinds -> ObjectRecord]]
           /\ reserved \in Int /\ reserved <= Capacity /\ Capacity \in Int
           /\ OwnsItsPlace(pc[t], op[t], io[t])
           /\ ServesItsSpool(pc[t], op[t], io[t], sent[t], result[t])
           /\ DOMAIN pc = Organizations /\ DOMAIN op = Organizations
           /\ DOMAIN sent = Organizations /\ DOMAIN result = Organizations
BY SpoolAssumption DEF SpoolInv, SpoolTyped, OperationsInPlace, BudgetBalances

\* An operation begins with nothing: the one before it has given everything back.
LEMMA BeginsInPlace ==
    ASSUME SpoolInv, NEW t \in Organizations, NEW route, NEW k, NEW role,
           NEW to \in {"review", "open", "retention", "body"},
           to = "open" => route \in {"job", "release", "statement"},
           route \in {"job", "release", "statement"} => k \in Kinds,
           Begins(t, route, k, role, to)
    PROVE  SpoolInv'
<1>t. /\ io[t] \in IORecord /\ io \in [Organizations -> IORecord]
      /\ store \in [Organizations -> [Kinds -> ObjectRecord]]
      /\ reserved \in Int /\ reserved <= Capacity
      /\ OwnsItsPlace(pc[t], op[t], io[t])
      /\ ServesItsSpool(pc[t], op[t], io[t], sent[t], result[t])
      /\ DOMAIN pc = Organizations /\ DOMAIN op = Organizations
      /\ DOMAIN sent = Organizations /\ DOMAIN result = Organizations
  BY OperationTyped
<1>1. /\ UNCHANGED <<store, reserved, sent, result>> /\ pc[t] = "idle"
      /\ pc' = [pc EXCEPT ![t] = to] /\ io' = [io EXCEPT ![t] = NoIO]
      /\ op' = [op EXCEPT ![t] = [route |-> route, kind |-> k, role |-> role]]
      /\ io[t].releasing = "nobody"
  BY DEF Begins, Proceeds, AnswersKept
<1>2. io[t].held = 0 /\ io[t].retained = 0
  BY <1>1, <1>t DEF OwnsItsPlace, Retaining, IORecord
<1>3. /\ PlacesTyped /\ Elsewhere(t) /\ io' \in [Organizations -> IORecord]
      /\ io'[t] = NoIO /\ pc'[t] = to /\ op'[t].route = route /\ op'[t].kind = k
  BY <1>1, <1>t, NoIOTyped DEF PlacesTyped, Elsewhere
<1>4. OwnsItsPlace(pc'[t], op'[t], io'[t])
  BY <1>3, NoIOTyped DEF OwnsItsPlace, Unreserved, Fetching, Retaining, Answering
<1>5. ServesItsSpool(pc'[t], op'[t], io'[t], sent'[t], result'[t])
  BY <1>1, <1>3, <1>t, NoIOTyped DEF ServesItsSpool, Answering
<1>6. QED
  BY <1>1, <1>2, <1>3, <1>4, <1>5, <1>t, NoIOTyped, OperationProceeds

\* An operation that only moves on keeps its token, rewound, and what it owns.
LEMMA PlaceProceeds ==
    ASSUME SpoolInv, NEW t \in Organizations, NEW to,
           UNCHANGED <<io, reserved, op, sent, result>>,
           store' \in [Organizations -> [Kinds -> ObjectRecord]],
           pc' = [pc EXCEPT ![t] = to],
           pc[t] \notin Answering \cup Retaining \cup {"idle"},
           to \in {"open", "review", "bound", "evidence", "recheck", "refresh", "profile", "respond"},
           to = "open" => pc[t] = "retention" /\ op[t].route = "statement"
    PROVE  SpoolInv'
<1>t. /\ io[t] \in IORecord /\ io \in [Organizations -> IORecord]
      /\ store \in [Organizations -> [Kinds -> ObjectRecord]]
      /\ reserved \in Int /\ reserved <= Capacity /\ Capacity \in Int
      /\ OwnsItsPlace(pc[t], op[t], io[t])
      /\ ServesItsSpool(pc[t], op[t], io[t], sent[t], result[t])
      /\ DOMAIN pc = Organizations /\ DOMAIN op = Organizations
      /\ DOMAIN sent = Organizations /\ DOMAIN result = Organizations
  BY OperationTyped
<1>1. /\ PlacesTyped /\ Elsewhere(t) /\ pc'[t] = to /\ op'[t] = op[t] /\ io'[t] = io[t]
      /\ sent'[t] = sent[t] /\ result'[t] = result[t]
  BY <1>t DEF PlacesTyped, Elsewhere
<1>2. OwnsItsPlace(to, op[t], io[t])
  BY <1>t DEF OwnsItsPlace, Unreserved, Fetching, Retaining, Answering
<1>3. ServesItsSpool(to, op[t], io[t], sent[t], result[t])
  BY <1>t DEF ServesItsSpool, Answering
<1>4. QED
  BY <1>1, <1>2, <1>3, <1>t, OperationProceeds

\* The steps that only look at rows and at other objects.
LEMMA LooksInPlace ==
    ASSUME SpoolInv, NEW t \in Organizations,
           \/ _require_current_retention_binding(t)
           \/ _resolve_external_evidence_rows(t) \/ _verified_external_evidence(t)
           \/ _require_current_bound_job_evidence(t) \/ Refreshes(t) \/ ProfileRechecked(t)
    PROVE  SpoolInv'
<1>t. store \in [Organizations -> [Kinds -> ObjectRecord]]
  BY OperationTyped
<1>1. CASE _require_current_retention_binding(t)
  <2>1. /\ UNCHANGED <<io, store, reserved, op, sent, result>>
        /\ pc[t] = "retention" /\ pc' = [pc EXCEPT ![t] = AfterRetention(t)]
    BY <1>1 DEF _require_current_retention_binding, Proceeds, Same, AnswersKept, storageVars
  <2>2. /\ AfterRetention(t) \in {"open", "review"}
        /\ AfterRetention(t) = "open" => op[t].route = "statement"
    BY DEF AfterRetention
  <2>3. QED
    BY <2>1, <2>2, <1>t, PlaceProceeds DEF Answering, Retaining
<1>2. CASE _resolve_external_evidence_rows(t)
  <2>1. /\ UNCHANGED <<io, store, reserved, op, sent, result>>
        /\ pc[t] = "bound" /\ pc' = [pc EXCEPT ![t] = "evidence"]
    BY <1>2 DEF _resolve_external_evidence_rows, Proceeds, AnswersKept, storageVars
  <2>2. QED
    BY <2>1, <1>t, PlaceProceeds DEF Answering, Retaining
<1>3. CASE _verified_external_evidence(t)
  <2>1. /\ UNCHANGED <<io, store, reserved, op, sent, result>>
        /\ pc[t] = "evidence" /\ pc' = [pc EXCEPT ![t] = "recheck"]
    BY <1>3 DEF _verified_external_evidence, Proceeds, AnswersKept, storageVars
  <2>2. QED
    BY <2>1, <1>t, PlaceProceeds DEF Answering, Retaining
<1>4. CASE _require_current_bound_job_evidence(t)
  <2>1. /\ UNCHANGED <<io, store, reserved, op, sent, result>>
        /\ pc[t] = "recheck" /\ pc' = [pc EXCEPT ![t] = "refresh"]
    BY <1>4 DEF _require_current_bound_job_evidence, Proceeds, Same, AnswersKept, storageVars
  <2>2. QED
    BY <2>1, <1>t, PlaceProceeds DEF Answering, Retaining
<1>5. CASE Refreshes(t)
  <2>1. /\ UNCHANGED <<io, store, reserved, op, sent, result>> /\ pc[t] = "refresh"
        /\ pc' = [pc EXCEPT ![t] = IF op[t].route \in {"list", "job"} THEN "profile" ELSE "respond"]
    BY <1>5 DEF Refreshes, Proceeds, Same, AnswersKept, storageVars
  <2>2. QED
    BY <2>1, <1>t, PlaceProceeds DEF Answering, Retaining
<1>6. CASE ProfileRechecked(t)
  <2>1. /\ UNCHANGED <<io, store, reserved, op, sent, result>>
        /\ pc[t] = "profile" /\ pc' = [pc EXCEPT ![t] = "respond"]
    BY <1>6 DEF ProfileRechecked, Proceeds, Same, AnswersKept, storageVars
  <2>2. QED
    BY <2>1, <1>t, PlaceProceeds DEF Answering, Retaining
<1>7. QED
  BY <1>1, <1>2, <1>3, <1>4, <1>5, <1>6

\* The capacity of the object is reserved before its bytes are asked for.
LEMMA OpensInPlace ==
    ASSUME SpoolInv, NEW t \in Organizations, Opens(t)
    PROVE  SpoolInv'
<1>t. /\ io[t] \in IORecord /\ io \in [Organizations -> IORecord]
      /\ store \in [Organizations -> [Kinds -> ObjectRecord]]
      /\ reserved \in Int /\ reserved <= Capacity /\ Capacity \in Int
      /\ OwnsItsPlace(pc[t], op[t], io[t])
      /\ ServesItsSpool(pc[t], op[t], io[t], sent[t], result[t])
      /\ DOMAIN pc = Organizations /\ DOMAIN op = Organizations
      /\ DOMAIN sent = Organizations /\ DOMAIN result = Organizations
  BY OperationTyped
<1> DEFINE n == SizeOf[op[t].kind]
<1>1. /\ UNCHANGED <<store, op, sent, result>> /\ pc[t] = "open"
      /\ pc' = [pc EXCEPT ![t] = "get"] /\ io' = [io EXCEPT ![t].held = n]
      /\ n <= Capacity - reserved /\ reserved' = reserved + n
  BY DEF Opens, Proceeds, Same, AnswersKept, reserve, CanReserve
<1>2. /\ io[t].held = 0 /\ io[t].retained = 0 /\ io[t].token = "none"
      /\ op[t].route \in {"job", "release", "statement"} /\ op[t].kind \in Kinds
  BY <1>1, <1>t DEF OwnsItsPlace, Unreserved, Fetching, Retaining
<1>3. n \in Nat
  BY <1>2, SpoolAssumption
<1> HIDE DEF n
<1>4. /\ io' \in [Organizations -> IORecord] /\ PlacesTyped /\ Elsewhere(t)
      /\ io'[t] = [io[t] EXCEPT !.held = n] /\ pc'[t] = "get" /\ op'[t] = op[t]
  BY <1>1, <1>3, <1>t DEF PlacesTyped, Elsewhere, IORecord
<1>5. /\ io'[t].held = n /\ io'[t].retained = 0 /\ io'[t].token = "none"
      /\ io'[t].releasing = io[t].releasing
  BY <1>2, <1>4, <1>t DEF IORecord
<1>6. OwnsItsPlace(pc'[t], op'[t], io'[t])
  BY <1>1, <1>2, <1>4, <1>5, <1>t DEF OwnsItsPlace, Unreserved, Fetching, Retaining, Answering
<1>7. ServesItsSpool(pc'[t], op'[t], io'[t], sent'[t], result'[t])
  BY <1>1, <1>4, <1>5, <1>t DEF ServesItsSpool, Answering
<1>8. reserved' = reserved + (Holds(io'[t]) - Holds(io[t])) /\ reserved' <= Capacity
  BY <1>1, <1>2, <1>3, <1>5, <1>t DEF Holds
<1>9. QED
  BY <1>1, <1>4, <1>6, <1>7, <1>8, <1>t, OperationMoves

\* While it is fetched an object has no token: nothing of it can be served.
LEMMA FetchesInPlace ==
    ASSUME SpoolInv, NEW t \in Organizations, NEW i \in IORecord,
           UNCHANGED <<store, reserved, op, sent, result>>,
           pc[t] \in {"get", "reading"}, pc' \in {pc, [pc EXCEPT ![t] = "reading"]},
           pc[t] = "get" \/ pc' = pc,
           io' = [io EXCEPT ![t] = i],
           i.held = io[t].held, i.retained = io[t].retained, i.token = io[t].token,
           i.releasing = io[t].releasing
    PROVE  SpoolInv'
<1>t. /\ io[t] \in IORecord /\ io \in [Organizations -> IORecord]
      /\ store \in [Organizations -> [Kinds -> ObjectRecord]]
      /\ reserved \in Int /\ reserved <= Capacity /\ Capacity \in Int
      /\ OwnsItsPlace(pc[t], op[t], io[t])
      /\ ServesItsSpool(pc[t], op[t], io[t], sent[t], result[t])
      /\ DOMAIN pc = Organizations /\ DOMAIN op = Organizations
      /\ DOMAIN sent = Organizations /\ DOMAIN result = Organizations
  BY OperationTyped
<1>1. pc'[t] \in {"get", "reading"}
  BY <1>t
<1>2. /\ PlacesTyped /\ Elsewhere(t) /\ io' \in [Organizations -> IORecord] /\ io'[t] = i
      /\ op'[t] = op[t] /\ sent'[t] = sent[t] /\ result'[t] = result[t]
  BY <1>t DEF PlacesTyped, Elsewhere
<1>3. OwnsItsPlace(pc'[t], op[t], i)
  BY <1>1, <1>t DEF OwnsItsPlace, Unreserved, Fetching, Retaining, Answering
<1>4. ServesItsSpool(pc'[t], op[t], i, sent[t], result[t])
  BY <1>1, <1>t DEF ServesItsSpool, OwnsItsPlace, Answering
<1>5. QED
  BY <1>2, <1>3, <1>4, <1>t, OperationProceeds

\* The object is asked for, read chunk by chunk, cut short, or aborted.
LEMMA ReadsInPlace ==
    ASSUME SpoolInv, NEW t \in Organizations,
           Gets(t) \/ Reads(t) \/ Misdelivers(t) \/ DeadlinePasses(t)
    PROVE  SpoolInv'
<1>t. /\ io[t] \in IORecord /\ io \in [Organizations -> IORecord]
      /\ store \in [Organizations -> [Kinds -> ObjectRecord]]
      /\ reserved \in Int /\ reserved <= Capacity /\ Capacity \in Int
      /\ OwnsItsPlace(pc[t], op[t], io[t])
      /\ ServesItsSpool(pc[t], op[t], io[t], sent[t], result[t])
      /\ DOMAIN pc = Organizations /\ DOMAIN op = Organizations
      /\ DOMAIN sent = Organizations /\ DOMAIN result = Organizations
  BY OperationTyped
<1>1. CASE Gets(t)
  <2> DEFINE b == store[t][op[t].kind]
             i == [io[t] EXCEPT !.body = b, !.read = 0]
  <2>1. /\ UNCHANGED <<store, reserved, op, sent, result>>
        /\ pc[t] = "get" /\ pc' = [pc EXCEPT ![t] = "reading"]
        /\ io' = [io EXCEPT ![t] = i]
    BY <1>1, <1>t DEF Gets, get_object, OpenSpool, Proceeds, Same, AnswersKept
  <2>2. b \in ObjectRecord
    BY <2>1, <1>t DEF OwnsItsPlace, Fetching
  <2> HIDE DEF b
  <2>3. /\ i \in IORecord /\ i.held = io[t].held /\ i.retained = io[t].retained
        /\ i.token = io[t].token /\ i.releasing = io[t].releasing
    BY <2>2, <1>t DEF IORecord
  <2> HIDE DEF i
  <2>4. QED
    BY <2>1, <2>3, FetchesInPlace
<1>2. CASE Reads(t)
  <2> DEFINE i == [io[t] EXCEPT !.read = io[t].read + 1]
  <2>1. /\ UNCHANGED <<store, reserved, op, sent, result, pc>> /\ pc[t] = "reading"
        /\ io' = [io EXCEPT ![t] = i]
    BY <1>2, <1>t DEF Reads, _read_storage_chunk, OpenSpool, Same, AnswersKept
  <2>2. /\ i \in IORecord /\ i.held = io[t].held /\ i.retained = io[t].retained
        /\ i.token = io[t].token /\ i.releasing = io[t].releasing
    BY <1>t, SMTT(30) DEF IORecord
  <2> HIDE DEF i
  <2>3. QED
    BY <2>1, <2>2, FetchesInPlace
<1>3. CASE Misdelivers(t)
  <2>1. PICK size \in {io[t].read, io[t].body.size + 1} :
           io' = [io EXCEPT ![t].body.size = size]
    BY <1>3 DEF Misdelivers, body_misdelivered
  <2> DEFINE b == [io[t].body EXCEPT !.size = size]
             i == [io[t] EXCEPT !.body = b]
  <2>2. /\ UNCHANGED <<store, reserved, op, sent, result, pc>> /\ pc[t] = "reading"
        /\ io' = [io EXCEPT ![t] = i]
    BY <1>3, <2>1, <1>t DEF Misdelivers, body_misdelivered, Same, AnswersKept
  <2>3. b \in ObjectRecord
    <3>1. io[t].body \in ObjectRecord /\ io[t].read \in Nat
      BY <1>t DEF IORecord
    <3>2. io[t].body.size \in Nat
      BY <3>1 DEF ObjectRecord
    <3>3. size \in Nat
      BY <2>1, <3>1, <3>2
    <3>4. QED
      BY <3>1, <3>3 DEF ObjectRecord
  <2> HIDE DEF b
  <2>4. /\ i \in IORecord /\ i.held = io[t].held /\ i.retained = io[t].retained
        /\ i.token = io[t].token /\ i.releasing = io[t].releasing
    BY <2>3, <1>t DEF IORecord
  <2> HIDE DEF i
  <2>5. QED
    BY <2>2, <2>4, FetchesInPlace
<1>4. CASE DeadlinePasses(t)
  <2> DEFINE i == [io[t] EXCEPT !.expired = TRUE]
  <2>1. /\ UNCHANGED <<store, reserved, op, sent, result, pc>> /\ pc[t] = "reading"
        /\ io' = [io EXCEPT ![t] = i]
    BY <1>4, <1>t DEF DeadlinePasses, abort, OpenSpool, Same, AnswersKept
  <2>2. /\ i \in IORecord /\ i.held = io[t].held /\ i.retained = io[t].retained
        /\ i.token = io[t].token /\ i.releasing = io[t].releasing
    BY <1>t DEF IORecord
  <2> HIDE DEF i
  <2>3. QED
    BY <2>1, <2>2, FetchesInPlace
<1>5. QED
  BY <1>1, <1>2, <1>3, <1>4

\* The token is made of a spool that was read to the recorded size and compared.
LEMMA VerifiesInPlace ==
    ASSUME SpoolInv, NEW t \in Organizations, Verifies(t)
    PROVE  SpoolInv'
<1>t. /\ io[t] \in IORecord /\ io \in [Organizations -> IORecord]
      /\ store \in [Organizations -> [Kinds -> ObjectRecord]]
      /\ reserved \in Int /\ reserved <= Capacity /\ Capacity \in Int
      /\ OwnsItsPlace(pc[t], op[t], io[t])
      /\ ServesItsSpool(pc[t], op[t], io[t], sent[t], result[t])
      /\ DOMAIN pc = Organizations /\ DOMAIN op = Organizations
      /\ DOMAIN sent = Organizations /\ DOMAIN result = Organizations
  BY OperationTyped
<1> DEFINE i == [io[t] EXCEPT !.token = "open", !.pos = 0]
<1>1. /\ UNCHANGED <<store, reserved, op, sent, result>> /\ pc[t] = "reading"
      /\ pc' = [pc EXCEPT ![t] = AfterOpen(t)] /\ io' = [io EXCEPT ![t] = i]
      /\ io[t].read = SizeOf[op[t].kind] /\ io[t].body.bytes = "recorded"
  BY <1>t DEF Verifies, open_verified_stored_object, SpoolVerified, OpenSpool, Proceeds, AnswersKept
<1>2. /\ i \in IORecord /\ i.held = io[t].held /\ i.retained = io[t].retained
      /\ i.token = "open" /\ i.pos = 0 /\ i.releasing = io[t].releasing
      /\ i.body = io[t].body /\ i.read = io[t].read
  BY <1>t DEF IORecord
<1> HIDE DEF i
<1>3. op[t].route \in {"job", "release", "statement"} /\ io[t].token = "none" /\ io[t].retained = 0
  BY <1>1, <1>t DEF OwnsItsPlace, Fetching, Retaining
<1>4. /\ AfterOpen(t) \in {"review", "retention", "refresh"}
      /\ AfterOpen(t) = "retention" => op[t].route # "statement"
  BY <1>3 DEF AfterOpen
<1>5. /\ PlacesTyped /\ Elsewhere(t) /\ io' \in [Organizations -> IORecord] /\ io'[t] = i
      /\ pc'[t] = AfterOpen(t) /\ op'[t] = op[t] /\ sent'[t] = sent[t] /\ result'[t] = result[t]
  BY <1>1, <1>2, <1>t DEF PlacesTyped, Elsewhere
<1>6. OwnsItsPlace(AfterOpen(t), op[t], i)
  BY <1>2, <1>3, <1>4, <1>t DEF OwnsItsPlace, Unreserved, Fetching, Retaining, Answering
<1>7. ServesItsSpool(AfterOpen(t), op[t], i, sent[t], result[t])
  BY <1>1, <1>2, <1>4, <1>t DEF ServesItsSpool, Answering
<1>8. QED
  BY <1>1, <1>2, <1>5, <1>6, <1>7, <1>t, OperationProceeds

\* The retained documents around the target are a number of bytes.
LEMMA RetainedIsNat ==
    ASSUME NEW t
    PROVE  RetainedBytes(t) \in Nat
<1> DEFINE S == Retained \ {op[t].kind}
<1>1. S \in SUBSET Kinds
  BY DEF Retained, Inventory
<1>2. IsFiniteSet(S) /\ \A k \in S : SizeOf[k] \in Nat
  BY <1>1, FS_Subset, SpoolAssumption
<1> HIDE DEF S
<1>3. SumFunctionOnSet(SizeOf, S) \in Nat
  BY <1>2, SumIsNat
<1>4. QED
  BY <1>3 DEF RetainedBytes, S

\* The review retains the documents around the target ...
LEMMA ReservesInPlace ==
    ASSUME SpoolInv, NEW t \in Organizations, ReviewReserves(t) \/ BufferFragment(t)
    PROVE  SpoolInv'
<1>t. /\ io[t] \in IORecord /\ io \in [Organizations -> IORecord]
      /\ store \in [Organizations -> [Kinds -> ObjectRecord]]
      /\ reserved \in Int /\ reserved <= Capacity /\ Capacity \in Int
      /\ OwnsItsPlace(pc[t], op[t], io[t])
      /\ ServesItsSpool(pc[t], op[t], io[t], sent[t], result[t])
      /\ DOMAIN pc = Organizations /\ DOMAIN op = Organizations
      /\ DOMAIN sent = Organizations /\ DOMAIN result = Organizations
  BY OperationTyped
<1>1. ASSUME NEW n \in Nat, NEW to, reserve_transient_bytes(t, n),
             UNCHANGED <<store, op, sent, result>>, pc' \in {pc, [pc EXCEPT ![t] = to]},
             pc'[t] = to,
             \/ pc[t] = "review" /\ to = "siblings"
             \/ pc[t] = "body" /\ to = "body"
      PROVE  SpoolInv'
  <2> DEFINE i == [io[t] EXCEPT !.retained = io[t].retained + n]
  <2>1. io' = [io EXCEPT ![t] = i] /\ reserved' = reserved + n /\ n <= Capacity - reserved
    BY <1>1, <1>t DEF reserve_transient_bytes, CanReserve
  <2>2. /\ i \in IORecord /\ i.held = io[t].held /\ i.retained = io[t].retained + n
        /\ i.token = io[t].token /\ i.pos = io[t].pos /\ i.releasing = io[t].releasing
        /\ i.body = io[t].body /\ i.read = io[t].read
    BY <1>1, <1>t, SMTT(30) DEF IORecord
  <2> HIDE DEF i
  <2>3. /\ PlacesTyped /\ Elsewhere(t) /\ io' \in [Organizations -> IORecord] /\ io'[t] = i
        /\ op'[t] = op[t] /\ sent'[t] = sent[t] /\ result'[t] = result[t]
    BY <1>1, <2>1, <2>2, <1>t DEF PlacesTyped, Elsewhere
  <2>4. OwnsItsPlace(to, op[t], i)
    BY <1>1, <2>2, <1>t DEF OwnsItsPlace, Unreserved, Fetching, Retaining, Answering
  <2>5. ServesItsSpool(to, op[t], i, sent[t], result[t])
    BY <1>1, <2>2, <1>t DEF ServesItsSpool, Answering
  <2>6. io[t].held \in Nat /\ io[t].retained \in Nat
    BY <1>t DEF IORecord
  <2>7. reserved' = reserved + (Holds(i) - Holds(io[t])) /\ reserved' <= Capacity
    BY <1>1, <2>1, <2>2, <2>6, <1>t DEF Holds
  <2>8. QED
    BY <1>1, <2>3, <2>4, <2>5, <2>7, <1>t, OperationMoves
<1>2. CASE ReviewReserves(t)
  <2>1. /\ reserve_transient_bytes(t, RetainedBytes(t)) /\ UNCHANGED <<store, op, sent, result>>
        /\ pc[t] = "review" /\ pc' = [pc EXCEPT ![t] = "siblings"]
    BY <1>2 DEF ReviewReserves, Proceeds, Same, AnswersKept
  <2>2. pc'[t] = "siblings"
    BY <2>1, <1>t
  <2>3. QED
    BY <1>1, <2>1, <2>2, RetainedIsNat
<1>3. CASE BufferFragment(t)
  <2>1. /\ reserve_transient_bytes(t, 1) /\ UNCHANGED <<store, op, sent, result, pc>>
        /\ pc[t] = "body"
    BY <1>3 DEF BufferFragment, Same, AnswersKept
  <2>2. QED
    BY <1>1, <2>1
<1>4. QED
  BY <1>2, <1>3

\* ... and gives them back, with the target's token rewound.
LEMMA ReviewsInPlace ==
    ASSUME SpoolInv, NEW t \in Organizations, ReviewsSiblings(t)
    PROVE  SpoolInv'
<1>t. /\ io[t] \in IORecord /\ io \in [Organizations -> IORecord]
      /\ store \in [Organizations -> [Kinds -> ObjectRecord]]
      /\ reserved \in Int /\ reserved <= Capacity /\ Capacity \in Int
      /\ OwnsItsPlace(pc[t], op[t], io[t])
      /\ ServesItsSpool(pc[t], op[t], io[t], sent[t], result[t])
      /\ DOMAIN pc = Organizations /\ DOMAIN op = Organizations
      /\ DOMAIN sent = Organizations /\ DOMAIN result = Organizations
  BY OperationTyped
<1> DEFINE j == IF op[t].kind \in Targets THEN validation_bytes(io[t], op[t].kind) ELSE io[t]
           i == [j EXCEPT !.retained = 0]
<1>1. /\ UNCHANGED <<store, op, sent, result>> /\ pc[t] = "siblings"
      /\ pc' = [pc EXCEPT ![t] = AfterReview(t)] /\ io' = [io EXCEPT ![t] = i]
      /\ reserved' = reserved - io[t].retained
  BY DEF ReviewsSiblings, Proceeds, AnswersKept
<1>2. /\ j \in IORecord /\ j.held = io[t].held
      /\ j.token = io[t].token /\ j.releasing = io[t].releasing
      /\ j.body = io[t].body /\ j.read = io[t].read /\ (j.pos = 0 \/ j.pos = io[t].pos)
  BY <1>t DEF IORecord, validation_bytes, RewindsAfter
<1> HIDE DEF j
<1>3. /\ i \in IORecord /\ i.held = io[t].held /\ i.retained = 0
      /\ i.token = io[t].token /\ i.releasing = io[t].releasing
      /\ i.body = io[t].body /\ i.read = io[t].read /\ (i.pos = 0 \/ i.pos = io[t].pos)
  BY <1>2 DEF IORecord
<1> HIDE DEF i
<1>4. AfterReview(t) \in {"bound", "refresh"}
  BY DEF AfterReview
<1>5. /\ PlacesTyped /\ Elsewhere(t) /\ io' \in [Organizations -> IORecord] /\ io'[t] = i
      /\ pc'[t] = AfterReview(t)
      /\ op'[t] = op[t] /\ sent'[t] = sent[t] /\ result'[t] = result[t]
  BY <1>1, <1>3, <1>t DEF PlacesTyped, Elsewhere
<1>6. OwnsItsPlace(AfterReview(t), op[t], i)
  BY <1>1, <1>3, <1>4, <1>t DEF OwnsItsPlace, Unreserved, Fetching, Retaining, Answering
<1>7. ServesItsSpool(AfterReview(t), op[t], i, sent[t], result[t])
  BY <1>1, <1>3, <1>4, <1>t DEF ServesItsSpool, Answering
<1>8. io[t].held \in Nat /\ io[t].retained \in Nat
  BY <1>t DEF IORecord
<1>9. reserved' = reserved + (Holds(i) - Holds(io[t])) /\ reserved' <= Capacity
  BY <1>1, <1>3, <1>8, <1>t DEF Holds
<1>10. QED
  BY <1>1, <1>5, <1>6, <1>7, <1>9, <1>t, OperationMoves

\* An operation is over, and had nothing left: a list is answered or an upload
\* registered, and the retained bytes are given back.
LEMMA EndsInPlace ==
    ASSUME SpoolInv, NEW t \in Organizations, SignsLinks(t) \/ register_upload(t)
    PROVE  SpoolInv'
<1>t. /\ io[t] \in IORecord /\ io \in [Organizations -> IORecord]
      /\ store \in [Organizations -> [Kinds -> ObjectRecord]]
      /\ reserved \in Int /\ reserved <= Capacity /\ Capacity \in Int
      /\ OwnsItsPlace(pc[t], op[t], io[t])
      /\ ServesItsSpool(pc[t], op[t], io[t], sent[t], result[t])
      /\ DOMAIN pc = Organizations /\ DOMAIN op = Organizations
      /\ DOMAIN sent = Organizations /\ DOMAIN result = Organizations
  BY OperationTyped
<1>1. CASE SignsLinks(t)
  <2>1. /\ UNCHANGED <<store, reserved, io, sent, result>> /\ pc[t] = "respond"
        /\ op[t].route \in {"list", "list_release"}
        /\ pc' = [pc EXCEPT ![t] = "idle"] /\ op' = [op EXCEPT ![t] = NoOp]
    BY <1>1 DEF SignsLinks, Proceeds, Forgets, storageVars
  <2>2. /\ PlacesTyped /\ Elsewhere(t) /\ io'[t] = io[t] /\ pc'[t] = "idle" /\ op'[t] = NoOp
        /\ sent'[t] = sent[t] /\ result'[t] = result[t]
    BY <2>1, <1>t DEF PlacesTyped, Elsewhere
  <2>3. io[t].held = 0 /\ io[t].token = "none" /\ io[t].retained = 0
    BY <2>1, <1>t DEF OwnsItsPlace, Retaining
  <2>4. OwnsItsPlace("idle", NoOp, io[t])
    BY <2>3, <1>t DEF OwnsItsPlace, NoOp, Unreserved, Fetching, Retaining, Answering
  <2>5. ServesItsSpool("idle", NoOp, io[t], sent[t], result[t])
    BY <2>1, <2>3, <1>t DEF ServesItsSpool, Answering
  <2>6. QED
    BY <2>1, <2>2, <2>4, <2>5, <1>t, OperationProceeds
<1>2. CASE register_upload(t)
  <2>1. /\ UNCHANGED <<store, sent, result>> /\ pc[t] = "verify"
        /\ reserved' = reserved - io[t].retained /\ io' = [io EXCEPT ![t] = NoIO]
        /\ pc' = [pc EXCEPT ![t] = "idle"] /\ op' = [op EXCEPT ![t] = NoOp]
    BY <1>2 DEF register_upload, UploadEnds, Proceeds, Forgets, AnswersKept
  <2>2. /\ PlacesTyped /\ Elsewhere(t) /\ io' \in [Organizations -> IORecord]
        /\ io'[t] = NoIO /\ pc'[t] = "idle" /\ op'[t] = NoOp
        /\ sent'[t] = sent[t] /\ result'[t] = result[t]
    BY <2>1, <1>t, NoIOTyped DEF PlacesTyped, Elsewhere
  <2>3. io[t].held = 0 /\ io[t].retained \in Nat
    BY <2>1, <1>t DEF OwnsItsPlace, Unreserved, IORecord
  <2>4. OwnsItsPlace("idle", NoOp, NoIO)
    BY NoIOTyped DEF OwnsItsPlace, NoOp, Unreserved, Fetching, Retaining, Answering
  <2>5. ServesItsSpool("idle", NoOp, NoIO, sent[t], result[t])
    BY <2>1, NoIOTyped, <1>t DEF ServesItsSpool, Answering
  <2>6. reserved' = reserved + (Holds(NoIO) - Holds(io[t])) /\ reserved' <= Capacity
    BY <2>1, <2>3, NoIOTyped, <1>t DEF Holds
  <2>7. QED
    BY <2>1, <2>2, <2>4, <2>5, <2>6, <1>t, OperationMoves
<1>3. QED
  BY <1>1, <1>2

\* An exception gives back what is not the token's, and leaves the token to its close.
LEMMA RaisesInPlace ==
    ASSUME SpoolInv, NEW t \in Organizations, Raises(t),
           pc[t] \notin {"idle", "streaming", "ending"}
    PROVE  SpoolInv'
<1>t. /\ io[t] \in IORecord /\ io \in [Organizations -> IORecord]
      /\ store \in [Organizations -> [Kinds -> ObjectRecord]]
      /\ reserved \in Int /\ reserved <= Capacity /\ Capacity \in Int
      /\ OwnsItsPlace(pc[t], op[t], io[t])
      /\ ServesItsSpool(pc[t], op[t], io[t], sent[t], result[t])
      /\ DOMAIN pc = Organizations /\ DOMAIN op = Organizations
      /\ DOMAIN sent = Organizations /\ DOMAIN result = Organizations
  BY OperationTyped
<1>h. io[t].held \in Nat /\ io[t].retained \in Nat
  BY <1>t DEF IORecord
<1>1. CASE io[t].token = "none"
  <2>1. /\ UNCHANGED <<store, sent, result>>
        /\ reserved' = reserved - (io[t].held + io[t].retained)
        /\ io' = [io EXCEPT ![t] = NoIO]
        /\ pc' = [pc EXCEPT ![t] = "idle"] /\ op' = [op EXCEPT ![t] = NoOp]
    BY <1>1 DEF Raises, FreedByFailure, Forgets, AnswersKept
  <2>2. /\ PlacesTyped /\ Elsewhere(t) /\ io' \in [Organizations -> IORecord]
        /\ io'[t] = NoIO /\ pc'[t] = "idle" /\ op'[t] = NoOp
        /\ sent'[t] = sent[t] /\ result'[t] = result[t]
    BY <2>1, <1>t, NoIOTyped DEF PlacesTyped, Elsewhere
  <2>3. OwnsItsPlace("idle", NoOp, NoIO)
    BY NoIOTyped DEF OwnsItsPlace, NoOp, Unreserved, Fetching, Retaining, Answering
  <2>4. ServesItsSpool("idle", NoOp, NoIO, sent[t], result[t])
    BY NoIOTyped, <1>t DEF ServesItsSpool, Answering
  <2>5. reserved' = reserved + (Holds(NoIO) - Holds(io[t])) /\ reserved' <= Capacity
    BY <2>1, <1>h, NoIOTyped, <1>t DEF Holds
  <2>6. QED
    BY <2>1, <2>2, <2>3, <2>4, <2>5, <1>t, OperationMoves
<1>2. CASE io[t].token # "none"
  <2> DEFINE i == [io[t] EXCEPT !.retained = 0]
  <2>1. /\ UNCHANGED <<store, op, sent, result>> /\ reserved' = reserved - io[t].retained
        /\ io' = [io EXCEPT ![t] = i] /\ pc' = [pc EXCEPT ![t] = "ending"]
    BY <1>2, <1>t DEF Raises, FreedByFailure, AnswersKept
  <2>2. /\ i \in IORecord /\ i.held = io[t].held /\ i.retained = 0
        /\ i.token = io[t].token /\ i.releasing = io[t].releasing
        /\ i.body = io[t].body /\ i.read = io[t].read
    BY <1>t DEF IORecord
  <2> HIDE DEF i
  <2>3. /\ PlacesTyped /\ Elsewhere(t) /\ io' \in [Organizations -> IORecord]
        /\ io'[t] = i /\ pc'[t] = "ending" /\ op'[t] = op[t]
        /\ sent'[t] = sent[t] /\ result'[t] = result[t]
    BY <2>1, <2>2, <1>t DEF PlacesTyped, Elsewhere
  <2>4. OwnsItsPlace("ending", op[t], i)
    BY <1>2, <2>2, <1>t DEF OwnsItsPlace, Unreserved, Fetching, Retaining, Answering
  <2>5. ServesItsSpool("ending", op[t], i, sent[t], result[t])
    BY <1>2, <2>2, <1>t DEF ServesItsSpool, Answering
  <2>6. reserved' = reserved + (Holds(i) - Holds(io[t])) /\ reserved' <= Capacity
    BY <2>1, <2>2, <1>h, <1>t DEF Holds
  <2>7. QED
    BY <2>1, <2>3, <2>4, <2>5, <2>6, <1>t, OperationMoves
<1>3. QED
  BY <1>1, <1>2

\* The iterator starts on the rewound spool, advances it and closes the token at the
\* end; the response closes what the iterator has not.
LEMMA TokenInPlace ==
    ASSUME SpoolInv, NEW t \in Organizations,
           _verified_artifact_response(t) \/ SendsChunk(t) \/ SpoolDrained(t) \/ SpoolFails(t)
           \/ ResponseCloses(t)
    PROVE  SpoolInv'
<1>t. /\ io[t] \in IORecord /\ io \in [Organizations -> IORecord]
      /\ store \in [Organizations -> [Kinds -> ObjectRecord]]
      /\ reserved \in Int /\ reserved <= Capacity /\ Capacity \in Int
      /\ OwnsItsPlace(pc[t], op[t], io[t])
      /\ ServesItsSpool(pc[t], op[t], io[t], sent[t], result[t])
      /\ DOMAIN pc = Organizations /\ DOMAIN op = Organizations
      /\ DOMAIN sent = Organizations /\ DOMAIN result = Organizations
  BY OperationTyped
<1>n. io[t].pos \in Nat
  BY <1>t DEF IORecord
<1>1. CASE _verified_artifact_response(t)
  <2> DEFINE i == [io[t] EXCEPT !.iterating = TRUE]
  <2>1. /\ UNCHANGED <<store, reserved, op, sent, result>> /\ pc[t] = "respond"
        /\ pc' = [pc EXCEPT ![t] = "streaming"] /\ io' = [io EXCEPT ![t] = i]
        /\ io[t].token = "open"
    BY <1>1, <1>t DEF _verified_artifact_response, iter_bytes, Proceeds, Same, AnswersKept
  <2>2. /\ i \in IORecord /\ i.held = io[t].held /\ i.retained = io[t].retained
        /\ i.token = io[t].token /\ i.releasing = io[t].releasing
        /\ i.body = io[t].body /\ i.read = io[t].read /\ i.pos = io[t].pos
    BY <1>t DEF IORecord
  <2> HIDE DEF i
  <2>3. /\ PlacesTyped /\ Elsewhere(t) /\ io' \in [Organizations -> IORecord]
        /\ io'[t] = i /\ pc'[t] = "streaming" /\ op'[t] = op[t]
        /\ sent'[t] = sent[t] /\ result'[t] = result[t]
    BY <2>1, <2>2, <1>t DEF PlacesTyped, Elsewhere
  <2>4. OwnsItsPlace("streaming", op[t], i)
    BY <2>1, <2>2, <1>t DEF OwnsItsPlace, Unreserved, Fetching, Retaining, Answering
  <2>5. ServesItsSpool("streaming", op[t], i, sent[t], result[t])
    BY <2>1, <2>2, <1>t DEF ServesItsSpool, Answering
  <2>6. QED
    BY <2>1, <2>2, <2>3, <2>4, <2>5, <1>t, OperationProceeds
<1>2. CASE SendsChunk(t)
  <2> DEFINE i == [io[t] EXCEPT !.pos = io[t].pos + 1]
             s == sent[t] + 1
  <2>1. /\ UNCHANGED <<store, reserved, op, pc, result>> /\ pc[t] = "streaming"
        /\ sent' = [sent EXCEPT ![t] = s] /\ io' = [io EXCEPT ![t] = i]
        /\ io[t].token = "open"
    BY <1>2, <1>t DEF SendsChunk, _next_stream_chunk, StreamKept
  <2>2. /\ i \in IORecord /\ i.held = io[t].held /\ i.retained = io[t].retained
        /\ i.token = io[t].token /\ i.releasing = io[t].releasing
        /\ i.body = io[t].body /\ i.read = io[t].read /\ i.pos = io[t].pos + 1
    BY <1>n, <1>t DEF IORecord
  <2> HIDE DEF i
  <2>3. /\ PlacesTyped /\ Elsewhere(t) /\ io' \in [Organizations -> IORecord]
        /\ io'[t] = i /\ pc'[t] = "streaming" /\ op'[t] = op[t]
        /\ sent'[t] = s /\ result'[t] = result[t]
    BY <2>1, <2>2, <1>t DEF PlacesTyped, Elsewhere
  <2>4. OwnsItsPlace("streaming", op[t], i)
    BY <2>1, <2>2, <1>t DEF OwnsItsPlace, Unreserved, Fetching, Retaining, Answering
  <2>5. ServesItsSpool("streaming", op[t], i, s, result[t])
    BY <2>1, <2>2, <1>t DEF ServesItsSpool, Answering
  <2>6. QED
    BY <2>1, <2>2, <2>3, <2>4, <2>5, <1>t, OperationProceeds
<1>3. ASSUME NEW who \in {"iterator", "response"}, ClaimClose(t, who), pc'[t] \in Answering,
             UNCHANGED <<store, op, sent>>, pc[t] \in Answering, PlacesTyped, Elsewhere(t),
             \/ /\ pc'[t] = "streaming" /\ pc[t] = "streaming"
                /\ io[t].pos = io[t].read /\ result'[t] = result[t]
             \/ pc'[t] = "ending" /\ result'[t] = "failed"
             \/ pc'[t] = "ending" /\ pc[t] = "ending" /\ result'[t] = result[t]
      PROVE  SpoolInv'
  <2> DEFINE i == [io[t] EXCEPT !.token = "closed", !.releasing = who]
  <2>1. io' = [io EXCEPT ![t] = i] /\ reserved' = reserved
    BY <1>3, <1>t DEF ClaimClose
  <2>2. /\ i \in IORecord /\ i.held = io[t].held /\ i.retained = io[t].retained
        /\ i.token = "closed" /\ i.releasing = who
        /\ i.body = io[t].body /\ i.read = io[t].read /\ i.pos = io[t].pos
    BY <1>3, <1>t DEF IORecord
  <2> HIDE DEF i
  <2>3. /\ io' \in [Organizations -> IORecord] /\ io'[t] = i /\ op'[t] = op[t]
        /\ sent'[t] = sent[t]
    BY <1>3, <2>1, <2>2, <1>t
  <2>4. io[t].token = "open"
    BY <1>3 DEF ClaimClose
  <2>5. OwnsItsPlace(pc'[t], op[t], i)
    BY <1>3, <2>2, <2>4, <1>t DEF OwnsItsPlace, Unreserved, Fetching, Retaining, Answering
  <2>6. ServesItsSpool(pc'[t], op[t], i, sent[t], result'[t])
    BY <1>3, <2>2, <2>4, <1>t DEF ServesItsSpool, Answering
  <2>7. QED
    BY <1>3, <2>1, <2>2, <2>3, <2>5, <2>6, <1>t, OperationProceeds
<1>4. CASE SpoolDrained(t) \/ ResponseCloses(t)
  <2>1. /\ UNCHANGED <<store, op, sent, pc, result>> /\ pc[t] \in Answering
        /\ \/ pc[t] = "streaming" /\ io[t].pos = io[t].read /\ ClaimClose(t, "iterator")
           \/ pc[t] = "ending" /\ ClaimClose(t, "response")
    BY <1>4 DEF SpoolDrained, ResponseCloses, StreamKept, Answering
  <2>2. PlacesTyped /\ Elsewhere(t)
    BY <2>1, <1>t DEF PlacesTyped, Elsewhere, ClaimClose
  <2>3. QED
    BY <1>3, <2>1, <2>2
<1>5. CASE SpoolFails(t)
  <2>1. /\ UNCHANGED <<store, op, sent>> /\ pc[t] = "streaming"
        /\ pc' = [pc EXCEPT ![t] = "ending"] /\ result' = [result EXCEPT ![t] = "failed"]
        /\ ClaimClose(t, "iterator")
    BY <1>5 DEF SpoolFails, Proceeds, StreamKept
  <2>2. PlacesTyped /\ Elsewhere(t) /\ pc'[t] = "ending" /\ result'[t] = "failed"
    BY <2>1, <1>t DEF PlacesTyped, Elsewhere, ClaimClose
  <2>3. pc[t] \in Answering /\ pc'[t] \in Answering
    BY <2>1, <2>2 DEF Answering
  <2>4. ClaimClose(t, "iterator") /\ UNCHANGED <<store, op, sent>>
    BY <2>1
  <2>5. QED
    BY <1>3, <2>2, <2>3, <2>4
<1>6. QED
  BY <1>1, <1>2, <1>4, <1>5

\* The response ends, complete when the iterator found the spool drained; the winner
\* of close() gives the reservation back, before or after the operation is over.
LEMMA ResponseInPlace ==
    ASSUME SpoolInv, NEW t \in Organizations,
           StreamStops(t) \/ StreamCut(t) \/ ResponseOver(t) \/ Closes(t)
    PROVE  SpoolInv'
<1>t. /\ io[t] \in IORecord /\ io \in [Organizations -> IORecord]
      /\ store \in [Organizations -> [Kinds -> ObjectRecord]]
      /\ reserved \in Int /\ reserved <= Capacity /\ Capacity \in Int
      /\ OwnsItsPlace(pc[t], op[t], io[t])
      /\ ServesItsSpool(pc[t], op[t], io[t], sent[t], result[t])
      /\ DOMAIN pc = Organizations /\ DOMAIN op = Organizations
      /\ DOMAIN sent = Organizations /\ DOMAIN result = Organizations
  BY OperationTyped
<1>1. CASE StreamStops(t) \/ StreamCut(t)
  <2>1. PICK r \in {"complete", "cut"} :
          /\ UNCHANGED <<store, reserved, io, op, sent>> /\ pc[t] = "streaming"
          /\ pc' = [pc EXCEPT ![t] = "ending"] /\ result' = [result EXCEPT ![t] = r]
          /\ r = "complete" => io[t].token = "closed"
    BY <1>1 DEF StreamStops, StreamCut, Proceeds, StreamKept
  <2>2. /\ PlacesTyped /\ Elsewhere(t) /\ io'[t] = io[t] /\ pc'[t] = "ending" /\ op'[t] = op[t]
        /\ sent'[t] = sent[t] /\ result'[t] = r
    BY <2>1, <1>t DEF PlacesTyped, Elsewhere
  <2>3. OwnsItsPlace("ending", op[t], io[t])
    BY <2>1, <1>t DEF OwnsItsPlace, Unreserved, Fetching, Retaining, Answering
  <2>4. ServesItsSpool("ending", op[t], io[t], sent[t], r)
    BY <2>1, <1>t DEF ServesItsSpool, OwnsItsPlace, Answering
  <2>5. QED
    BY <2>1, <2>2, <2>3, <2>4, <1>t, OperationProceeds
<1>2. CASE ResponseOver(t)
  <2>1. /\ UNCHANGED <<store, reserved, io>> /\ pc[t] = "ending"
        /\ pc' = [pc EXCEPT ![t] = "idle"] /\ op' = [op EXCEPT ![t] = NoOp]
        /\ sent' = [sent EXCEPT ![t] = 0] /\ result' = [result EXCEPT ![t] = "none"]
        /\ io[t].token = "closed"
    BY <1>2 DEF ResponseOver, Proceeds, Forgets, storageVars
  <2>2. /\ PlacesTyped /\ Elsewhere(t) /\ io'[t] = io[t] /\ pc'[t] = "idle" /\ op'[t] = NoOp
        /\ sent'[t] = 0 /\ result'[t] = "none"
    BY <2>1, <1>t DEF PlacesTyped, Elsewhere
  <2>3. OwnsItsPlace("idle", NoOp, io[t])
    BY <2>1, <1>t DEF OwnsItsPlace, NoOp, Unreserved, Fetching, Retaining, Answering
  <2>4. ServesItsSpool("idle", NoOp, io[t], 0, "none")
    BY <2>1, <1>t DEF ServesItsSpool, Answering
  <2>5. QED
    BY <2>1, <2>2, <2>3, <2>4, <1>t, OperationProceeds
<1>3. CASE Closes(t)
  <2> DEFINE i == [io[t] EXCEPT !.held = 0, !.releasing = "nobody"]
  <2>1. /\ UNCHANGED <<store, op, pc, sent, result>> /\ io[t].releasing # "nobody"
        /\ reserved' = reserved - io[t].held /\ io' = [io EXCEPT ![t] = i]
    BY <1>3, <1>t DEF Closes, close, FreedOnClose, apiVars
  <2>2. /\ i \in IORecord /\ i.held = 0 /\ i.retained = io[t].retained
        /\ i.token = io[t].token /\ i.releasing = "nobody"
        /\ i.body = io[t].body /\ i.read = io[t].read /\ i.pos = io[t].pos
    BY <1>t DEF IORecord
  <2> HIDE DEF i
  <2>3. /\ PlacesTyped /\ Elsewhere(t) /\ io' \in [Organizations -> IORecord]
        /\ io'[t] = i /\ pc'[t] = pc[t] /\ op'[t] = op[t]
        /\ sent'[t] = sent[t] /\ result'[t] = result[t]
    BY <2>1, <2>2, <1>t DEF PlacesTyped, Elsewhere
  <2>4. OwnsItsPlace(pc[t], op[t], i)
    BY <2>1, <2>2, <1>t DEF OwnsItsPlace
  <2>5. ServesItsSpool(pc[t], op[t], i, sent[t], result[t])
    BY <2>2, <1>t DEF ServesItsSpool
  <2>6. io[t].held \in Nat /\ io[t].retained \in Nat
    BY <1>t DEF IORecord
  <2>7. reserved' = reserved + (Holds(i) - Holds(io[t])) /\ reserved' <= Capacity
    BY <2>1, <2>2, <2>6, <1>t DEF Holds
  <2>8. QED
    BY <2>1, <2>3, <2>4, <2>5, <2>7, <1>t, OperationMoves
<1>4. QED
  BY <1>1, <1>2, <1>3

\* What is recorded of an object, and what can become of it, are objects.
LEMMA ObjectsTyped ==
    ASSUME NEW k \in Kinds
    PROVE  Recorded(k) \in ObjectRecord /\ \A object \in Rotten(k) : object \in ObjectRecord
<1>1. SizeOf[k] \in Nat
  BY SpoolAssumption
<1>2. Recorded(k) \in ObjectRecord /\ Missing \in ObjectRecord
  BY <1>1 DEF Recorded, Missing, ObjectRecord
<1>3. /\ [Recorded(k) EXCEPT !.bytes = "other"] \in ObjectRecord
      /\ [Recorded(k) EXCEPT !.bytes = "other", !.sha = "other"] \in ObjectRecord
      /\ [Recorded(k) EXCEPT !.sha = "none"] \in ObjectRecord
      /\ [Recorded(k) EXCEPT !.bytes = "other", !.sha = "none"] \in ObjectRecord
  BY <1>2 DEF ObjectRecord
<1>4. QED
  BY <1>2, <1>3 DEF Rotten

\* Uploads own their buffered body until they are registered.
LEMMA UploadsInPlace ==
    ASSUME SpoolInv, NEW t \in Organizations, UploadRouted(t) \/ store_create_once_object(t)
    PROVE  SpoolInv'
<1>t. /\ io[t] \in IORecord /\ io \in [Organizations -> IORecord]
      /\ store \in [Organizations -> [Kinds -> ObjectRecord]]
      /\ reserved \in Int /\ reserved <= Capacity /\ Capacity \in Int
      /\ OwnsItsPlace(pc[t], op[t], io[t])
      /\ ServesItsSpool(pc[t], op[t], io[t], sent[t], result[t])
      /\ DOMAIN pc = Organizations /\ DOMAIN op = Organizations
      /\ DOMAIN sent = Organizations /\ DOMAIN result = Organizations
  BY OperationTyped
<1>1. PICK to \in {"put", "verify"} :
        /\ UNCHANGED <<reserved, io, op, sent, result>> /\ pc[t] \in {"body", "put"}
        /\ pc' = [pc EXCEPT ![t] = to] /\ store' \in {store, PutOnce(t, Upload)}
  BY DEF UploadRouted, store_create_once_object, Proceeds, Same, AnswersKept, storageVars
<1>2. store' \in [Organizations -> [Kinds -> ObjectRecord]]
  <2>1. Upload \in Kinds /\ Recorded(Upload) \in ObjectRecord
    BY ObjectsTyped, DownloadAssumption
  <2>2. [store EXCEPT ![t][Upload] = Recorded(Upload)] \in [Organizations -> [Kinds -> ObjectRecord]]
    BY <1>t, <2>1
  <2>3. PutOnce(t, Upload) \in {store, [store EXCEPT ![t][Upload] = Recorded(Upload)]}
    BY DEF PutOnce
  <2>4. QED
    BY <1>1, <1>t, <2>2, <2>3
<1>3. /\ PlacesTyped /\ Elsewhere(t) /\ io'[t] = io[t] /\ pc'[t] = to /\ op'[t] = op[t]
      /\ sent'[t] = sent[t] /\ result'[t] = result[t]
  BY <1>1, <1>t DEF PlacesTyped, Elsewhere
<1>4. OwnsItsPlace(to, op[t], io[t])
  BY <1>1, <1>t DEF OwnsItsPlace, Unreserved, Fetching, Retaining, Answering
<1>5. ServesItsSpool(to, op[t], io[t], sent[t], result[t])
  BY <1>1, <1>t DEF ServesItsSpool, Answering
<1>6. QED
  BY <1>1, <1>2, <1>3, <1>4, <1>5, <1>t, OperationProceeds

\* A process that has just started owns nothing.
LEMMA SpoolInvInit == DownloadInit => SpoolInv
<1> SUFFICES ASSUME DownloadInit PROVE SpoolInv
  OBVIOUS
<1>1. /\ io = [t \in Organizations |-> NoIO] /\ reserved = 0
      /\ store = [t \in Organizations |-> [k \in Kinds |-> Recorded(k)]]
      /\ pc = [t \in Organizations |-> "idle"] /\ op = [t \in Organizations |-> NoOp]
      /\ sent = [t \in Organizations |-> 0] /\ result = [t \in Organizations |-> "none"]
  BY DEF DownloadInit, SpoolInit
<1>2. SpoolTyped
  BY <1>1, NoIOTyped, ObjectsTyped DEF SpoolTyped
<1>3. OperationsInPlace
  <2>1. OwnsItsPlace("idle", NoOp, NoIO)
    BY NoIOTyped DEF OwnsItsPlace, NoOp, Unreserved, Fetching, Retaining, Answering
  <2>2. ServesItsSpool("idle", NoOp, NoIO, 0, "none")
    BY NoIOTyped DEF ServesItsSpool, Answering
  <2>3. QED
    BY <1>1, <2>1, <2>2 DEF OperationsInPlace
<1>4. BudgetBalances
  <2> DEFINE f == OwnedBytes
  <2>1. IsFiniteSet(Organizations) /\ \A t \in Organizations : f[t] = 0
    BY <1>1, NoIOTyped, SpoolAssumption DEF OwnedBytes, Holds
  <2> HIDE DEF f
  <2>2. SumFunctionOnSet(f, Organizations) = 0
    BY <2>1, SumOfZeros
  <2>3. QED
    BY <1>1, <2>2, SpoolAssumption DEF BudgetBalances, HeldBytes, f
<1>5. QED
  BY <1>2, <1>3, <1>4 DEF SpoolInv

\* Every step keeps operations in place and the budget balanced.
LEMMA SpoolInvNext == SpoolInv /\ [DownloadNext]_downloadVars => SpoolInv'
<1> SUFFICES ASSUME SpoolInv, [DownloadNext]_downloadVars PROVE SpoolInv'
  OBVIOUS
<1>s. store \in [Organizations -> [Kinds -> ObjectRecord]]
  BY DEF SpoolInv, SpoolTyped
<1>1. ASSUME NEW t \in Organizations, Begin(t) PROVE SpoolInv'
  <2>1. ASSUME NEW role, list_artifacts(t, role) \/ list_release_artifacts(t, role)
        PROVE  SpoolInv'
    BY <2>1, BeginsInPlace DEF list_artifacts, list_release_artifacts
  <2>2. ASSUME NEW role, download_joint_retention_evidence(t, role)
        PROVE  SpoolInv'
    BY <2>2, BeginsInPlace, DownloadAssumption DEF download_joint_retention_evidence
  <2>3. ASSUME NEW role, NEW k \in Targets,
               download_artifact(t, k, role) \/ download_release_artifact(t, k, role)
        PROVE  SpoolInv'
    <3>1. k \in Kinds
      BY DownloadAssumption
    <3>2. QED
      BY <2>3, <3>1, BeginsInPlace DEF download_artifact, download_release_artifact
  <2>4. CASE receive_body(t)
    BY <2>4, BeginsInPlace DEF receive_body
  <2>5. QED
    BY <1>1, <2>1, <2>2, <2>3, <2>4 DEF Begin
<1>2. ASSUME NEW t \in Organizations, Handles(t) PROVE SpoolInv'
  <2>1. CASE Fails(t) \/ ReadFails(t)
    BY <2>1, RaisesInPlace DEF Fails, ReadFails
  <2>2. QED
    BY <1>2, <2>1, OpensInPlace, ReadsInPlace, VerifiesInPlace, LooksInPlace, ReservesInPlace,
       ReviewsInPlace, EndsInPlace, TokenInPlace, ResponseInPlace, UploadsInPlace DEF Handles
<1>3. ASSUME NEW t \in Organizations, Moves(t) PROVE SpoolInv'
  <2>1. CASE BodyFails(t)
    BY <2>1, RaisesInPlace DEF BodyFails
  <2>2. CASE RowChanges(t) \/ LinksExpire(t)
    BY <2>2, <1>s, OperationsStay DEF RowChanges, LinksExpire, OthersKept
  <2>3. ASSUME NEW k \in Kinds, Rots(t, k) PROVE SpoolInv'
    <3>1. PICK object \in Rotten(k) : store' = [store EXCEPT ![t][k] = object]
      BY <2>3 DEF Rots, object_rots
    <3>2. store' \in [Organizations -> [Kinds -> ObjectRecord]]
      BY <3>1, <1>s, ObjectsTyped
    <3>3. QED
      BY <2>3, <3>2, OperationsStay DEF Rots, object_rots, apiVars
  <2>4. QED
    BY <1>1, <1>2, <1>3, <2>1, <2>2, <2>3, ReadsInPlace, TokenInPlace, ResponseInPlace,
       ReservesInPlace DEF Moves
<1>4. CASE ProfileRotates
  BY <1>4, <1>s, OperationsStay DEF ProfileRotates, OthersKept
<1>5. CASE UNCHANGED downloadVars
  BY <1>5, <1>s, OperationsStay DEF downloadVars, apiVars, storageVars
<1>6. QED
  BY <1>3, <1>4, <1>5 DEF DownloadNext

\* The inductive invariant holds in every reachable state.
LEMMA SpoolInvariant == DownloadSpec => []SpoolInv
BY SpoolInvInit, SpoolInvNext, PTL DEF DownloadSpec

\* For any organisations, sizes and capacity, every reserved byte has one owner that
\* will give it back, no byte is given back twice and the capacity is never exceeded,
\* whichever of iterator and response closes the token and wherever an operation fails
\* (_TransientByteBudget, VerifiedStoredObject.close).
THEOREM BudgetIsBalanced == DownloadSpec => []BudgetBalances
BY SpoolInvariant, PTL DEF SpoolInv

\* What a client receives was verified against its record, and a complete response is
\* the whole object (open_verified_stored_object, _VerifiedStreamingResponse).
THEOREM ServedBytesAreRecorded == DownloadSpec => []ServedIsRecorded
<1>1. SpoolInv => ServedIsRecorded
  BY DEF SpoolInv, OperationsInPlace, OwnsItsPlace, ServesItsSpool, ServedIsRecorded, Answering
<1>2. QED
  BY <1>1, SpoolInvariant, PTL

-----------------------------------------------------------------------------
(***************************************************************************)
(* The artifact operation guard (ArtifactOperationLease).                  *)
(***************************************************************************)
USE LeaseAssumption

\* A lock key is only held by a request of a tenant that hashes to it.
KeysAreOwn == \A k \in LockKeys : locked[k] \in Requests => LockKey(locked[k]) = k

\* From the moment the route reads until its transaction ends, the request
\* holds the tenant's key, and what it read is still the tenant's data.
InRoute(r) == stage[r] \in {"working", "returned", "closing"}
ReadsStayCurrent ==
    \A r \in Requests : InRoute(r) => /\ locked[LockKey(r)] = r
                                      /\ seen[r] = data[Tenant(r)]

LeaseInv == LeaseTypeOK /\ KeysAreOwn /\ ReadsStayCurrent

\* The mapped holder of a tenant.
Holder(t) ==
    IF locked[KeyOf[t]] \in Requests /\ TenantOf[locked[KeyOf[t]]] = t
    THEN locked[KeyOf[t]] ELSE NoRequest

-----------------------------------------------------------------------------
(* The two ways in which the locks change                                  *)

\* LocksEnd keeps what the other requests hold and takes everything from R.
LEMMA LocksEndKeepsOthers ==
    ASSUME LeaseTypeOK, KeysAreOwn, NEW R \in SUBSET Requests, LocksEnd(R)
    PROVE  /\ locked' \in [LockKeys -> Requests \cup {NoRequest}]
           /\ slots' \subseteq Requests
           /\ KeysAreOwn'
           /\ \A k \in LockKeys : locked[k] \notin R => locked'[k] = locked[k]
           /\ \A k \in LockKeys : locked[k] \in R => locked'[k] = NoRequest
  BY DEF LocksEnd, LeaseTypeOK, KeysAreOwn, LockKey

\* The initial state satisfies the invariant: nobody holds anything.
LEMMA LeaseInvInit == LeaseInit => LeaseInv
  BY DEF LeaseInit, LeaseInv, LeaseTypeOK, KeysAreOwn, ReadsStayCurrent, InRoute, Stages

\* The steps that touch neither the locks nor the data.
LEMMA UnfencedSteps ==
    ASSUME LeaseInv, NEW r \in Requests,
           \/ acquire(r) \/ acquire_times_out(r)
           \/ route_returns(r) \/ route_raises(r) \/ heartbeat_fails(r)
           \/ release(r) \/ release_unavailable(r)
    PROVE  LeaseInv' /\ UNCHANGED <<locked, slots, data, seen>>
PROOF
  <1>1. UNCHANGED <<locked, slots, data, seen>>
    BY DEF acquire, acquire_times_out, route_returns, route_raises, heartbeat_fails,
           release, release_unavailable
  <1>2. PICK s \in Stages : /\ stage' = [stage EXCEPT ![r] = s]
                            /\ s \in {"working", "returned", "closing"} => InRoute(r)
    BY DEF acquire, acquire_times_out, route_returns, route_raises, heartbeat_fails,
           release, release_unavailable, Goes, At, Stages, InRoute
  <1>3. LeaseTypeOK'
    <2>1. owner' \in [Tenants -> Requests \cup {NoRequest}] /\ active' \subseteq Requests
      BY DEF LeaseInv, LeaseTypeOK, acquire, acquire_times_out, route_returns, route_raises,
             heartbeat_fails, release, release_unavailable, ScriptAcquires, ScriptReleases,
             redisVars, Tenant
    <2>2. limiter' \subseteq Requests
      BY DEF LeaseInv, LeaseTypeOK, acquire, acquire_times_out, route_returns, route_raises,
             heartbeat_fails, release, release_unavailable, LimiterCloses
    <2>3. stage' \in [Requests -> Stages]
      BY <1>2 DEF LeaseInv, LeaseTypeOK
    <2>q. QED BY <1>1, <2>1, <2>2, <2>3 DEF LeaseInv, LeaseTypeOK
  <1>4. ReadsStayCurrent'
    <2>1. \A q \in Requests : InRoute(q)' => InRoute(q)
      BY <1>2 DEF InRoute, LeaseInv, LeaseTypeOK
    <2>q. QED BY <2>1, <1>1 DEF ReadsStayCurrent, LeaseInv, LockKey, Tenant
  <1>q. QED BY <1>1, <1>3, <1>4 DEF LeaseInv, KeysAreOwn, LockKey

\* A request that gets the locks reads the data of the moment.
LEMMA FenceStep ==
    ASSUME LeaseInv, NEW r \in Requests, fence(r)
    PROVE  LeaseInv'
PROOF
  <1>0. LockKey(r) \in LockKeys /\ Tenant(r) \in Tenants
    BY DEF LockKey, Tenant
  <1>1. LeaseTypeOK'
    BY <1>0 DEF LeaseInv, LeaseTypeOK, fence, Goes, Stages
  <1>2. KeysAreOwn'
    BY <1>0 DEF LeaseInv, LeaseTypeOK, KeysAreOwn, fence, LockKey
  <1>3. ReadsStayCurrent'
    <2> SUFFICES ASSUME NEW q \in Requests, InRoute(q)'
                 PROVE  (locked[LockKey(q)] = q /\ seen[q] = data[Tenant(q)])'
      BY DEF ReadsStayCurrent
    <2>1. CASE q = r
      BY <2>1, <1>0 DEF LeaseInv, LeaseTypeOK, fence, LockKey, Tenant
    <2>2. CASE q # r
      <3>1. InRoute(q)
        BY <2>2 DEF LeaseInv, LeaseTypeOK, fence, Goes, InRoute
      <3>2. locked[LockKey(q)] = q /\ seen[q] = data[Tenant(q)] /\ LockKey(q) \in LockKeys
        BY <3>1 DEF LeaseInv, ReadsStayCurrent, LockKey
      <3>3. LockKey(q) # LockKey(r)
        BY <3>2 DEF fence, CanFence, TenantLockFree
      <3>q. QED BY <2>2, <3>2, <3>3, <1>0 DEF LeaseInv, LeaseTypeOK, fence, LockKey, Tenant
    <2>q. QED BY <2>1, <2>2
  <1>q. QED BY <1>1, <1>2, <1>3 DEF LeaseInv

\* A refused request may keep its tenant's key, which was free.
LEMMA RefusedStep ==
    ASSUME LeaseInv, NEW r \in Requests, fence_refused(r)
    PROVE  LeaseInv'
PROOF
  <1>0. LockKey(r) \in LockKeys
    BY DEF LockKey
  <1>1. LeaseTypeOK'
    BY <1>0 DEF LeaseInv, LeaseTypeOK, fence_refused, Goes, Stages
  <1>2. KeysAreOwn'
    BY <1>0 DEF LeaseInv, LeaseTypeOK, KeysAreOwn, fence_refused, LockKey
  <1>3. ReadsStayCurrent'
    <2> SUFFICES ASSUME NEW q \in Requests, InRoute(q)'
                 PROVE  (locked[LockKey(q)] = q /\ seen[q] = data[Tenant(q)])'
      BY DEF ReadsStayCurrent
    <2>1. q # r /\ InRoute(q)
      BY DEF LeaseInv, LeaseTypeOK, fence_refused, Goes, InRoute
    <2>2. locked[LockKey(q)] = q /\ seen[q] = data[Tenant(q)] /\ LockKey(q) \in LockKeys
      BY <2>1 DEF LeaseInv, ReadsStayCurrent, LockKey
    <2>3. locked'[LockKey(q)] = locked[LockKey(q)]
      BY <2>2, <1>0 DEF LeaseInv, LeaseTypeOK, fence_refused, TenantLockFree
    <2>q. QED BY <2>2, <2>3 DEF fence_refused, LockKey, Tenant
  <1>q. QED BY <1>1, <1>2, <1>3 DEF LeaseInv

\* A commit changes data that no other request has read: whoever else is in a
\* route holds another key, and so works for another tenant.
LEMMA CommitStep ==
    ASSUME LeaseInv, NEW r \in Requests, commit(r)
    PROVE  LeaseInv'
PROOF
  <1>0. /\ LockKey(r) \in LockKeys /\ Tenant(r) \in Tenants /\ seen[r] \in Nat
        /\ locked[LockKey(r)] = r
    BY DEF LockKey, Tenant, LeaseInv, LeaseTypeOK, commit, At, InRoute, ReadsStayCurrent
  <1>1. LocksEnd({r}) /\ LeaseTypeOK /\ KeysAreOwn /\ {r} \in SUBSET Requests
    BY DEF commit, LeaseInv
  <1>2. LeaseTypeOK'
    <2>1. /\ locked' \in [LockKeys -> Requests \cup {NoRequest}]
          /\ slots' \subseteq Requests
      BY <1>1, LocksEndKeepsOthers
    <2>2. data' \in [Tenants -> Nat] /\ stage' \in [Requests -> Stages]
      BY <1>0 DEF LeaseInv, LeaseTypeOK, commit, Goes, Stages
    <2>q. QED BY <2>1, <2>2 DEF LeaseInv, LeaseTypeOK, commit
  <1>3. KeysAreOwn'
    BY <1>1, LocksEndKeepsOthers
  <1>4. ReadsStayCurrent'
    <2> SUFFICES ASSUME NEW q \in Requests, InRoute(q)'
                 PROVE  (locked[LockKey(q)] = q /\ seen[q] = data[Tenant(q)])'
      BY DEF ReadsStayCurrent
    <2>1. q # r /\ InRoute(q)
      BY DEF LeaseInv, LeaseTypeOK, commit, Goes, InRoute
    <2>2. locked[LockKey(q)] = q /\ seen[q] = data[Tenant(q)] /\ LockKey(q) \in LockKeys
      BY <2>1 DEF LeaseInv, ReadsStayCurrent, LockKey
    <2>3. Tenant(q) # Tenant(r)
      BY <2>1, <2>2, <1>0 DEF LockKey, Tenant
    <2>4. locked'[LockKey(q)] = q
      BY <2>1, <2>2, <1>1, LocksEndKeepsOthers
    <2>5. data'[Tenant(q)] = data[Tenant(q)] /\ Tenant(q) \in Tenants
      BY <2>3, <1>0 DEF LeaseInv, LeaseTypeOK, commit, Tenant
    <2>q. QED BY <2>2, <2>4, <2>5 DEF commit, LockKey, Tenant
  <1>q. QED BY <1>2, <1>3, <1>4 DEF LeaseInv

\* A rollback, and a process that dies, only take from the requests that end.
LEMMA EndingStep ==
    ASSUME LeaseInv, NEW R \in SUBSET Requests, LocksEnd(R),
           stage' = [q \in Requests |-> IF q \in R THEN "done" ELSE stage[q]],
           limiter' \subseteq limiter, UNCHANGED <<owner, active, seen, data>>
    PROVE  LeaseInv'
PROOF
  <1>1. LeaseTypeOK /\ KeysAreOwn
    BY DEF LeaseInv
  <1>2. LeaseTypeOK'
    <2>1. /\ locked' \in [LockKeys -> Requests \cup {NoRequest}]
          /\ slots' \subseteq Requests
      BY <1>1, LocksEndKeepsOthers
    <2>2. stage' \in [Requests -> Stages] /\ limiter' \subseteq Requests
      BY <1>1 DEF LeaseTypeOK, Stages
    <2>q. QED BY <1>1, <2>1, <2>2 DEF LeaseTypeOK
  <1>3. KeysAreOwn'
    BY <1>1, LocksEndKeepsOthers
  <1>4. ReadsStayCurrent'
    <2> SUFFICES ASSUME NEW q \in Requests, InRoute(q)'
                 PROVE  (locked[LockKey(q)] = q /\ seen[q] = data[Tenant(q)])'
      BY DEF ReadsStayCurrent
    <2>1. q \notin R /\ InRoute(q)
      BY DEF InRoute
    <2>2. locked[LockKey(q)] = q /\ seen[q] = data[Tenant(q)] /\ LockKey(q) \in LockKeys
      BY <2>1 DEF LeaseInv, ReadsStayCurrent, LockKey
    <2>3. locked'[LockKey(q)] = q
      BY <2>1, <2>2, <1>1, LocksEndKeepsOthers
    <2>q. QED BY <2>2, <2>3 DEF LockKey, Tenant
  <1>q. QED BY <1>2, <1>3, <1>4 DEF LeaseInv

\* A rollback ends its one request the way EndingStep describes.
LEMMA RollbackEnds ==
    ASSUME LeaseInv, NEW r \in Requests, rollback(r)
    PROVE  /\ {r} \in SUBSET Requests /\ LocksEnd({r}) /\ UNCHANGED <<owner, active, seen, data>>
           /\ stage' = [q \in Requests |-> IF q \in {r} THEN "done" ELSE stage[q]]
           /\ limiter' \subseteq limiter
  BY DEF rollback, Goes, LeaseInv, LeaseTypeOK

\* A process that dies ends all its requests the same way.
LEMMA CrashEnds ==
    ASSUME LeaseInv, NEW a \in Replicas, replica_crash(a)
    PROVE  /\ InFlight(a) \in SUBSET Requests /\ LocksEnd(InFlight(a))
           /\ UNCHANGED <<owner, active, seen, data>>
           /\ stage' = [q \in Requests |-> IF q \in InFlight(a) THEN "done" ELSE stage[q]]
           /\ limiter' \subseteq limiter
PROOF
  <1>1. InFlight(a) \in SUBSET Requests
    BY DEF InFlight
  <1>q. QED BY <1>1 DEF replica_crash

\* Every step of the guard keeps the invariant.
LEMMA LeaseInvStep == LeaseInv /\ [LeaseNext]_leaseVars => LeaseInv'
PROOF
  <1> SUFFICES ASSUME LeaseInv, [LeaseNext]_leaseVars PROVE LeaseInv'
    OBVIOUS
  <1>1. ASSUME NEW r \in Requests,
               \/ acquire(r) \/ acquire_times_out(r)
               \/ route_returns(r) \/ route_raises(r) \/ heartbeat_fails(r)
               \/ release(r) \/ release_unavailable(r)
        PROVE  LeaseInv'
    BY <1>1, UnfencedSteps
  <1>2. ASSUME NEW r \in Requests, fence(r) PROVE LeaseInv'
    BY <1>2, FenceStep
  <1>3. ASSUME NEW r \in Requests, fence_refused(r) PROVE LeaseInv'
    BY <1>3, RefusedStep
  <1>4. ASSUME NEW r \in Requests, commit(r) PROVE LeaseInv'
    BY <1>4, CommitStep
  <1>5. ASSUME NEW r \in Requests, rollback(r) PROVE LeaseInv'
    BY <1>5, RollbackEnds, EndingStep
  <1>6. ASSUME NEW a \in Replicas, replica_crash(a) PROVE LeaseInv'
    BY <1>6, CrashEnds, EndingStep
  <1>7. ASSUME NEW t \in Tenants, lease_expires(t) PROVE LeaseInv'
    BY <1>7 DEF lease_expires, LeaseInv, LeaseTypeOK, KeysAreOwn, ReadsStayCurrent, InRoute,
                LockKey, Tenant
  <1>8. CASE UNCHANGED leaseVars
    BY <1>8 DEF leaseVars, LeaseInv, LeaseTypeOK, KeysAreOwn, ReadsStayCurrent, InRoute,
                LockKey, Tenant
  <1>q. QED BY <1>1, <1>2, <1>3, <1>4, <1>5, <1>6, <1>7, <1>8 DEF LeaseNext

\* Every reachable state of the guard satisfies the invariant.
THEOREM LeaseInvariant == LeaseSpec => []LeaseInv
PROOF
  <1>q. QED BY LeaseInvInit, LeaseInvStep, PTL DEF LeaseSpec

\* Types of the three layers: Redis, the locks of the database and the limiter.
THEOREM LeaseTyped == LeaseSpec => []LeaseTypeOK
PROOF
  <1>1. LeaseInv => LeaseTypeOK
    BY DEF LeaseInv
  <1>q. QED BY <1>1, LeaseInvariant, PTL

\* No lost update: a request about to commit decided on the current data,
\* whatever Redis forgot (_acquire_database_artifact_operation_locks).
THEOREM UpdatesAreKept == LeaseSpec => []NoLostUpdate
PROOF
  <1>1. LeaseInv => NoLostUpdate
    BY DEF LeaseInv, ReadsStayCurrent, InRoute, NoLostUpdate, At
  <1>q. QED BY <1>1, LeaseInvariant, PTL

-----------------------------------------------------------------------------
(* The guard implements TenantSerial                                       *)

\* The locks are given up by the requests of R: their tenants' holders leave.
LEMMA EndingLeaves ==
    ASSUME LeaseInv, NEW R \in SUBSET Requests, LocksEnd(R), NEW t \in Tenants
    PROVE  Holder(t)' = IF Holder(t) \in R THEN NoRequest ELSE Holder(t)
PROOF
  <1>1. LeaseTypeOK /\ KeysAreOwn /\ KeyOf[t] \in LockKeys
    BY DEF LeaseInv
  <1>2. CASE locked[KeyOf[t]] \in R
    <2>1. locked'[KeyOf[t]] = NoRequest
      BY <1>1, <1>2, LocksEndKeepsOthers
    <2>q. QED BY <2>1, <1>2 DEF Holder
  <1>3. CASE locked[KeyOf[t]] \notin R
    <2>1. locked'[KeyOf[t]] = locked[KeyOf[t]]
      BY <1>1, <1>3, LocksEndKeepsOthers
    <2>q. QED BY <2>1, <1>3 DEF Holder
  <1>q. QED BY <1>2, <1>3

\* A free key taken by r makes r the holder of its tenant and of no other.
LEMMA TakingEnters ==
    ASSUME LeaseInv, NEW r \in Requests, TenantLockFree(r),
           locked' = [locked EXCEPT ![LockKey(r)] = r]
    PROVE  /\ Holder(Tenant(r)) = NoRequest
           /\ \A t \in Tenants : Holder(t)' = IF t = Tenant(r) THEN r ELSE Holder(t)
PROOF
  <1>0. LockKey(r) \in LockKeys /\ Tenant(r) \in Tenants
    BY DEF LockKey, Tenant
  <1>1. Holder(Tenant(r)) = NoRequest
    BY DEF Holder, TenantLockFree, LockKey, Tenant
  <1>2. ASSUME NEW t \in Tenants
        PROVE  Holder(t)' = IF t = Tenant(r) THEN r ELSE Holder(t)
    <2>0. KeyOf[t] \in LockKeys
      OBVIOUS
    <2>1. CASE KeyOf[t] = LockKey(r)
      BY <2>1, <1>0, <2>0 DEF Holder, TenantLockFree, LockKey, Tenant, LeaseInv, LeaseTypeOK
    <2>2. CASE KeyOf[t] # LockKey(r)
      <3>1. locked'[KeyOf[t]] = locked[KeyOf[t]] /\ t # Tenant(r)
        BY <2>2, <2>0 DEF LeaseInv, LeaseTypeOK, LockKey, Tenant
      <3>q. QED BY <3>1 DEF Holder
    <2>q. QED BY <2>1, <2>2
  <1>q. QED BY <1>1, <1>2

\* The mapping gives the initial state of TenantSerial.
LEMMA RefinementInit == LeaseInit => Serial!SerialInit
  BY DEF LeaseInit, Serial!SerialInit

\* Every step of the guard is one of TenantSerial or leaves its state alone:
\* taking the key is Enter, the commit is Commit, whatever ends otherwise is
\* Leave, and everything Redis does is a stutter.
LEMMA RefinementStep ==
    LeaseInv /\ [LeaseNext]_leaseVars => [Serial!SerialNext]_Serial!serialVars
PROOF
  <1> DEFINE H == [t \in Tenants |-> Holder(t)]
             enter(r, t) == /\ H[t] = NoRequest /\ H' = [H EXCEPT ![t] = r] /\ data' = data
             write(t) == /\ H[t] # NoRequest /\ H' = [H EXCEPT ![t] = NoRequest]
                         /\ data' = [data EXCEPT ![t] = data[t] + 1]
             leave == /\ H' \in {[t \in Tenants |-> IF t \in T THEN NoRequest ELSE H[t]] :
                                    T \in SUBSET Tenants}
                      /\ data' = data
             same == H' = H /\ data' = data
  <1> SUFFICES ASSUME LeaseInv, [LeaseNext]_leaseVars
               PROVE  \/ \E r \in Requests, t \in Tenants : enter(r, t)
                      \/ \E t \in Tenants : write(t)
                      \/ leave
                      \/ same
    BY DEF Serial!SerialNext, Serial!serialVars, Serial!Enter, Serial!Commit, Serial!Leave, Holder
  <1>0. ASSUME UNCHANGED <<locked, data>> PROVE same
    BY <1>0 DEF Holder
  <1>a. ASSUME NEW R \in SUBSET Requests, LocksEnd(R), data' = data PROVE leave
    <2>1. \A t \in Tenants : Holder(t)' = IF Holder(t) \in R THEN NoRequest ELSE Holder(t)
      BY <1>a, EndingLeaves
    <2>2. H' = [t \in Tenants |-> IF t \in {u \in Tenants : Holder(u) \in R}
                                  THEN NoRequest ELSE H[t]]
      BY <2>1
    <2>q. QED BY <2>2, <1>a
  <1>b. ASSUME NEW r \in Requests, TenantLockFree(r), data' = data,
               locked' = [locked EXCEPT ![LockKey(r)] = r]
        PROVE  enter(r, Tenant(r)) /\ Tenant(r) \in Tenants
    <2>0. Tenant(r) \in Tenants
      BY DEF Tenant
    <2>1. /\ Holder(Tenant(r)) = NoRequest
          /\ \A t \in Tenants : Holder(t)' = IF t = Tenant(r) THEN r ELSE Holder(t)
      BY <1>b, TakingEnters
    <2>2. H' = [H EXCEPT ![Tenant(r)] = r]
      BY <2>1
    <2>q. QED BY <2>0, <2>1, <2>2, <1>b
  <1>1. ASSUME NEW r \in Requests,
               \/ acquire(r) \/ acquire_times_out(r)
               \/ route_returns(r) \/ route_raises(r) \/ heartbeat_fails(r)
               \/ release(r) \/ release_unavailable(r)
        PROVE  same
    BY <1>0, <1>1, UnfencedSteps
  <1>2. ASSUME NEW r \in Requests, fence(r) PROVE enter(r, Tenant(r)) /\ Tenant(r) \in Tenants
    BY <1>b, <1>2 DEF fence, CanFence
  <1>3. ASSUME NEW r \in Requests, fence_refused(r)
        PROVE  same \/ (enter(r, Tenant(r)) /\ Tenant(r) \in Tenants)
    <2>1. CASE TenantLockFree(r)
      BY <1>b, <1>3, <2>1 DEF fence_refused
    <2>2. CASE ~TenantLockFree(r)
      <3>1. locked' = locked /\ data' = data
        BY <1>3, <2>2 DEF fence_refused, LeaseInv, LeaseTypeOK
      <3>q. QED BY <3>1, <1>0
    <2>q. QED BY <2>1, <2>2
  <1>4. ASSUME NEW r \in Requests, commit(r) PROVE write(Tenant(r)) /\ Tenant(r) \in Tenants
    <2>0. Tenant(r) \in Tenants /\ locked[LockKey(r)] = r /\ seen[r] = data[Tenant(r)]
      BY <1>4 DEF commit, At, InRoute, LeaseInv, ReadsStayCurrent, Tenant
    <2>1. Holder(Tenant(r)) = r
      BY <2>0 DEF Holder, LockKey, Tenant
    <2>2. {r} \in SUBSET Requests /\ LocksEnd({r})
      BY <1>4 DEF commit
    <2>3. \A t \in Tenants : Holder(t)' = IF Holder(t) \in {r} THEN NoRequest ELSE Holder(t)
      BY <2>2, EndingLeaves
    <2>4. \A t \in Tenants : Holder(t) = r => t = Tenant(r)
      BY DEF Holder, Tenant
    <2>5. H' = [H EXCEPT ![Tenant(r)] = NoRequest]
      BY <2>0, <2>1, <2>3, <2>4
    <2>6. data' = [data EXCEPT ![Tenant(r)] = data[Tenant(r)] + 1]
      BY <1>4, <2>0 DEF commit
    <2>q. QED BY <2>0, <2>1, <2>5, <2>6
  <1>5. ASSUME NEW r \in Requests, rollback(r) PROVE leave
    BY <1>5, <1>a, RollbackEnds
  <1>6. ASSUME NEW a \in Replicas, replica_crash(a) PROVE leave
    BY <1>6, <1>a, CrashEnds
  <1>7. ASSUME NEW t \in Tenants, lease_expires(t) PROVE same
    BY <1>0, <1>7 DEF lease_expires
  <1>8. CASE UNCHANGED leaseVars
    BY <1>0, <1>8 DEF leaseVars
  <1> HIDE DEF enter, write, leave, same
  <1>q. QED BY <1>1, <1>2, <1>3, <1>4, <1>5, <1>6, <1>7, <1>8 DEF LeaseNext

\* The artifact operation guard implements TenantSerial: one operation of a
\* tenant after the other, whatever Redis forgets or keeps, and whichever
\* processes die (_artifact_operation_dependency).
THEOREM GuardSerialises == LeaseSpec => SerialOperations
PROOF
  <1>q. QED BY LeaseInvariant, RefinementInit, RefinementStep, PTL
        DEF LeaseSpec, SerialOperations, Serial!SerialSpec

-----------------------------------------------------------------------------
(* The three layers agree                                                  *)

\* A tenant key holds the token of a request of that tenant, and the sorted
\* set counts the owners and nobody else.
TokensAreOwn ==
    /\ \A t \in Tenants : owner[t] \in Requests => TenantOf[owner[t]] = t
    /\ RedisAccountingAgrees

\* The slots never exceed the limit, and whoever has a place in its process
\* holds a slot and its tenant's key and is not past the dependency's finally.
SlotsAreBounded == IsFiniteSet(slots) /\ Cardinality(slots) <= Limit
PlacesAreFenced ==
    /\ \A r \in Requests : stage[r] \in {"working", "returned"} => r \in limiter
    /\ limiter \subseteq slots
    /\ \A q \in limiter : /\ locked[LockKey(q)] = q
                          /\ stage[q] \in {"working", "returned", "failing"}

LayersInv == TokensAreOwn /\ SlotsAreBounded /\ PlacesAreFenced

\* A script that acquires or releases changes the key and the set together.
LEMMA ScriptsKeepTokens ==
    ASSUME LeaseTypeOK, TokensAreOwn, NEW r \in Requests,
           \/ CanAcquire(r) /\ ScriptAcquires(r)
           \/ ScriptReleases(r)
           \/ UNCHANGED redisVars
    PROVE  TokensAreOwn'
PROOF
  <1>0. Tenant(r) \in Tenants /\ TenantOf[r] = Tenant(r) /\ NoRequest \notin Requests
    BY DEF Tenant
  <1>1. CASE CanAcquire(r) /\ ScriptAcquires(r)
    <2>1. owner[Tenant(r)] = NoRequest /\ owner' = [owner EXCEPT ![Tenant(r)] = r]
          /\ active' = active \cup {r}
      BY <1>1 DEF CanAcquire, ScriptAcquires
    <2>2. \A t \in Tenants : owner'[t] = IF t = Tenant(r) THEN r ELSE owner[t]
      BY <2>1 DEF LeaseTypeOK
    <2>3. active' = {owner'[t] : t \in Tenants} \ {NoRequest}
      BY <2>1, <2>2, <1>0 DEF TokensAreOwn, RedisAccountingAgrees
    <2>q. QED BY <2>2, <2>3, <1>0 DEF TokensAreOwn, RedisAccountingAgrees
  <1>2. CASE ScriptReleases(r) /\ owner[Tenant(r)] = r
    <2>1. /\ owner' = [owner EXCEPT ![Tenant(r)] = NoRequest]
          /\ active' = active \ {r}
      BY <1>2 DEF ScriptReleases
    <2>2. \A t \in Tenants : owner'[t] = IF t = Tenant(r) THEN NoRequest ELSE owner[t]
      BY <2>1 DEF LeaseTypeOK
    <2>3. \A t \in Tenants : owner[t] = r => t = Tenant(r)
      BY <1>0 DEF TokensAreOwn
    <2>4. active' = {owner'[t] : t \in Tenants} \ {NoRequest}
      BY <2>1, <2>2, <2>3, <1>0, <1>2 DEF TokensAreOwn, RedisAccountingAgrees
    <2>q. QED BY <2>2, <2>4, <1>0 DEF TokensAreOwn, RedisAccountingAgrees
  <1>3. CASE UNCHANGED redisVars
    BY <1>3 DEF redisVars, TokensAreOwn, RedisAccountingAgrees
  <1>q. QED BY <1>1, <1>2, <1>3 DEF ScriptReleases

\* A lease that expires leaves both as well.
LEMMA ExpiryKeepsTokens ==
    ASSUME LeaseTypeOK, TokensAreOwn, NEW t \in Tenants, lease_expires(t)
    PROVE  TokensAreOwn'
PROOF
  <1>1. /\ owner[t] \in Requests /\ active' = active \ {owner[t]}
        /\ owner' = [owner EXCEPT ![t] = NoRequest]
    BY DEF lease_expires, LeaseTypeOK
  <1>2. \A u \in Tenants : owner'[u] = IF u = t THEN NoRequest ELSE owner[u]
    BY <1>1 DEF LeaseTypeOK
  <1>3. \A u \in Tenants : owner[u] = owner[t] => u = t
    BY <1>1 DEF TokensAreOwn
  <1>4. active' = {owner'[u] : u \in Tenants} \ {NoRequest}
    BY <1>1, <1>2, <1>3 DEF TokensAreOwn, RedisAccountingAgrees
  <1>q. QED BY <1>2, <1>4 DEF TokensAreOwn, RedisAccountingAgrees

\* A slot is taken only while one is free, and giving slots back shrinks them.
LEMMA SlotsStayBounded ==
    ASSUME SlotsAreBounded,
           \/ slots' \subseteq slots
           \/ SlotFree /\ \E r \in Requests : slots' = slots \cup {r}
    PROVE  SlotsAreBounded'
PROOF
  <1>1. IsFiniteSet(slots) /\ Cardinality(slots) \in Nat /\ Cardinality(slots) <= Limit
    BY FS_CardinalityType DEF SlotsAreBounded
  <1>2. CASE slots' \subseteq slots
    <2>1. /\ IsFiniteSet(slots') /\ Cardinality(slots') <= Cardinality(slots)
      BY <1>1, <1>2, FS_Subset
    <2>2. Cardinality(slots') \in Nat
      BY <2>1, FS_CardinalityType
    <2>q. QED BY <1>1, <2>1, <2>2 DEF SlotsAreBounded
  <1>3. ASSUME SlotFree, NEW r \in Requests, slots' = slots \cup {r} PROVE SlotsAreBounded'
    <2>1. IsFiniteSet(slots \cup {r})
          /\ Cardinality(slots \cup {r}) = IF r \in slots THEN Cardinality(slots)
                                                          ELSE Cardinality(slots) + 1
      BY <1>1, FS_AddElement
    <2>q. QED BY <1>1, <1>3, <2>1 DEF SlotsAreBounded, SlotFree
  <1>q. QED BY <1>2, <1>3

\* The steps that touch neither the locks nor the slots keep the layers: a
\* place is left exactly when the lease is given back.
LEMMA LayersUnfenced ==
    ASSUME LeaseInv, LayersInv, NEW r \in Requests,
           \/ acquire(r) \/ acquire_times_out(r)
           \/ route_returns(r) \/ route_raises(r) \/ heartbeat_fails(r)
           \/ release(r) \/ release_unavailable(r)
    PROVE  LayersInv'
PROOF
  <1>0. LeaseTypeOK /\ TokensAreOwn /\ SlotsAreBounded /\ PlacesAreFenced
    BY DEF LeaseInv, LayersInv
  <1>1. UNCHANGED <<locked, slots, data, seen>>
    BY UnfencedSteps
  <1>2. \/ CanAcquire(r) /\ ScriptAcquires(r)
        \/ ScriptReleases(r)
        \/ UNCHANGED redisVars
    BY DEF acquire, acquire_times_out, route_returns, route_raises, heartbeat_fails,
           release, release_unavailable, redisVars
  <1>3. TokensAreOwn'
    BY <1>0, <1>2, ScriptsKeepTokens
  <1>4. SlotsAreBounded'
    BY <1>0, <1>1 DEF SlotsAreBounded
  <1>5. PlacesAreFenced'
    <2>1. CASE acquire(r) \/ acquire_times_out(r)
      <3>1. r \notin limiter /\ limiter' = limiter
        BY <2>1, <1>0 DEF acquire, acquire_times_out, At, PlacesAreFenced
      <3>2. PICK s \in {"leased", "done"} : stage' = [stage EXCEPT ![r] = s]
        BY <2>1 DEF acquire, acquire_times_out, Goes
      <3>q. QED BY <1>0, <1>1, <3>1, <3>2 DEF PlacesAreFenced, LeaseTypeOK, LockKey
    <2>2. CASE route_returns(r) \/ route_raises(r) \/ heartbeat_fails(r)
      <3>1. r \in limiter /\ limiter' = limiter
        BY <2>2, <1>0 DEF route_returns, route_raises, heartbeat_fails, At, PlacesAreFenced
      <3>2. PICK s \in {"returned", "failing"} : stage' = [stage EXCEPT ![r] = s]
        BY <2>2 DEF route_returns, route_raises, heartbeat_fails, Goes
      <3>q. QED BY <1>0, <1>1, <3>1, <3>2 DEF PlacesAreFenced, LeaseTypeOK, LockKey
    <2>3. CASE release(r) \/ release_unavailable(r)
      <3>1. limiter' = limiter \ {r}
        BY <2>3 DEF release, release_unavailable, LimiterCloses
      <3>2. PICK s \in {"closing", "aborting"} : stage' = [stage EXCEPT ![r] = s]
        BY <2>3 DEF release, release_unavailable, Goes
      <3>q. QED BY <1>0, <1>1, <3>1, <3>2 DEF PlacesAreFenced, LeaseTypeOK, LockKey
    <2>q. QED BY <2>1, <2>2, <2>3
  <1>q. QED BY <1>3, <1>4, <1>5 DEF LayersInv

\* Getting the locks, or some of them and a refusal, takes a free key only, so
\* no place in a process loses its key.
LEMMA LayersFence ==
    ASSUME LeaseInv, LayersInv, NEW r \in Requests, fence(r) \/ fence_refused(r)
    PROVE  LayersInv'
PROOF
  <1>0. LeaseTypeOK /\ TokensAreOwn /\ SlotsAreBounded /\ PlacesAreFenced
        /\ LockKey(r) \in LockKeys
    BY DEF LeaseInv, LayersInv, LockKey
  <1>1. TokensAreOwn'
    BY <1>0 DEF fence, fence_refused, TokensAreOwn, RedisAccountingAgrees
  <1>2. SlotsAreBounded'
    BY <1>0, SlotsStayBounded DEF fence, fence_refused, CanFence
  <1>3. r \notin limiter /\ stage[r] = "leased"
    BY <1>0 DEF fence, fence_refused, At, PlacesAreFenced
  <1>4. \A q \in limiter : LockKey(q) \in LockKeys /\ locked'[LockKey(q)] = q
    <2> SUFFICES ASSUME NEW q \in limiter
                 PROVE  LockKey(q) \in LockKeys /\ locked'[LockKey(q)] = q
      OBVIOUS
    <2>1. q \in Requests /\ locked[LockKey(q)] = q /\ LockKey(q) \in LockKeys
      BY <1>0 DEF PlacesAreFenced, LeaseTypeOK, LockKey
    <2>2. CASE LockKey(q) # LockKey(r)
      BY <2>1, <2>2, <1>0 DEF LeaseTypeOK, fence, fence_refused
    <2>3. CASE LockKey(q) = LockKey(r)
      <3>1. ~TenantLockFree(r)
        BY <2>1, <2>3 DEF TenantLockFree
      <3>q. QED BY <2>1, <2>3, <3>1, <1>0 DEF LeaseTypeOK, fence, fence_refused, CanFence
    <2>q. QED BY <2>2, <2>3
  <1>5. PlacesAreFenced'
    <2>1. CASE fence(r)
      <3>1. /\ locked'[LockKey(r)] = r /\ limiter' = limiter \cup {r} /\ slots' = slots \cup {r}
            /\ stage' = [stage EXCEPT ![r] = "working"]
        BY <2>1, <1>0 DEF fence, Goes, LeaseTypeOK
      <3>q. QED BY <1>0, <1>4, <3>1 DEF PlacesAreFenced, LeaseTypeOK, LockKey
    <2>2. CASE fence_refused(r)
      <3>1. /\ limiter' = limiter /\ slots \subseteq slots'
            /\ stage' = [stage EXCEPT ![r] = "failing"]
        BY <2>2, <1>0 DEF fence_refused, Goes, LeaseTypeOK
      <3>q. QED BY <1>0, <1>3, <1>4, <3>1 DEF PlacesAreFenced, LeaseTypeOK, LockKey
    <2>q. QED BY <2>1, <2>2
  <1>q. QED BY <1>1, <1>2, <1>5 DEF LayersInv

\* A transaction, or a process, ends and none of its requests keeps a place.
LEMMA LayersEnd ==
    ASSUME LeaseInv, LayersInv, NEW R \in SUBSET Requests, LocksEnd(R),
           stage' = [q \in Requests |-> IF q \in R THEN "done" ELSE stage[q]],
           limiter' = limiter \ R, UNCHANGED <<owner, active>>
    PROVE  LayersInv'
PROOF
  <1>0. LeaseTypeOK /\ KeysAreOwn /\ TokensAreOwn /\ SlotsAreBounded /\ PlacesAreFenced
    BY DEF LeaseInv, LayersInv
  <1>1. TokensAreOwn'
    BY <1>0 DEF TokensAreOwn, RedisAccountingAgrees
  <1>2. slots' = slots \ R
    BY DEF LocksEnd
  <1>3. SlotsAreBounded'
    BY <1>0, <1>2, SlotsStayBounded
  <1>4. \A q \in limiter \ R : LockKey(q) \in LockKeys /\ locked'[LockKey(q)] = q
    <2> SUFFICES ASSUME NEW q \in limiter \ R
                 PROVE  LockKey(q) \in LockKeys /\ locked'[LockKey(q)] = q
      OBVIOUS
    <2>1. q \in Requests /\ locked[LockKey(q)] = q /\ LockKey(q) \in LockKeys
      BY <1>0 DEF PlacesAreFenced, LeaseTypeOK, LockKey
    <2>q. QED BY <2>1, <1>0, LocksEndKeepsOthers
  <1>5. PlacesAreFenced'
    BY <1>0, <1>2, <1>4 DEF PlacesAreFenced, LeaseTypeOK, LockKey
  <1>q. QED BY <1>1, <1>3, <1>5 DEF LayersInv

\* Every step keeps the layers in agreement.
LEMMA LayersStep == LeaseInv /\ LayersInv /\ [LeaseNext]_leaseVars => LayersInv'
PROOF
  <1> SUFFICES ASSUME LeaseInv, LayersInv, [LeaseNext]_leaseVars PROVE LayersInv'
    OBVIOUS
  <1>0. LeaseTypeOK /\ PlacesAreFenced /\ SlotsAreBounded /\ TokensAreOwn
    BY DEF LeaseInv, LayersInv
  <1>1. ASSUME NEW r \in Requests,
               \/ acquire(r) \/ acquire_times_out(r)
               \/ route_returns(r) \/ route_raises(r) \/ heartbeat_fails(r)
               \/ release(r) \/ release_unavailable(r)
        PROVE  LayersInv'
    BY <1>1, LayersUnfenced
  <1>2. ASSUME NEW r \in Requests, fence(r) \/ fence_refused(r) PROVE LayersInv'
    BY <1>2, LayersFence
  <1>3. ASSUME NEW r \in Requests, commit(r) \/ rollback(r) PROVE LayersInv'
    <2>1. r \notin limiter
      BY <1>0, <1>3 DEF commit, rollback, At, PlacesAreFenced
    <2>2. /\ {r} \in SUBSET Requests /\ LocksEnd({r}) /\ UNCHANGED <<owner, active>>
          /\ stage' = [q \in Requests |-> IF q \in {r} THEN "done" ELSE stage[q]]
          /\ limiter' = limiter \ {r}
      BY <1>0, <1>3, <2>1 DEF commit, rollback, Goes, LeaseTypeOK
    <2>q. QED BY <2>2, LayersEnd
  <1>4. ASSUME NEW a \in Replicas, replica_crash(a) PROVE LayersInv'
    <2>1. InFlight(a) \in SUBSET Requests /\ LocksEnd(InFlight(a)) /\ UNCHANGED <<owner, active>>
          /\ stage' = [q \in Requests |-> IF q \in InFlight(a) THEN "done" ELSE stage[q]]
      BY <1>4, CrashEnds
    <2>2. limiter' = limiter \ InFlight(a)
      BY <1>4 DEF replica_crash
    <2>q. QED BY <2>1, <2>2, LayersEnd
  <1>5. ASSUME NEW t \in Tenants, lease_expires(t) PROVE LayersInv'
    <2>1. TokensAreOwn'
      BY <1>0, <1>5, ExpiryKeepsTokens
    <2>2. UNCHANGED <<locked, slots, limiter, stage>>
      BY <1>5 DEF lease_expires
    <2>q. QED BY <1>0, <2>1, <2>2 DEF LayersInv, SlotsAreBounded, PlacesAreFenced, LockKey
  <1>6. CASE UNCHANGED leaseVars
    BY <1>0, <1>6 DEF leaseVars, LayersInv, TokensAreOwn, RedisAccountingAgrees,
                      SlotsAreBounded, PlacesAreFenced, LockKey
  <1>q. QED BY <1>1, <1>2, <1>3, <1>4, <1>5, <1>6 DEF LeaseNext

\* The initial state has no owner, no slot and no place.
LEMMA LayersInit == LeaseInit => LayersInv
PROOF
  <1> SUFFICES ASSUME LeaseInit PROVE LayersInv
    OBVIOUS
  <1>1. TokensAreOwn
    BY DEF LeaseInit, TokensAreOwn, RedisAccountingAgrees
  <1>2. IsFiniteSet({}) /\ Cardinality({}) = 0
    BY FS_EmptySet
  <1>3. SlotsAreBounded
    BY <1>2 DEF LeaseInit, SlotsAreBounded
  <1>4. PlacesAreFenced
    BY DEF LeaseInit, PlacesAreFenced
  <1>q. QED BY <1>1, <1>3, <1>4 DEF LayersInv

\* In every reachable state keys and sorted set agree, the slots are bounded,
\* and every place in a process is behind a slot and a key.
THEOREM LayersInvariant == LeaseSpec => []LayersInv
PROOF
  <1>q. QED BY LayersInit, LayersStep, LeaseInvariant, PTL DEF LeaseSpec

\* The three layers agree for any number of requests, tenants and processes:
\* a slot never leaks, no more than the limit are in their routes, and behind
\* the advisory locks the limiter of the process never refuses
\* (_acquire_database_artifact_operation_locks, local_lease.close()).
THEOREM LayersAgree == LeaseSpec => []GuardLayersAgree
PROOF
  <1>1. LeaseInv /\ LayersInv => GuardLayersAgree
    <2> SUFFICES ASSUME LeaseInv, LayersInv PROVE GuardLayersAgree
      OBVIOUS
    <2>0. /\ LeaseTypeOK /\ TokensAreOwn /\ PlacesAreFenced /\ IsFiniteSet(slots)
          /\ Cardinality(slots) <= Limit /\ Cardinality(slots) \in Nat
      BY FS_CardinalityType DEF LeaseInv, LayersInv, SlotsAreBounded
    <2>1. ASSUME NEW S \in SUBSET slots
          PROVE  Cardinality(S) \in Nat /\ Cardinality(S) <= Cardinality(slots)
      <3>1. IsFiniteSet(S) /\ Cardinality(S) <= Cardinality(slots)
        BY <2>0, FS_Subset
      <3>q. QED BY <3>1, FS_CardinalityType
    <2>2. GlobalBound
      <3>1. {r \in Requests : At(r, "working")} \in SUBSET slots
        BY <2>0 DEF At, PlacesAreFenced
      <3>q. QED BY <2>0, <2>1, <3>1 DEF GlobalBound
    <2>3. LimiterBehindFence
      <3> SUFFICES ASSUME NEW r \in Requests, TenantLockFree(r), SlotFree
                   PROVE  LimiterAdmits(r)
        BY DEF LimiterBehindFence
      <3>1. ASSUME NEW q \in InProcess(r), Tenant(q) = Tenant(r) PROVE FALSE
        <4>1. q \in limiter /\ q \in Requests /\ LockKey(q) = LockKey(r)
          BY <3>1, <2>0 DEF InProcess, Tenant, LockKey, LeaseTypeOK
        <4>q. QED BY <4>1, <2>0 DEF PlacesAreFenced, TenantLockFree
      <3>2. InProcess(r) \in SUBSET slots
        BY <2>0 DEF InProcess, PlacesAreFenced
      <3>3. Cardinality(InProcess(r)) < Limit
        BY <3>2, <2>0, <2>1 DEF SlotFree
      <3>q. QED BY <3>1, <3>3 DEF LimiterAdmits
    <2>q. QED BY <2>0, <2>2, <2>3 DEF GuardLayersAgree, TokensAreOwn
  <1>q. QED BY <1>1, LeaseInvariant, LayersInvariant, PTL
=============================================================================
