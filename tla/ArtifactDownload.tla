-------------------------- MODULE ArtifactDownload --------------------------
(***************************************************************************)
(* services/api/app/api.py: the routes that list and stream artifacts, the *)
(* signed statement route, and the multipart uploads that share their      *)
(* budget.  A route reads rows, then spends seconds in the object store,   *)
(* then reads the rows again before it answers; revisions, approvals,      *)
(* evidence and the workshop's profile may change at any time in between.  *)
(*                                                                         *)
(* Each organisation has one project whose first revision was approved,    *)
(* generated (job) and released, and runs one operation at a time          *)
(* (ArtifactOperationLease).  Rows start bound to that revision; what can  *)
(* change in them only moves away from it.                                 *)
(***************************************************************************)
EXTENDS VerifiedSpool

CONSTANTS
    MaxOperations,  \* bound: operations of each organisation
    RoutesOf,       \* bound: routes each organisation calls
    Disturbed       \* bound: organisations whose rows and objects change

VARIABLES
    rows,       \* organisation -> what the database says of its project
    profile,    \* is the deployed machine profile the one the jobs were made with
    pc, op,     \* the operation under way: where it is and what it asks for
    expected,   \* rows the operation compares with later
    atIO,       \* history: the rows when its last storage byte was checked
    sent,       \* chunks the client received
    result,     \* how the last response ended
    links,      \* signed links still valid, by subject
    operations

apiVars == <<rows, profile, pc, op, expected, atIO, sent, result, links, operations>>
downloadVars == <<storageVars, apiVars>>

Targets == {"production_bundle", "cam_candidate_bundle"}
Candidate == {"cam_candidate_bundle"}
Evidence == "external_evidence"
Statement == "joint_retention"
Upload == "upload"
(* Kinds of a job's own inventory; the model is listed but never retained. *)
Inventory == Kinds \ {Evidence, Statement, Upload}
Retained == Inventory \ {"design_glb"}

ASSUME DownloadAssumption == Targets \cup {Evidence, Statement, Upload} \subseteq Kinds

Roles == {"designer", "operator", "reviewer"}
CanReadCandidate(role) == role \in {"operator", "reviewer"}
CanReadCurrentCandidate(role) == role = "reviewer"
CanReadStatement(role) == role \in {"operator", "reviewer"}

AsGenerated == [current |-> TRUE, approval |-> "generated", evidence |-> "valid",
                statement |-> "valid", uploaded |-> FALSE]
NoOp == [route |-> "none", kind |-> "none", role |-> "none"]

DownloadInit ==
    /\ SpoolInit
    /\ rows = [t \in Organizations |-> AsGenerated]
    /\ profile = "generated"
    /\ pc = [t \in Organizations |-> "idle"]
    /\ op = [t \in Organizations |-> NoOp]
    /\ expected = [t \in Organizations |-> AsGenerated]
    /\ atIO = [t \in Organizations |-> [rows |-> AsGenerated, profile |-> "generated"]]
    /\ sent = [t \in Organizations |-> 0]
    /\ result = [t \in Organizations |-> "none"]
    /\ links = [t \in Organizations |-> {}]
    /\ operations = [t \in Organizations |-> 0]

----------------------------------------------------------------------------
(* What the gates ask of the rows *)
\* Mutant: the revision read before the I/O is taken for the current one.
CachedVersion(t) == expected[t].current
FreshVersion(t) == rows[t].current
_require_current_artifacts(t) == rows[t].current
_require_promotable_cam_candidate_profile(k) == k \in Candidate => profile = "generated"
(* What authorises a release's bytes: its status as a version among them. *)
_release_archive_binding(row) == <<row.current>>

(* A link is bound to its route, its artifact and its organisation. *)
Subject(route, k) == <<route, k>>
verify_artifact_access(t, route, k) == Subject(route, k) \in links[t]

(* _resolve_release_archive locks the version and its jobs until the        *)
(* response has ended.                                                      *)
VersionLocked(t) == op[t].route \in {"release", "list_release"}

----------------------------------------------------------------------------
(* Steps of an operation *)
Proceeds(t, from, to) == pc[t] = from /\ pc' = [pc EXCEPT ![t] = to]
RowsKept == UNCHANGED <<rows, profile>>
AnswersKept == UNCHANGED <<sent, result, links>>

Begins(t, route, k, role, to) ==
    /\ operations[t] < MaxOperations[t] /\ route \in RoutesOf[t]
    /\ operations' = [operations EXCEPT ![t] = @ + 1]
    /\ Proceeds(t, "idle", to)
    /\ io[t].releasing = "nobody"
    /\ op' = [op EXCEPT ![t] = [route |-> route, kind |-> k, role |-> role]]
    /\ expected' = [expected EXCEPT ![t] = rows[t]]
    /\ io' = [io EXCEPT ![t] = NoIO]
    /\ UNCHANGED <<store, reserved, disturbances, atIO>> /\ RowsKept /\ AnswersKept

(* The operation is over and its lease given back. *)
Forgets(t) ==
    /\ op' = [op EXCEPT ![t] = NoOp]
    /\ expected' = [expected EXCEPT ![t] = AsGenerated]
    /\ atIO' = [atIO EXCEPT ![t] = [rows |-> AsGenerated, profile |-> "generated"]]
    /\ UNCHANGED operations

list_artifacts(t, role) ==
    /\ _require_current_artifacts(t)
    /\ CanReadCurrentCandidate(role) => profile = "generated"
    /\ Begins(t, "list", "none", role, "review")

download_artifact(t, k, role) ==
    /\ verify_artifact_access(t, "job", k)
    /\ k \in Candidate => CanReadCurrentCandidate(role)
    /\ k = "production_bundle" => CanReadStatement(role)
    /\ _require_current_artifacts(t)
    /\ _require_promotable_cam_candidate_profile(k)
    /\ Begins(t, "job", k, "any", "open")

list_release_artifacts(t, role) ==
    /\ Begins(t, "list_release", "none", role, "retention")

download_release_artifact(t, k, role) ==
    /\ verify_artifact_access(t, "release", k)
    /\ k \in Candidate => CanReadCandidate(role)
    /\ k = "production_bundle" => CanReadStatement(role)
    /\ Begins(t, "release", k, "any", "open")

download_joint_retention_evidence(t, role) ==
    /\ CanReadStatement(role)
    /\ rows[t].statement = "valid" /\ rows[t].current
    /\ Begins(t, "statement", Statement, "any", "retention")

(* The request body of an upload is buffered before its route runs. *)
receive_body(t) == Begins(t, "upload", Upload, "any", "body")

----------------------------------------------------------------------------
(* One verified object *)
Same == UNCHANGED <<op, operations, expected, atIO>> /\ RowsKept /\ AnswersKept

Opens(t) ==
    /\ Proceeds(t, "open", "get")
    /\ reserve(t, SizeOf[op[t].kind])
    /\ UNCHANGED <<store, disturbances>> /\ Same

Gets(t) == Proceeds(t, "get", "reading") /\ get_object(t, op[t].kind) /\ Same
Reads(t) == pc[t] = "reading" /\ _read_storage_chunk(t) /\ UNCHANGED pc /\ Same
Misdelivers(t) == pc[t] = "reading" /\ body_misdelivered(t) /\ UNCHANGED pc /\ Same
\* Mutant: the read deadline never fires.
NoTimer(t) == FALSE /\ UNCHANGED downloadVars
DeadlinePasses(t) == pc[t] = "reading" /\ abort(t) /\ UNCHANGED pc /\ Same

AfterOpen(t) ==
    CASE op[t].route = "job" -> "review"
      [] op[t].route = "release" -> "retention"
      [] OTHER -> "refresh"

(* The statement route does no storage I/O after this step. *)
Verifies(t) ==
    /\ Proceeds(t, "reading", AfterOpen(t))
    /\ open_verified_stored_object(t, op[t].kind)
    /\ atIO' = [atIO EXCEPT ![t] = [rows |-> rows[t], profile |-> profile]]
    /\ UNCHANGED <<op, operations, expected>> /\ RowsKept /\ AnswersKept

----------------------------------------------------------------------------
(* The review of the package around the target *)
StatementReadable(t) ==
    /\ rows[t].statement = "valid"
    /\ read_verified_stored_object(t, Statement)

AfterRetention(t) == IF op[t].route = "statement" THEN "open" ELSE "review"

_require_current_retention_binding(t) ==
    /\ Proceeds(t, "retention", AfterRetention(t))
    /\ StatementReadable(t)
    /\ UNCHANGED storageVars /\ Same

(* The target is excluded: its token already holds its bytes. *)
RetainedBytes(t) ==
    SumFunctionOnSet(SizeOf, Retained \ {op[t].kind})

ReviewReserves(t) ==
    /\ Proceeds(t, "review", "siblings")
    /\ reserve_transient_bytes(t, RetainedBytes(t))
    /\ UNCHANGED <<store, disturbances>> /\ Same

SiblingVerified(t, k) ==
    IF k \in Retained THEN read_verified_stored_object(t, k) ELSE verify_metadata(t, k)

AfterReview(t) == IF op[t].route \in {"list", "job"} THEN "bound" ELSE "refresh"

(* _review_evidence_issues_owned: every other object of the inventory is   *)
(* read or its metadata compared, the target is read from its own token,   *)
(* and the retained bytes are given back.                                  *)
ReviewsSiblings(t) ==
    /\ Proceeds(t, "siblings", AfterReview(t))
    /\ \A k \in Inventory \ {op[t].kind} : SiblingVerified(t, k)
    /\ op[t].kind \in Targets => CanValidate(t)
    /\ reserved' = reserved - io[t].retained
    /\ io' = [io EXCEPT ![t] =
          [(IF op[t].kind \in Targets THEN validation_bytes(io[t], op[t].kind) ELSE io[t])
             EXCEPT !.retained = 0]]
    /\ atIO' = [atIO EXCEPT ![t] = [rows |-> rows[t], profile |-> profile]]
    /\ UNCHANGED <<store, disturbances, op, operations, expected>> /\ RowsKept /\ AnswersKept

EvidenceCurrent(t) == rows[t].evidence = "valid"
ApprovalCurrent(t) == rows[t].approval = "generated"

(* The rows of the design approval and of the evidence it and the job cite. *)
_resolve_external_evidence_rows(t) ==
    /\ Proceeds(t, "bound", "evidence")
    /\ StatementReadable(t)
    /\ ApprovalCurrent(t) /\ EvidenceCurrent(t)
    /\ expected' = [expected EXCEPT ![t] = rows[t]]
    /\ UNCHANGED <<storageVars, op, operations, atIO>> /\ RowsKept /\ AnswersKept

(* Their bytes are streamed: the last storage I/O of the job routes. *)
_verified_external_evidence(t) ==
    /\ Proceeds(t, "evidence", "recheck")
    /\ verify_stored_object(t, Evidence)
    /\ atIO' = [atIO EXCEPT ![t] = [rows |-> rows[t], profile |-> profile]]
    /\ UNCHANGED <<storageVars, op, operations, expected>> /\ RowsKept /\ AnswersKept

BindingsCurrent(t) ==
    /\ EvidenceCurrent(t) /\ ApprovalCurrent(t)
    /\ rows[t].evidence = expected[t].evidence /\ rows[t].approval = expected[t].approval

(* Evidence rows and approval once more, without further I/O. *)
_require_current_bound_job_evidence(t) ==
    /\ Proceeds(t, "recheck", "refresh")
    /\ BindingsCurrent(t)
    /\ UNCHANGED storageVars /\ Same

----------------------------------------------------------------------------
(* The last look at the rows, and the answer *)
RefreshedFits(t) ==
    CASE op[t].route \in {"list", "job"} -> FreshVersion(t)
      [] op[t].route = "statement" ->
           /\ rows[t].statement = "valid" /\ rows[t].statement = expected[t].statement
           /\ FreshVersion(t)
      [] OTHER -> _release_archive_binding(rows[t]) = _release_archive_binding(expected[t])

Refreshes(t) ==
    /\ Proceeds(t, "refresh", IF op[t].route \in {"list", "job"} THEN "profile" ELSE "respond")
    /\ RefreshedFits(t)
    /\ UNCHANGED storageVars /\ Same

NeedsProfile(t) ==
    \/ op[t].kind \in Candidate
    \/ op[t].route = "list" /\ CanReadCurrentCandidate(op[t].role)

ProfileRechecked(t) ==
    /\ Proceeds(t, "profile", "respond")
    /\ NeedsProfile(t) => profile = "generated"
    /\ UNCHANGED storageVars /\ Same

LinkRoute(t) == IF op[t].route = "list" THEN "job" ELSE "release"
Listed(t) ==
    { k \in Targets : k \in Candidate =>
          IF op[t].route = "list" THEN CanReadCurrentCandidate(op[t].role)
          ELSE CanReadCandidate(op[t].role) }

SignsLinks(t) ==
    /\ op[t].route \in {"list", "list_release"}
    /\ Proceeds(t, "respond", "idle")
    /\ links' = [links EXCEPT ![t] = @ \cup {Subject(LinkRoute(t), k) : k \in Listed(t)}]
    /\ Forgets(t)
    /\ UNCHANGED <<storageVars, sent, result>> /\ RowsKept

_verified_artifact_response(t) ==
    /\ op[t].route \in {"job", "release", "statement"}
    /\ Proceeds(t, "respond", "streaming")
    /\ iter_bytes(t)
    /\ UNCHANGED <<store, disturbances>> /\ Same

----------------------------------------------------------------------------
(* Streaming: the iterator is advanced by a pool thread, the response is   *)
(* ended by the client, by its timeout or by the iterator.                 *)
StreamKept == UNCHANGED <<store, op, operations, expected, atIO, links>> /\ RowsKept

SendsChunk(t) ==
    /\ pc[t] = "streaming" /\ _next_stream_chunk(t)
    /\ sent' = [sent EXCEPT ![t] = @ + 1]
    /\ UNCHANGED <<pc, result, disturbances>> /\ StreamKept

(* Nothing is left in the spool: the iterator closes the token ... *)
SpoolDrained(t) ==
    /\ pc[t] = "streaming" /\ io[t].token = "open" /\ io[t].pos = io[t].read
    /\ ClaimClose(t, "iterator")
    /\ UNCHANGED <<pc, sent, result, disturbances>> /\ StreamKept

(* ... and, finding it closed, stops. *)
StreamStops(t) ==
    /\ Proceeds(t, "streaming", "ending")
    /\ io[t].token = "closed" /\ io[t].releasing = "nobody"
    /\ result' = [result EXCEPT ![t] = "complete"]
    /\ UNCHANGED <<io, reserved, sent, disturbances>> /\ StreamKept

(* The spool cannot be read: the iterator closes the token and raises. *)
SpoolFails(t) ==
    /\ Proceeds(t, "streaming", "ending")
    /\ io[t].token = "open" /\ Disturbance
    /\ ClaimClose(t, "iterator")
    /\ result' = [result EXCEPT ![t] = "failed"]
    /\ UNCHANGED sent /\ StreamKept

(* The client is gone, or asyncio.timeout ends the response. *)
StreamCut(t) ==
    /\ Proceeds(t, "streaming", "ending")
    /\ result' = [result EXCEPT ![t] = "cut"]
    /\ UNCHANGED <<io, reserved, sent, disturbances>> /\ StreamKept

(* finally: the token is closed unless the iterator has, *)
ResponseCloses(t) ==
    /\ pc[t] = "ending" /\ io[t].token = "open"
    /\ ClaimClose(t, "response")
    /\ UNCHANGED <<pc, sent, result, disturbances>> /\ StreamKept

(* and the operation's lease is given back. *)
ResponseOver(t) ==
    /\ Proceeds(t, "ending", "idle")
    /\ io[t].token = "closed" /\ io[t].releasing # "response"
    /\ sent' = [sent EXCEPT ![t] = 0]
    /\ result' = [result EXCEPT ![t] = "none"]
    /\ Forgets(t)
    /\ UNCHANGED <<storageVars, links>> /\ RowsKept

Closes(t) ==
    /\ \E spoolFails \in BOOLEAN : close(t, spoolFails)
    /\ UNCHANGED <<store, disturbances, apiVars>>

----------------------------------------------------------------------------
(* Uploads and imports *)
BufferFragment(t) ==
    /\ pc[t] = "body" /\ io[t].retained < SizeOf[Upload]
    /\ reserve_transient_bytes(t, 1)
    /\ UNCHANGED <<store, disturbances, pc>> /\ Same

(* Evidence gets a key of its own; an image that is already registered is  *)
(* only verified again.                                                    *)
UploadRouted(t) ==
    /\ io[t].retained = SizeOf[Upload]
    /\ Proceeds(t, "body", IF rows[t].uploaded THEN "verify" ELSE "put")
    /\ UNCHANGED storageVars /\ Same

store_create_once_object(t) ==
    /\ Proceeds(t, "put", "verify")
    /\ store' = PutOnce(t, Upload)
    /\ UNCHANGED <<reserved, io, disturbances>> /\ Same

UploadEnds(t) ==
    /\ reserved' = reserved - io[t].retained
    /\ io' = [io EXCEPT ![t] = NoIO]
    /\ Forgets(t)

register_upload(t) ==
    /\ Proceeds(t, "verify", "idle")
    /\ verify_stored_object(t, Upload)
    /\ rows' = [rows EXCEPT ![t].uploaded = TRUE]
    /\ UploadEnds(t)
    /\ UNCHANGED <<store, disturbances, profile>> /\ AnswersKept

----------------------------------------------------------------------------
(* An exception anywhere before the response: a gate, the store, the        *)
(* database, the deadline or the client.  The with-blocks release what is   *)
(* retained; a token is closed, an unfinished spool discarded.              *)
FreedByFailure(t) ==
    IF io[t].token = "none" THEN io[t].held + io[t].retained ELSE io[t].retained

Raises(t) ==
    /\ reserved' = reserved - FreedByFailure(t)
    /\ IF io[t].token = "none"
       THEN /\ pc' = [pc EXCEPT ![t] = "idle"]
            /\ io' = [io EXCEPT ![t] = NoIO]
            /\ Forgets(t)
       ELSE /\ pc' = [pc EXCEPT ![t] = "ending"]
            /\ io' = [io EXCEPT ![t].retained = 0]
            /\ UNCHANGED <<op, expected, atIO, operations>>
    /\ UNCHANGED <<store, disturbances>> /\ RowsKept /\ AnswersKept

Fails(t) == pc[t] \notin {"idle", "reading", "body", "streaming", "ending"} /\ Raises(t)

(* The read is aborted, or the body turns out wrong. *)
ReadFails(t) ==
    /\ pc[t] = "reading"
    /\ \/ io[t].expired
       \/ io[t].read > SizeOf[op[t].kind]
       \/ io[t].read = io[t].body.size /\ ~SpoolVerified(t, op[t].kind)
    /\ Raises(t)

(* A client that stops sending runs into the idle timeout; a body that     *)
(* finds no capacity is refused.                                           *)
BodyFails(t) == pc[t] = "body" /\ Raises(t)

----------------------------------------------------------------------------
(* Others *)
OthersKept == UNCHANGED <<store, reserved, io, pc, op, expected, atIO, sent, result, operations>>

RowChanges(t) ==
    /\ t \in Disturbed /\ Disturbance
    /\ \/ ~VersionLocked(t) /\ rows[t].current /\ rows' = [rows EXCEPT ![t].current = FALSE]
       \/ rows[t].evidence = "valid" /\ rows' = [rows EXCEPT ![t].evidence = "revoked"]
       \/ rows[t].statement = "valid" /\ rows' = [rows EXCEPT ![t].statement = "revoked"]
       \/ rows[t].approval = "generated" /\ rows' = [rows EXCEPT ![t].approval = "renewed"]
    /\ OthersKept /\ UNCHANGED <<profile, links>>

ProfileRotates ==
    /\ Disturbance /\ profile = "generated" /\ profile' = "rotated"
    /\ OthersKept /\ UNCHANGED <<rows, links>>

(* Links are read by an operation that begins, objects by one under way. *)
LinksExpire(t) ==
    /\ pc[t] = "idle" /\ links[t] # {} /\ links' = [links EXCEPT ![t] = {}]
    /\ OthersKept /\ RowsKept /\ UNCHANGED disturbances

Rots(t, k) == t \in Disturbed /\ pc[t] # "idle" /\ object_rots(t, k) /\ UNCHANGED apiVars

----------------------------------------------------------------------------
Begin(t) ==
    \/ \E role \in Roles :
          \/ list_artifacts(t, role)
          \/ list_release_artifacts(t, role)
          \/ download_joint_retention_evidence(t, role)
          \/ \E k \in Targets :
                download_artifact(t, k, role) \/ download_release_artifact(t, k, role)
    \/ receive_body(t)

(* What the process itself does next, once its rows and objects answer. *)
Handles(t) ==
    \/ Opens(t) \/ Gets(t) \/ Verifies(t)
    \/ _require_current_retention_binding(t)
    \/ ReviewReserves(t) \/ ReviewsSiblings(t)
    \/ _resolve_external_evidence_rows(t) \/ _verified_external_evidence(t)
    \/ _require_current_bound_job_evidence(t)
    \/ Refreshes(t) \/ ProfileRechecked(t)
    \/ SignsLinks(t) \/ _verified_artifact_response(t)
    \/ UploadRouted(t) \/ store_create_once_object(t) \/ register_upload(t)
    \/ Fails(t) \/ ReadFails(t)
    \/ SpoolDrained(t) \/ StreamStops(t)
    \/ ResponseCloses(t) \/ ResponseOver(t) \/ Closes(t)

Moves(t) ==
    \/ Begin(t) \/ Handles(t)
    \/ Reads(t) \/ Misdelivers(t) \/ DeadlinePasses(t)
    \/ SendsChunk(t) \/ SpoolFails(t) \/ StreamCut(t)
    \/ BufferFragment(t) \/ BodyFails(t)
    \/ RowChanges(t) \/ LinksExpire(t)
    \/ \E k \in Kinds : Rots(t, k)

DownloadNext == ProfileRotates \/ \E t \in Organizations : Moves(t)

DownloadSpec == DownloadInit /\ [][DownloadNext]_downloadVars

(* The process keeps running its handlers; a storage read is ended by its  *)
(* deadline, a request body by its idle timeout and a response by          *)
(* artifact_stream_timeout_seconds.  Nothing is assumed of the provider or *)
(* of the client: a read, a fragment or a send may never come.             *)
DownloadFairness ==
    \A t \in Organizations :
        /\ WF_downloadVars(Handles(t))
        /\ WF_downloadVars(DeadlinePasses(t))
        /\ WF_downloadVars(BodyFails(t))
        /\ WF_downloadVars(StreamCut(t))

----------------------------------------------------------------------------
(* What a client received is the recorded object: never a byte that was    *)
(* not verified, whatever the store does meanwhile, and all of it when the *)
(* response ended as complete (VerifiedStoredObject, one-shot).            *)
ServedIsRecorded ==
    \A t \in Organizations :
        /\ pc[t] \in {"streaming", "ending"} => io[t].body.bytes = "recorded"
        /\ pc[t] = "ending" /\ result[t] = "complete" => sent[t] = SizeOf[op[t].kind]

CurrentFor(o, row, machine) ==
    /\ o.route \in {"job", "list"} =>
          row.current /\ row.evidence = "valid" /\ row.approval = "generated"
    /\ o.route = "job" /\ o.kind \in Candidate => machine = "generated"
    /\ o.route = "list" /\ CanReadCurrentCandidate(o.role) => machine = "generated"
    /\ o.route = "statement" => row.current /\ row.statement = "valid"

(* Nothing is answered on the strength of rows that were stale when the    *)
(* operation's last storage byte had been checked: revision, approval,     *)
(* evidence and, for cutting data, the deployed profile are read again     *)
(* after all I/O (_prepare_review_artifact_download_within_deadline).      *)
AnswersAreCurrent ==
    \A t \in Organizations :
        pc[t] = "streaming" \/ pc[t] = "respond" =>
            CurrentFor(op[t], atIO[t].rows, atIO[t].profile)

(* All capacity comes back, with a provider that hangs, a client that      *)
(* stalls and a spool that cannot be closed.                               *)
CapacityComesBack == <>[](reserved = 0)
=============================================================================
