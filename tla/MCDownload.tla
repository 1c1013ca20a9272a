----------------------------- MODULE MCDownload -----------------------------
(***************************************************************************)
(* Instance for TLC of the downloads: an organisation that lists, streams  *)
(* and uploads while its rows and objects change, beside one that uploads  *)
(* and competes for the same budget of transient bytes.                    *)
(***************************************************************************)
EXTENDS ArtifactDownload, TLC

CONSTANTS t1, t2

MCSizeOf ==
    "production_bundle" :> 2 @@ "cam_candidate_bundle" :> 1 @@ "manifest" :> 1
    @@ "design_glb" :> 1 @@ "external_evidence" :> 1 @@ "joint_retention" :> 1
    @@ "upload" :> 2
MCKinds == DOMAIN MCSizeOf
MCOperations == t1 :> 2 @@ t2 :> 1
MCRoutesOf ==
    t1 :> {"list", "job", "list_release", "release", "statement", "upload"}
    @@ t2 :> {"upload"}

Spec == DownloadSpec /\ DownloadFairness
=============================================================================
