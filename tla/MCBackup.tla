------------------------------ MODULE MCBackup ------------------------------
(***************************************************************************)
(* Instance of a coordinated backup for TLC.                               *)
(***************************************************************************)
EXTENDS CoordinatedBackup, TLC

CONSTANTS k1, k2, api, worker

MCWriterOf == k1 :> worker @@ k2 :> api
MCPaused == <<api>>
MCWorkers == <<worker>>
=============================================================================
