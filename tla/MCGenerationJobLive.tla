------------------------- MODULE MCGenerationJobLive -------------------------
(***************************************************************************)
(* An instance for liveness: the jobs of an organisation beside one that   *)
(* already has a history, so that few steps are left to it.  Both          *)
(* beginnings are states of GenerationJob.                                 *)
(***************************************************************************)
EXTENDS GenerationJob

CONSTANT Neighbour   \* the job with a history

Others == Jobs \ {Neighbour}

NothingRuns ==
    /\ artifacts = [j \in Jobs |-> 0] /\ waiting = {} /\ broker = {}
    /\ worker = [w \in Workers |-> IdleWorker]
    /\ superseding = [j \in Jobs |-> "no"]

\* The neighbour was never claimed before its deadline and its revision was superseded.
BesideFinishedJob ==
    /\ NothingRuns
    /\ job = [j \in Jobs |->
                IF j = Neighbour THEN Terminalized([QueuedJob EXCEPT !.deadline = "passed"])
                                 ELSE AbsentJob]
    /\ claims = [j \in Jobs |-> 0] /\ requeues = [j \in Jobs |-> 0]
    /\ pending = {} /\ dispatched = {<<"generation", Neighbour, 0>>}
    /\ superseded = {Neighbour}

\* Every job failed and was retried by the user.  The neighbour, which had been
\* recovered from a vanished worker, has lost its worker in this first attempt again;
\* the others failed theirs, and the message of their retry was lost.
BesideVanishedWorker ==
    /\ NothingRuns
    /\ job = [j \in Jobs |-> IF j = Neighbour THEN Claimed(QueuedJob, 2)
                             ELSE Requeued(Claimed(QueuedJob, 2), "due")]
    /\ claims = [j \in Jobs |-> 2] /\ requeues = [j \in Jobs |-> 1]
    /\ pending = {}
    /\ dispatched = {<<"generation", j, 0>> : j \in Jobs} \cup {<<"requeue", j, 1>> : j \in Jobs}
                      \cup {<<"recovery", Neighbour, 1>>} \cup {<<"retry", j, 1>> : j \in Others}
    /\ superseded = {}

LiveSpec ==
    /\ BesideFinishedJob \/ BesideVanishedWorker
    /\ [][Next]_vars /\ SchedulerFairness /\ WorkerFairness
=============================================================================
