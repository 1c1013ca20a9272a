--------------------------- MODULE MCManufacturing ---------------------------
(***************************************************************************)
(* The instances of the review package, of the CAM candidate made from it  *)
(* and of the program a machine runs, in one run.  The three share no      *)
(* state: the variable moving says which of them moves in a behaviour, and *)
(* the others stay as one of their initial states.                         *)
(***************************************************************************)
EXTENDS MCProduction, MCPackage, MCCandidate

VARIABLE moving

Init ==
    /\ moving \in {"package", "candidate", "machine"}
    /\ PackageInit /\ CandidateInit /\ MachineInit
    /\ moving # "package" => request = Good
    /\ moving # "machine" => job = Outline1

Next ==
    \/ moving = "package" /\ PackageNext /\ UNCHANGED <<candidateVars, machineVars, moving>>
    \/ moving = "candidate" /\ CandidateNext /\ UNCHANGED <<packageVars, machineVars, moving>>
    \/ moving = "machine" /\ MachineNext /\ UNCHANGED <<packageVars, candidateVars, moving>>

Spec == Init /\ [][Next]_<<packageVars, candidateVars, machineVars, moving>>
=============================================================================
