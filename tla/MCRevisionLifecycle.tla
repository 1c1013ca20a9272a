------------------------ MODULE MCRevisionLifecycle ------------------------
(* Small instances of RevisionLifecycle for TLC.                           *)
EXTENDS RevisionLifecycle, TLC

\* Processes, reviewers, reviews and requests are interchangeable.
Symmetry == Permutations(Processes) \cup Permutations(Users)
            \cup Permutations(Reviews) \cup Permutations(Requests)
=============================================================================
