--------------------------- MODULE MCGenerationJob ---------------------------
(* Small instances of GenerationJob for TLC. *)
EXTENDS GenerationJob, TLC

Symmetry == Permutations(Workers)
=============================================================================
