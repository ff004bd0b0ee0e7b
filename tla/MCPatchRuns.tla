---------------------------- MODULE MCPatchRuns ----------------------------
(* PatchRuns on small instances. *)
EXTENDS PatchRunsRefinement, TLC

Symmetry == Permutations(Runs)
=============================================================================
