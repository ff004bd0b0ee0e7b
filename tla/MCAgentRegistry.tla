--------------------------- MODULE MCAgentRegistry ---------------------------
(* AgentRegistry on small instances. *)
EXTENDS AgentRegistry, TLC

Symmetry == Permutations(Conns) \cup Permutations(Pods)
=============================================================================
