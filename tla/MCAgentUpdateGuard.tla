------------------------- MODULE MCAgentUpdateGuard -------------------------
(* AgentUpdateGuard with the service loop and a few spawned goroutines. *)
EXTENDS AgentUpdateGuard
=============================================================================
