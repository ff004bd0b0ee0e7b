------------------------ MODULE PatchRunsRefinement ------------------------
(***************************************************************************)
(* PatchRuns implements PatchRunLife: the phase of a run is read from its  *)
(* status, and the slot of a host is held by the rows of the partial       *)
(* unique index.                                                           *)
(***************************************************************************)
EXTENDS PatchRuns

PhaseOf(s) ==
  CASE s = "none"                -> "none"
    [] s \in Held                -> "planned"
    [] s \in Awaiting            -> "waiting"
    [] s = "running"             -> "running"
    [] s = "agent_disconnected"  -> "lost"
    [] s = "timed_out"           -> "expired"
    [] s \in Ended \cup {"approved"} -> "final"
    [] OTHER                     -> "gone"

PhaseMap == [r \in Runs |-> PhaseOf(status[r])]
SlotMap  == [h \in Hosts |-> {r \in Runs : status[r] \in Active /\ hostOf[r] = h}]

Life == INSTANCE PatchRunLife WITH phase <- PhaseMap, place <- hostOf, slot <- SlotMap

\* Every step of handlers, workers, sweeper, callbacks and agents is a step of a run's
\* life or invisible in it: a run that ended or timed out is never admitted, dispatched
\* or started again, and a run takes its host's slot only when it is free.
ImplementsLife == Life!LifeSpec
=============================================================================
