-------------------------- MODULE AgentUpdateGuard --------------------------
(***************************************************************************)
(* The agent's guard between patch runs and its own update: a mutex, a     *)
(* counter of active runs and two flags keep an update from ending the     *)
(* process under a patch run.  updateAgent has a guard of its own, the     *)
(* compare-and-swap on updateInFlight.                                     *)
(*                                                                         *)
(* Goroutines call the guard from three places: the service loop (update   *)
(* command, reports, and the start of every patch run), report goroutines  *)
(* (startup and post-patch reports), and patch runs that end.  A section   *)
(* under patchUpdateMu is one step.                                        *)
(***************************************************************************)
EXTENDS Naturals, FiniteSets

CONSTANTS
  Loop,  \* the goroutine of the service loop
  Spawned \* goroutines that the agent spawns: patch runs and reports

ASSUME ThreadsAssumption == IsFiniteSet(Spawned) /\ Loop \notin Spawned

Threads == Spawned \cup {Loop}

VARIABLES
  activePatchRuns,     \* patch runs between beginPatchRun and its end func
  agentUpdateDeferred, \* an update waits for the last active run
  agentUpdating,       \* an update is on: beginPatchRun refuses
  updateInFlight,      \* the CAS guard of updateAgent
  pc,                  \* where each goroutine is
  overlapped           \* an update was started while another was in progress

flags == <<activePatchRuns, agentUpdateDeferred, agentUpdating, updateInFlight>>
vars == <<flags, pc, overlapped>>

\* patching: a patch run is executing.  updating: runAgentUpdate, before the CAS.  replacing:
\* the CAS won, the binary is downloaded and replaced.  returned: updateAgent returned.
Attempting == {"updating", "replacing", "returned"}
Places == {"idle", "patching"} \cup Attempting

At(place) == {t \in Threads : pc[t] = place}
Attempts == {t \in Threads : pc[t] \in Attempting}
Goto(t, place) == pc' = [pc EXCEPT ![t] = place]

\* A new agent process.
Init ==
  /\ activePatchRuns = 0
  /\ agentUpdateDeferred = FALSE /\ agentUpdating = FALSE /\ updateInFlight = FALSE
  /\ pc = [t \in Threads |-> "idle"]
  /\ overlapped = FALSE

-----------------------------------------------------------------------------
\* Mutant: the refusal is forgotten.
BeginAlways(r) ==
  /\ pc[Loop] = "idle" /\ pc[r] = "idle"
  /\ activePatchRuns' = activePatchRuns + 1
  /\ Goto(r, "patching")
  /\ UNCHANGED <<agentUpdateDeferred, agentUpdating, updateInFlight, overlapped>>

\* Mutant: a run is admitted and not counted.
BeginUncounted(r) ==
  /\ pc[Loop] = "idle" /\ pc[r] = "idle"
  /\ ~agentUpdating
  /\ Goto(r, "patching")
  /\ UNCHANGED <<flags, overlapped>>

(* beginPatchRun, called by the service loop, which spawns the run.  (A run *)
(* refused because of agentUpdating is only reported to the server.)        *)
BeginPatchRun(r) ==
  /\ pc[Loop] = "idle" /\ pc[r] = "idle"
  /\ ~agentUpdating
  /\ activePatchRuns' = activePatchRuns + 1
  /\ Goto(r, "patching")
  /\ UNCHANGED <<agentUpdateDeferred, agentUpdating, updateInFlight, overlapped>>

\* Mutant: the count is tested before the run is taken off it.
LastRunTooEarly == activePatchRuns = 0 /\ agentUpdateDeferred

\* The run that ends is the last one, and an update waits for it.
LastRunApplies == activePatchRuns = 1 /\ agentUpdateDeferred

StartsUpdate(t) ==
  /\ agentUpdating' = TRUE
  /\ Goto(t, "updating")
  /\ overlapped' = (overlapped \/ Attempts # {})

(* The end func of a patch run: its goroutine applies the deferred update. *)
EndPatchRun(r) ==
  /\ pc[r] = "patching"
  /\ activePatchRuns' = activePatchRuns - 1
  /\ \/ /\ LastRunApplies
        /\ agentUpdateDeferred' = FALSE
        /\ StartsUpdate(r)
     \/ /\ ~LastRunApplies
        /\ Goto(r, "idle")
        /\ UNCHANGED <<agentUpdateDeferred, agentUpdating, overlapped>>
  /\ UNCHANGED updateInFlight

\* Mutant: another run's start is noticed only after the update started.
UpdateNow(t) ==
  /\ pc[t] = "idle" /\ StartsUpdate(t)
  /\ UNCHANGED <<activePatchRuns, agentUpdateDeferred, updateInFlight>>

(* updateAgentUnlessPatching. *)
UpdateUnlessPatching(t) ==
  /\ pc[t] = "idle"
  /\ \/ /\ activePatchRuns > 0
        /\ agentUpdateDeferred' = TRUE
        /\ UNCHANGED <<agentUpdating, pc, overlapped>>
     \/ /\ activePatchRuns = 0
        /\ StartsUpdate(t)
        /\ UNCHANGED agentUpdateDeferred
  /\ UNCHANGED <<activePatchRuns, updateInFlight>>

(* updateAgent loses the compare-and-swap: "another update is already in   *)
(* progress".                                                              *)
UpdateSkipped(t) ==
  /\ pc[t] = "updating" /\ updateInFlight
  /\ Goto(t, "returned")
  /\ UNCHANGED <<flags, overlapped>>

\* Mutant: a load and a store where the code swaps.
EnterUnchecked(t) ==
  /\ pc[t] = "updating"
  /\ updateInFlight' = TRUE
  /\ Goto(t, "replacing")
  /\ UNCHANGED <<activePatchRuns, agentUpdateDeferred, agentUpdating, overlapped>>

(* updateAgent wins the compare-and-swap. *)
UpdateEnters(t) ==
  /\ pc[t] = "updating" /\ ~updateInFlight
  /\ updateInFlight' = TRUE
  /\ Goto(t, "replacing")
  /\ UNCHANGED <<activePatchRuns, agentUpdateDeferred, agentUpdating, overlapped>>

(* updateAgent returns without a restart: nothing to update, a failed      *)
(* download or check, or a failed restart.                                 *)
UpdateGivesUp(t) ==
  /\ pc[t] = "replacing"
  /\ updateInFlight' = FALSE
  /\ Goto(t, "returned")
  /\ UNCHANGED <<activePatchRuns, agentUpdateDeferred, agentUpdating, overlapped>>

(* The tail of runAgentUpdate. *)
RunAgentUpdateReturns(t) ==
  /\ pc[t] = "returned"
  /\ agentUpdating' = FALSE
  /\ Goto(t, "idle")
  /\ UNCHANGED <<activePatchRuns, agentUpdateDeferred, updateInFlight, overlapped>>

(* The binary is replaced and the process exits; the new process starts.   *)
UpdateExits(t) ==
  /\ pc[t] = "replacing"
  /\ activePatchRuns' = 0
  /\ agentUpdateDeferred' = FALSE /\ agentUpdating' = FALSE /\ updateInFlight' = FALSE
  /\ pc' = [u \in Threads |-> "idle"]
  /\ overlapped' = FALSE

Updater(t) == UpdateSkipped(t) \/ UpdateEnters(t) \/ UpdateGivesUp(t)
              \/ RunAgentUpdateReturns(t) \/ UpdateExits(t)

Next ==
  \/ \E r \in Spawned : BeginPatchRun(r) \/ EndPatchRun(r)
  \/ \E t \in Threads : UpdateUnlessPatching(t) \/ Updater(t)

Spec == Init /\ [][Next]_vars

(* A goroutine that is running goes on; nobody has to start one. *)
Fairness == /\ \A r \in Spawned : WF_vars(EndPatchRun(r))
            /\ \A t \in Threads : WF_vars(Updater(t))

FairSpec == Spec /\ Fairness

-----------------------------------------------------------------------------
TypeOK ==
  /\ activePatchRuns \in Nat
  /\ agentUpdateDeferred \in BOOLEAN /\ agentUpdating \in BOOLEAN
  /\ updateInFlight \in BOOLEAN /\ overlapped \in BOOLEAN
  /\ pc \in [Threads -> Places]

(* updateInFlight holds exactly while one goroutine replaces the binary:   *)
(* two never download and rename over the same file, whichever callers     *)
(* overlap, and a failed attempt leaves the guard open.                    *)
OneReplacer ==
  /\ \A t, u \in At("replacing") : t = u
  /\ updateInFlight <=> At("replacing") # {}

(* The counter is the number of running patch runs, so that the last one   *)
(* to end is recognised in any order of begins and ends.                   *)
CountIsExact == activePatchRuns = Cardinality(At("patching"))

(* A deferred update has a run that will apply it when it ends.            *)
DeferredHasRun == agentUpdateDeferred => At("patching") # {}

(* An update attempt that no other attempt overlaps excludes patch runs    *)
(* from its start to its return, so its exit kills none of them.           *)
LoneUpdateExcludesRuns ==
  ~overlapped /\ Attempts # {} => agentUpdating /\ At("patching") = {}

(* No update starts while a patch run executes, even when updates overlap. *)
UpdateStartsAlone ==
  [][\A t \in Threads : pc[t] \notin Attempting /\ pc'[t] = "updating"
        => \A r \in Threads : pc'[r] # "patching"]_vars

(* "refuses it while an agent update is running, since the update ends the *)
(* process": no patch run executes while the binary is being replaced.     *)
NoPatchDuringUpdate == At("replacing") # {} => At("patching") = {}

(* Once no more runs begin, a deferred update is applied.                  *)
DeferredIsApplied ==
  <>[][\A r \in Spawned : ~BeginPatchRun(r)]_vars
    => (agentUpdateDeferred ~> ~agentUpdateDeferred)
=============================================================================
