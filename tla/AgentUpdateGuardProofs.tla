----------------------- MODULE AgentUpdateGuardProofs -----------------------
(***************************************************************************)
(* What AgentUpdateGuard promises for any number of goroutines.            *)
(*                                                                         *)
(* The invariant that is inductive adds one fact to the checked ones:      *)
(* while no attempt overlapped another, there is at most one attempt.      *)
(***************************************************************************)
EXTENDS AgentUpdateGuard, TLAPS, FiniteSetTheorems

LoneAttempt == ~overlapped => \A t, u \in Attempts : t = u

IInv ==
  /\ TypeOK
  /\ OneReplacer
  /\ CountIsExact
  /\ DeferredHasRun
  /\ LoneAttempt
  /\ LoneUpdateExcludesRuns

-----------------------------------------------------------------------------
(* The set of running patch runs is finite, so that counting it means      *)
(* something.                                                              *)
LEMMA PatchingFinite == IsFiniteSet(At("patching"))
<1>1. IsFiniteSet(Threads)
  BY ThreadsAssumption, FS_AddElement DEF Threads
<1>2. At("patching") \subseteq Threads
  BY DEF At
<1> QED
  BY <1>1, <1>2, FS_Subset

(* A step that leaves every patch run where it is leaves the count exact.  *)
LEMMA CountUnchanged ==
  ASSUME CountIsExact, At("patching")' = At("patching"), activePatchRuns' = activePatchRuns
  PROVE  CountIsExact'
BY DEF CountIsExact

(* Init establishes the invariant. *)
LEMMA InitIInv == Init => IInv
<1> SUFFICES ASSUME Init PROVE IInv
  OBVIOUS
<1>1. At("patching") = {} /\ At("replacing") = {} /\ Attempts = {}
  BY DEF Init, At, Attempts, Attempting
<1>2. CountIsExact
  BY <1>1, FS_EmptySet DEF Init, CountIsExact
<1>3. TypeOK
  BY DEF Init, TypeOK, Places
<1> QED
  BY <1>1, <1>2, <1>3 DEF Init, IInv, OneReplacer, DeferredHasRun, LoneAttempt, LoneUpdateExcludesRuns

-----------------------------------------------------------------------------
(* beginPatchRun: it is refused during an update, so a lone attempt sees   *)
(* none.                                                                   *)
LEMMA BeginPreserves ==
  ASSUME IInv, NEW r \in Spawned, BeginPatchRun(r)
  PROVE  IInv'
<1> USE DEF BeginPatchRun, Goto, Places, Attempting, IInv
<1>0. r \in Threads /\ pc[r] = "idle" /\ pc' = [pc EXCEPT ![r] = "patching"]
  BY DEF Threads
<1>1. TypeOK'
  BY <1>0 DEF TypeOK
<1>2. At("patching")' = At("patching") \cup {r} /\ r \notin At("patching")
  BY <1>0 DEF TypeOK, At
<1>3. At("replacing")' = At("replacing") /\ Attempts' = Attempts
  BY <1>0 DEF TypeOK, At, Attempts
<1>4. CountIsExact'
  BY <1>2, PatchingFinite, FS_AddElement DEF CountIsExact
<1>5. OneReplacer' /\ LoneAttempt'
  BY <1>3 DEF OneReplacer, LoneAttempt
<1>6. DeferredHasRun'
  BY <1>2 DEF DeferredHasRun
<1>7. LoneUpdateExcludesRuns'
  BY <1>3 DEF LoneUpdateExcludesRuns
<1> QED
  BY <1>1, <1>4, <1>5, <1>6, <1>7

(* The steps that put t into "updating": only when no other run executes.  *)
LEMMA StartPreserves ==
  ASSUME IInv, NEW t \in Threads, pc[t] \notin Attempting, StartsUpdate(t),
         At("patching")' = {}, activePatchRuns' = 0, agentUpdateDeferred' = FALSE,
         updateInFlight' = updateInFlight
  PROVE  IInv'
<1> USE DEF StartsUpdate, Goto, Places, Attempting, IInv
<1>1. TypeOK'
  BY DEF TypeOK
<1>2. At("replacing")' = At("replacing") /\ Attempts' = Attempts \cup {t}
  BY DEF TypeOK, At, Attempts
<1>3. CountIsExact'
  BY FS_EmptySet DEF CountIsExact
<1>4. OneReplacer'
  BY <1>2 DEF OneReplacer
<1>5. LoneAttempt'
  BY <1>2 DEF LoneAttempt
<1> QED
  BY <1>1, <1>3, <1>4, <1>5 DEF DeferredHasRun, LoneUpdateExcludesRuns

(* The end of a patch run: the last one starts the deferred update.        *)
LEMMA EndPreserves ==
  ASSUME IInv, NEW r \in Spawned, EndPatchRun(r)
  PROVE  IInv'
<1> USE DEF EndPatchRun, Goto, Places, Attempting, IInv, LastRunApplies
<1>0. r \in Threads /\ pc[r] = "patching" /\ r \in At("patching")
  BY DEF Threads, At
<1>1. CASE LastRunApplies
  <2>1. pc' = [pc EXCEPT ![r] = "updating"] /\ StartsUpdate(r)
    BY <1>1 DEF StartsUpdate
  <2>2. At("patching")' = At("patching") \ {r}
    BY <1>0, <2>1 DEF TypeOK, At
  <2>3. IsFiniteSet(At("patching")') /\ Cardinality(At("patching")') = 0
    BY <1>0, <1>1, <2>2, PatchingFinite, FS_RemoveElement DEF CountIsExact
  <2>4. At("patching")' = {}
    BY <2>3, FS_EmptySet
  <2>5. activePatchRuns' = 0 /\ agentUpdateDeferred' = FALSE /\ updateInFlight' = updateInFlight
    BY <1>1
  <2>6. r \in Threads /\ pc[r] \notin Attempting
    BY <1>0
  <2> HIDE DEF IInv, EndPatchRun, Attempting, LastRunApplies
  <2> QED
    BY <2>1, <2>4, <2>5, <2>6, StartPreserves
<1>2. CASE ~LastRunApplies
  <2>1. pc' = [pc EXCEPT ![r] = "idle"]
    BY <1>2
  <2>2. At("patching")' = At("patching") \ {r}
    BY <1>0, <2>1 DEF TypeOK, At
  <2>3. At("replacing")' = At("replacing") /\ Attempts' = Attempts
    BY <1>0, <2>1 DEF TypeOK, At, Attempts
  <2>4. IsFiniteSet(At("patching")') /\ Cardinality(At("patching")') = activePatchRuns - 1
    BY <1>0, <2>2, PatchingFinite, FS_RemoveElement DEF CountIsExact
  <2>5. Cardinality(At("patching")') \in Nat
    BY <2>4, FS_CardinalityType
  <2>6. TypeOK'
    BY <1>2, <2>1, <2>4, <2>5 DEF TypeOK
  <2>7. CountIsExact'
    BY <2>4 DEF CountIsExact
  <2>8. DeferredHasRun'
    <3> SUFFICES ASSUME agentUpdateDeferred PROVE At("patching")' # {}
      BY <1>2 DEF DeferredHasRun
    <3>1. activePatchRuns # 1
      BY <1>2
    <3>2. Cardinality(At("patching")') # 0
      BY <2>4, <3>1 DEF TypeOK
    <3> QED
      BY <2>4, <3>2, FS_EmptySet
  <2>9. OneReplacer' /\ LoneAttempt' /\ LoneUpdateExcludesRuns'
    BY <1>2, <2>2, <2>3 DEF OneReplacer, LoneAttempt, LoneUpdateExcludesRuns
  <2> QED
    BY <2>6, <2>7, <2>8, <2>9
<1> QED
  BY <1>1, <1>2

(* updateAgentUnlessPatching: deferred under a run, started otherwise.     *)
LEMMA UpdatePreserves ==
  ASSUME IInv, NEW t \in Threads, UpdateUnlessPatching(t)
  PROVE  IInv'
<1> USE DEF UpdateUnlessPatching, IInv
<1>1. CASE activePatchRuns > 0
  <2>1. At("patching")' = At("patching") /\ At("replacing")' = At("replacing")
        /\ Attempts' = Attempts /\ UNCHANGED <<pc, overlapped, agentUpdating>>
    BY <1>1 DEF At, Attempts, TypeOK
  <2>2. At("patching") # {}
    BY <1>1, FS_EmptySet DEF CountIsExact, TypeOK
  <2>3. TypeOK'
    BY <1>1, <2>1 DEF TypeOK
  <2>4. CountIsExact'
    BY <2>1, CountUnchanged
  <2> QED
    BY <2>1, <2>2, <2>3, <2>4
    DEF OneReplacer, DeferredHasRun, LoneAttempt, LoneUpdateExcludesRuns
<1>2. CASE ~(activePatchRuns > 0)
  <2>1. activePatchRuns = 0 /\ StartsUpdate(t) /\ agentUpdateDeferred' = agentUpdateDeferred
    BY <1>2 DEF TypeOK
  <2>2. At("patching") = {}
    BY <2>1, PatchingFinite, FS_EmptySet DEF CountIsExact
  <2>3. At("patching")' = {}
    BY <2>1, <2>2 DEF StartsUpdate, Goto, At, TypeOK
  <2>4. agentUpdateDeferred' = FALSE
    BY <2>1, <2>2 DEF DeferredHasRun, TypeOK
  <2>5. pc[t] \notin Attempting
    BY DEF Attempting
  <2> QED
    BY <2>1, <2>3, <2>4, <2>5, StartPreserves
<1> QED
  BY <1>1, <1>2

(* The steps inside updateAgent and the tail of runAgentUpdate.            *)
LEMMA UpdaterPreserves ==
  ASSUME IInv, NEW t \in Threads, Updater(t)
  PROVE  IInv'
<1> USE DEF Goto, Places, Attempting, IInv
<1>1. CASE UpdateSkipped(t)
  <2>1. At("patching")' = At("patching") /\ At("replacing")' = At("replacing")
        /\ Attempts' = Attempts
    BY <1>1 DEF UpdateSkipped, At, Attempts, TypeOK
  <2>2. TypeOK'
    BY <1>1 DEF UpdateSkipped, TypeOK, flags
  <2> QED
    BY <1>1, <2>1, <2>2, CountUnchanged
    DEF UpdateSkipped, flags, OneReplacer, DeferredHasRun, LoneAttempt, LoneUpdateExcludesRuns
<1>2. CASE UpdateEnters(t)
  <2>1. At("patching")' = At("patching") /\ At("replacing")' = At("replacing") \cup {t}
        /\ Attempts' = Attempts
    BY <1>2 DEF UpdateEnters, At, Attempts, TypeOK
  <2>2. TypeOK'
    BY <1>2 DEF UpdateEnters, TypeOK
  <2>3. At("replacing") = {}
    BY <1>2 DEF UpdateEnters, OneReplacer
  <2>4. OneReplacer'
    BY <1>2, <2>1, <2>3 DEF UpdateEnters, OneReplacer
  <2> QED
    BY <1>2, <2>1, <2>2, <2>4, CountUnchanged
    DEF UpdateEnters, DeferredHasRun, LoneAttempt, LoneUpdateExcludesRuns
<1>3. CASE UpdateGivesUp(t)
  <2>1. At("patching")' = At("patching") /\ At("replacing")' = At("replacing") \ {t}
        /\ Attempts' = Attempts
    BY <1>3 DEF UpdateGivesUp, At, Attempts, TypeOK
  <2>2. TypeOK'
    BY <1>3 DEF UpdateGivesUp, TypeOK
  <2>3. t \in At("replacing")
    BY <1>3 DEF UpdateGivesUp, At
  <2>4. OneReplacer'
    BY <1>3, <2>1, <2>3 DEF UpdateGivesUp, OneReplacer
  <2> QED
    BY <1>3, <2>1, <2>2, <2>4, CountUnchanged
    DEF UpdateGivesUp, DeferredHasRun, LoneAttempt, LoneUpdateExcludesRuns
<1>4. CASE RunAgentUpdateReturns(t)
  <2>1. At("patching")' = At("patching") /\ At("replacing")' = At("replacing")
        /\ Attempts' = Attempts \ {t} /\ t \in Attempts
    BY <1>4 DEF RunAgentUpdateReturns, At, Attempts, TypeOK
  <2>2. TypeOK'
    BY <1>4 DEF RunAgentUpdateReturns, TypeOK
  <2>3. LoneAttempt' /\ (~overlapped' => Attempts' = {})
    BY <1>4, <2>1 DEF RunAgentUpdateReturns, LoneAttempt
  <2>4. OneReplacer'
    BY <1>4, <2>1 DEF RunAgentUpdateReturns, OneReplacer
  <2> QED
    BY <1>4, <2>1, <2>2, <2>3, <2>4, CountUnchanged
    DEF RunAgentUpdateReturns, DeferredHasRun, LoneUpdateExcludesRuns
<1>5. CASE UpdateExits(t)
  <2>1. Init'
    BY <1>5 DEF UpdateExits, Init
  <2>2. At("patching")' = {} /\ At("replacing")' = {} /\ Attempts' = {}
    BY <2>1 DEF Init, At, Attempts
  <2>3. CountIsExact'
    BY <2>1, <2>2, FS_EmptySet DEF Init, CountIsExact
  <2>4. TypeOK'
    BY <2>1 DEF Init, TypeOK
  <2> QED
    BY <2>1, <2>2, <2>3, <2>4
    DEF Init, OneReplacer, DeferredHasRun, LoneAttempt, LoneUpdateExcludesRuns
<1> QED
  BY <1>1, <1>2, <1>3, <1>4, <1>5 DEF Updater

(* Every step preserves the invariant. *)
LEMMA StepIInv == IInv /\ [Next]_vars => IInv'
<1> SUFFICES ASSUME IInv, [Next]_vars PROVE IInv'
  OBVIOUS
<1>1. CASE Next
  BY <1>1, BeginPreserves, EndPreserves, UpdatePreserves, UpdaterPreserves DEF Next
<1>2. CASE UNCHANGED vars
  <2>1. UNCHANGED <<activePatchRuns, agentUpdateDeferred, agentUpdating, updateInFlight, pc, overlapped>>
    BY <1>2 DEF vars, flags
  <2>2. At("patching")' = At("patching") /\ At("replacing")' = At("replacing")
        /\ Attempts' = Attempts
    BY <2>1 DEF At, Attempts
  <2>3. TypeOK'
    BY <2>1 DEF IInv, TypeOK
  <2> QED
    BY <2>1, <2>2, <2>3, CountUnchanged
    DEF IInv, OneReplacer, DeferredHasRun, LoneAttempt, LoneUpdateExcludesRuns
<1> QED
  BY <1>1, <1>2

-----------------------------------------------------------------------------
(* The invariant holds of every behaviour of the guard. *)
THEOREM GuardInvariant == Spec => []IInv
BY InitIInv, StepIInv, PTL DEF Spec

(* The counter, the flags and the control points keep their types, and the  *)
(* counter stays finite and non-negative: endPatchRun never takes it below  *)
(* zero.                                                                    *)
THEOREM GuardTyped == Spec => []TypeOK
<1>1. IInv => TypeOK
  BY DEF IInv
<1> QED
  BY <1>1, GuardInvariant, PTL

(* Two update attempts never replace the binary at once: the               *)
(* compare-and-swap of updateInFlight.                                     *)
THEOREM ReplacesAlone == Spec => []OneReplacer
<1>1. IInv => OneReplacer
  BY DEF IInv
<1> QED
  BY <1>1, GuardInvariant, PTL

(* activePatchRuns is the number of patch runs that execute, whichever of  *)
(* them begin, end and update: patch_update_guard.go.                      *)
THEOREM CountsExactly == Spec => []CountIsExact
<1>1. IInv => CountIsExact
  BY DEF IInv
<1> QED
  BY <1>1, GuardInvariant, PTL

(* A deferred update always has a run whose end func will apply it. *)
THEOREM DeferredUpdateKept == Spec => []DeferredHasRun
<1>1. IInv => DeferredHasRun
  BY DEF IInv
<1> QED
  BY <1>1, GuardInvariant, PTL

(* An update that no other attempt overlaps never ends the process under a *)
(* patch run.                                                              *)
THEOREM LoneUpdateSafe == Spec => []LoneUpdateExcludesRuns
<1>1. IInv => LoneUpdateExcludesRuns
  BY DEF IInv
<1> QED
  BY <1>1, GuardInvariant, PTL

(* No attempt starts under a running patch run, overlapped or not. *)
THEOREM UpdatesStartAlone == Spec => UpdateStartsAlone
<1>1. IInv /\ [Next]_vars =>
        [\A t \in Threads : pc[t] \notin Attempting /\ pc'[t] = "updating"
            => \A r \in Threads : pc'[r] # "patching"]_vars
  <2> SUFFICES ASSUME IInv, Next, NEW t \in Threads, pc[t] \notin Attempting,
                      pc'[t] = "updating"
               PROVE  \A r \in Threads : pc'[r] # "patching"
    OBVIOUS
  <2> USE DEF IInv, Goto, Attempting
  <2>1. ASSUME NEW r \in Spawned, BeginPatchRun(r) PROVE FALSE
    BY <2>1 DEF BeginPatchRun, TypeOK, Threads
  <2>2. ASSUME NEW r \in Spawned, EndPatchRun(r) PROVE At("patching")' = {}
    <3>1. r \in Threads /\ pc[r] = "patching" /\ LastRunApplies /\ pc' = [pc EXCEPT ![r] = "updating"]
      BY <2>2 DEF EndPatchRun, StartsUpdate, TypeOK, Threads
    <3>2. At("patching")' = At("patching") \ {r} /\ r \in At("patching")
      BY <3>1 DEF At, TypeOK
    <3>3. IsFiniteSet(At("patching")') /\ Cardinality(At("patching")') = 0
      BY <3>1, <3>2, PatchingFinite, FS_RemoveElement DEF LastRunApplies, CountIsExact
    <3> QED
      BY <3>3, FS_EmptySet
  <2>3. ASSUME NEW u \in Threads, UpdateUnlessPatching(u) PROVE At("patching")' = {}
    <3>1. activePatchRuns = 0 /\ StartsUpdate(u)
      BY <2>3 DEF UpdateUnlessPatching
    <3>2. At("patching") = {}
      BY <3>1, PatchingFinite, FS_EmptySet DEF CountIsExact
    <3> QED
      BY <3>1, <3>2 DEF StartsUpdate, At, TypeOK
  <2>4. ASSUME NEW u \in Threads, Updater(u) PROVE FALSE
    BY <2>4 DEF Updater, UpdateSkipped, UpdateEnters, UpdateGivesUp, RunAgentUpdateReturns,
       UpdateExits, TypeOK
  <2>5. At("patching")' = {}
    BY <2>1, <2>2, <2>3, <2>4 DEF Next
  <2> QED
    BY <2>5 DEF At
<1> QED
  BY <1>1, GuardInvariant, PTL DEF Spec, UpdateStartsAlone
=============================================================================
