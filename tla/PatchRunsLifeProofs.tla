------------------------ MODULE PatchRunsLifeProofs ------------------------
(***************************************************************************)
(* PatchRuns implements PatchRunLife, for all runs, hosts and bounds: the  *)
(* initial states map to initial states, and every step of the handlers,   *)
(* workers, callbacks and agents is one step of a run's life or a stutter. *)
(***************************************************************************)
EXTENDS PatchRunsRefinement, PatchRunsProofs

(* PhaseOf as a table. *)
LEMMA PhaseTable ==
  /\ PhaseOf("none") = "none" /\ PhaseOf("deleted") = "gone"
  /\ \A s \in Held : PhaseOf(s) = "planned"
  /\ \A s \in Awaiting : PhaseOf(s) = "waiting"
  /\ PhaseOf("running") = "running" /\ PhaseOf("agent_disconnected") = "lost"
  /\ PhaseOf("timed_out") = "expired"
  /\ \A s \in Ended \cup {"approved"} : PhaseOf(s) = "final"
BY DEF PhaseOf, Held, Awaiting, Ended

(* A run being deleted exists. *)
DeletingExists == \A r \in Runs : deleting[r] # "no" => status[r] # "none"

LEMMA DeletingStep == TypeOK /\ DeletingExists /\ [Next]_vars => DeletingExists'
<1> SUFFICES ASSUME TypeOK, DeletingExists, [Next]_vars PROVE DeletingExists'
  OBVIOUS
<1> USE DEF TypeOK, DeletingExists, rowVars, httpVars
<1>1. ASSUME UNCHANGED deleting, \A r \in Runs : status'[r] = "none" => status[r] = "none"
      PROVE  DeletingExists'
  BY <1>1
<1>2. ASSUME NEW r \in Runs, DeleteRead(r) PROVE DeletingExists'
  BY <1>2 DEF DeleteRead, Deletable
<1>3. ASSUME NEW r \in Runs, DeleteTasks(r) \/ DeleteRow(r) PROVE DeletingExists'
  BY <1>3 DEF DeleteTasks, DeleteRow
<1>4. CASE ServerCrash
  BY <1>4 DEF ServerCrash
<1>5. CASE User
  <2>1. ASSUME NEW r \in Runs, NEW h \in Hosts, Trigger(r, h) PROVE DeletingExists'
    BY <2>1, <1>1 DEF Trigger
  <2>2. ASSUME NEW r \in Runs, NEW v \in Runs, Approve(v, r) PROVE DeletingExists'
    BY <2>2, <1>1 DEF Approve
  <2>3. ASSUME NEW r \in Runs, RetryValidation(r) \/ StopCancel(r) PROVE DeletingExists'
    BY <2>3, <1>1 DEF RetryValidation, StopCancel, CancelByUser, Move
  <2> QED
    BY <1>5, <1>2, <2>1, <2>2, <2>3 DEF User
<1>6. ASSUME NEW r \in Runs, EnqueueTask(r) \/ StopSignal(r) \/ EnqueueFails(r) PROVE DeletingExists'
  BY <1>6, <1>1 DEF EnqueueTask, StopSignal, EnqueueFails, CancelByUser, Move
<1>7. ASSUME NEW r \in Runs, NEW t \in TaskIDs,
             Worker(r, t) \/ EnqueueRetryFails(r, t) \/ MarkDispatchedFails(r, t)
      PROVE  DeletingExists'
  BY <1>7, <1>1 DEF Worker, StartTask, RequeueOffline, RequeueStatus, EnqueueRetry, CheckRun,
     RefuseDispatch, SendRun, SendFails, MarkDispatched, EnqueueRetryFails, MarkDispatchedFails, Move
<1>8. ASSUME NEW r \in Runs, SweepStalled(r) \/ SweepUndispatched(r) PROVE DeletingExists'
  BY <1>8, <1>1 DEF SweepStalled, SweepUndispatched
<1>9. ASSUME NEW r \in Runs, NEW n \in Attempts, Agent(r, n) PROVE DeletingExists'
  BY <1>9, <1>1 DEF Agent, ReportStarted, StartedLost, FinishExec, ReportEnd, Validated, EndedBy,
     Move, Reports
<1>10. ASSUME NEW h \in Hosts, \/ Connect(h) \/ Disconnect(h) \/ AgentRestart(h)
                               \/ DisconnectRecheck(h) \/ MarkDisconnected(h) \/ AgentReceive(h)
       PROVE  DeletingExists'
  BY <1>10, <1>1 DEF Connect, Disconnect, AgentRestart, LoseConnection, DisconnectRecheck,
     MarkDisconnected, AgentReceive
<1>11. CASE UNCHANGED vars
  BY <1>11, <1>1 DEF vars
<1> QED
  BY <1>2, <1>3, <1>4, <1>5, <1>6, <1>7, <1>8, <1>9, <1>10, <1>11 DEF Next, Handler, Faults, TaskIDs

-----------------------------------------------------------------------------
(* The holders of a slot, and how one slot changes. *)
LEMMA SlotMembers ==
  /\ \A h \in Hosts : \A q : q \in SlotMap[h] <=> q \in Runs /\ status[q] \in Active /\ hostOf[q] = h
  /\ \A h \in Hosts : \A q : q \in SlotMap'[h] <=> q \in Runs /\ status'[q] \in Active /\ hostOf'[q] = h
BY DEF SlotMap

LEMMA SlotIs ==
  ASSUME NEW k \in Hosts, NEW A,
         \A q : q \in SlotMap'[k] <=> q \in A,
         \A h \in Hosts \ {k} : \A q : q \in SlotMap'[h] <=> q \in SlotMap[h]
  PROVE  SlotMap' = [SlotMap EXCEPT ![k] = A]
<1>1. SlotMap'[k] = A /\ \A h \in Hosts \ {k} : SlotMap'[h] = SlotMap[h]
  OBVIOUS
<1>2. SlotMap = [h \in Hosts |-> SlotMap[h]] /\ SlotMap' = [h \in Hosts |-> SlotMap'[h]]
  BY DEF SlotMap
<1> QED
  BY <1>1, <1>2

(* What the change of one row is in the abstract state. *)
LEMMA MoveMaps ==
  ASSUME TypeOK, NEW r \in Runs, NEW s, status' = [status EXCEPT ![r] = s], hostOf' = hostOf
  PROVE  /\ PhaseMap' = [PhaseMap EXCEPT ![r] = PhaseOf(s)]
         /\ s \notin Active => SlotMap' = [SlotMap EXCEPT ![hostOf[r]] = @ \ {r}]
         /\ s \in Active /\ status[r] \in Active => SlotMap' = SlotMap
         /\ s \in Active /\ HostFree(hostOf[r], {r}) =>
              SlotMap' = [SlotMap EXCEPT ![hostOf[r]] = {r}]
<1> USE DEF TypeOK
<1>1. PhaseMap' = [PhaseMap EXCEPT ![r] = PhaseOf(s)]
  BY DEF PhaseMap
<1>2. \A q \in Runs : status'[q] = IF q = r THEN s ELSE status[q]
  OBVIOUS
<1>3. s \notin Active => SlotMap' = [SlotMap EXCEPT ![hostOf[r]] = @ \ {r}]
  <2> HAVE s \notin Active
  <2>1. \A q : q \in SlotMap'[hostOf[r]] <=> q \in SlotMap[hostOf[r]] \ {r}
    BY <1>2, SlotMembers
  <2>2. \A h \in Hosts \ {hostOf[r]} : \A q : q \in SlotMap'[h] <=> q \in SlotMap[h]
    BY <1>2, SlotMembers
  <2> QED
    BY <2>1, <2>2, SlotIs
<1>4. s \in Active /\ status[r] \in Active => SlotMap' = SlotMap
  BY <1>2 DEF SlotMap
<1>5. s \in Active /\ HostFree(hostOf[r], {r}) => SlotMap' = [SlotMap EXCEPT ![hostOf[r]] = {r}]
  <2> HAVE s \in Active /\ HostFree(hostOf[r], {r})
  <2>1. \A q : q \in SlotMap'[hostOf[r]] <=> q \in {r}
    BY <1>2, SlotMembers DEF HostFree
  <2>2. \A h \in Hosts \ {hostOf[r]} : \A q : q \in SlotMap'[h] <=> q \in SlotMap[h]
    BY <1>2, SlotMembers
  <2> QED
    BY <2>1, <2>2, SlotIs
<1> QED
  BY <1>1, <1>3, <1>4, <1>5

(* A row that leaves the index, or stays out of it. *)
LEMMA LeavingStep ==
  ASSUME TypeOK, NEW r \in Runs, NEW s \in Statuses \cup {"deleted"}, s \notin Active \cup Held,
         status' = [status EXCEPT ![r] = s], hostOf' = hostOf,
         status[r] # "none", status[r] = "deleted" => s = "deleted",
         s = "approved" => status[r] = "approved",
         s = "timed_out" => status[r] \in Active \cup Held,
         s = "agent_disconnected" => status[r] = "running"
  PROVE  [Life!LifeNext]_Life!lifeVars
<1> USE DEF TypeOK, Statuses, Absent, Active, Awaiting, Held, Ended
<1>1. /\ PhaseMap' = [PhaseMap EXCEPT ![r] = PhaseOf(s)]
      /\ SlotMap' = [SlotMap EXCEPT ![hostOf[r]] = @ \ {r}]
  BY MoveMaps
<1>2. PhaseMap[r] = PhaseOf(status[r]) /\ PhaseMap'[r] = PhaseOf(s)
  BY <1>1 DEF PhaseMap
<1>3. CASE PhaseOf(s) = PhaseOf(status[r])
  <2>1. status[r] \notin Active
    BY <1>3, PhaseTable
  <2>2. PhaseMap' = PhaseMap
    BY <1>1, <1>2, <1>3 DEF PhaseMap
  <2>3. SlotMap' = SlotMap
    BY <1>1, <2>1 DEF SlotMap
  <2> QED
    BY <2>2, <2>3 DEF Life!lifeVars
<1>4. CASE PhaseOf(s) # PhaseOf(status[r])
  <2>1. Life!Expire(r) \/ Life!Lose(r) \/ Life!End(r) \/ Life!Remove(r)
    <3>1. Life!Becomes(r, PhaseOf(s)) /\ Life!Release(r) /\ hostOf' = hostOf
      BY <1>1 DEF Life!Becomes, Life!Release
    <3>2. CASE s = "timed_out"
      BY <1>2, <3>1, <3>2, PhaseTable DEF Life!Expire
    <3>3. CASE s = "agent_disconnected"
      BY <1>2, <3>1, <3>3, PhaseTable DEF Life!Lose
    <3>4. CASE s = "deleted"
      BY <1>2, <1>4, <3>1, <3>4, PhaseTable DEF Life!Remove
    <3>5. CASE s \in Ended
      <4>1. PhaseOf(s) = "final" /\ status[r] \notin Ended \cup {"approved", "none", "deleted"}
        BY <1>4, <3>5, PhaseTable
      <4>2. status[r] \in Held \cup Awaiting \cup {"running", "agent_disconnected", "timed_out"}
        BY <4>1
      <4>3. PhaseOf(status[r]) \in Life!Open
        BY <4>2, PhaseTable DEF Life!Open
      <4> QED
        BY <1>2, <3>1, <4>1, <4>3 DEF Life!End
    <3> QED
      BY <1>4, <3>2, <3>3, <3>4, <3>5
  <2> QED
    BY <1>2, <1>4, <2>1 DEF Life!LifeNext
<1> QED
  BY <1>3, <1>4

(* A row that enters the index, or moves on in it. *)
LEMMA ActiveMove ==
  ASSUME TypeOK, NEW r \in Runs, NEW s, status' = [status EXCEPT ![r] = s], hostOf' = hostOf,
         \/ status[r] = "scheduled" /\ s \in Awaiting /\ HostFree(hostOf[r], {r})
         \/ status[r] = "agent_disconnected" /\ s = "running" /\ HostFree(hostOf[r], {r})
         \/ status[r] \in Awaiting /\ s \in Active
         \/ status[r] = s
  PROVE  [Life!LifeNext]_Life!lifeVars
<1> USE DEF TypeOK, Active, Awaiting, Held
<1>1. PhaseMap' = [PhaseMap EXCEPT ![r] = PhaseOf(s)]
  BY MoveMaps
<1>2. PhaseMap[r] = PhaseOf(status[r]) /\ PhaseMap'[r] = PhaseOf(s) /\ hostOf[r] \in Hosts
  BY <1>1 DEF PhaseMap
<1>3. CASE status[r] \in {"scheduled", "agent_disconnected"} /\ s # status[r]
  <2>1. SlotMap' = [SlotMap EXCEPT ![hostOf[r]] = {r}]
    BY <1>3, MoveMaps
  <2>2. SlotMap[hostOf[r]] = {}
    BY <1>2, <1>3 DEF SlotMap, HostFree
  <2>3. Life!OpenWindow(r) \/ Life!Resume(r)
    BY <1>1, <1>2, <1>3, <2>1, <2>2, PhaseTable
    DEF Life!OpenWindow, Life!Resume, Life!Free, Life!Becomes, Life!Take
  <2> QED
    BY <1>2, <1>3, <2>3, PhaseTable DEF Life!LifeNext
<1>4. CASE status[r] \in Awaiting /\ s \in Active
  <2>1. SlotMap' = SlotMap
    BY <1>4, MoveMaps
  <2>2. CASE s \in Awaiting
    <3>1. PhaseMap' = PhaseMap
      BY <1>1, <1>2, <1>4, <2>2, PhaseTable DEF PhaseMap
    <3> QED
      BY <2>1, <3>1 DEF Life!lifeVars
  <2>3. CASE s = "running"
    <3>1. Life!Start(r)
      BY <1>1, <1>2, <1>4, <2>1, <2>3, PhaseTable DEF Life!Start, Life!Becomes
    <3> QED
      BY <1>2, <1>4, <2>3, <3>1, PhaseTable DEF Life!LifeNext
  <2> QED
    BY <1>4, <2>2, <2>3
<1>5. CASE status[r] = s
  <2>1. status' = status
    BY <1>5
  <2> QED
    BY <2>1 DEF Life!lifeVars, PhaseMap, SlotMap
<1> QED
  BY <1>3, <1>4, <1>5

(* CreateRun: planned, or admitted to a free host. *)
LEMMA TriggerStep ==
  ASSUME TypeOK, NEW r \in Runs, NEW h \in Hosts, Trigger(r, h)
  PROVE  [Life!LifeNext]_Life!lifeVars
<1> USE DEF TypeOK, Active, Awaiting, Held
<1>1. PICK s \in {"queued", "scheduled", "pending_validation", "pending_approval"} :
        /\ Insert(r, h, s, s = "pending_validation", {})
        /\ status' = [status EXCEPT ![r] = s]
  BY DEF Trigger
<1>2. status[r] = "none" /\ hostOf' = [hostOf EXCEPT ![r] = h]
  BY <1>1 DEF Insert
<1>3. PhaseMap' = [PhaseMap EXCEPT ![r] = PhaseOf(s)]
  BY <1>1 DEF PhaseMap
<1>4. PhaseMap[r] = "none" /\ PhaseMap'[r] = PhaseOf(s)
  BY <1>2, <1>3, PhaseTable DEF PhaseMap
<1>5. CASE s \in Held
  <2>1. SlotMap' = SlotMap
    BY <1>1, <1>2, <1>5 DEF SlotMap
  <2>2. Life!Plan(r, h)
    BY <1>2, <1>3, <1>4, <1>5, <2>1, PhaseTable DEF Life!Plan, Life!Becomes
  <2> QED
    BY <1>4, <1>5, <2>2, PhaseTable DEF Life!LifeNext
<1>6. CASE s \in Awaiting
  <2>1. \A q \in Runs : status[q] \in Active => hostOf[q] # h
    BY <1>1, <1>2, <1>6 DEF Insert, HostFree
  <2>2. SlotMap[h] = {} /\ SlotMap' = [SlotMap EXCEPT ![h] = {r}]
    <3>1. \A q : q \notin SlotMap[h] /\ (q \in SlotMap'[h] <=> q \in {r})
      BY <1>1, <1>2, <1>6, <2>1, SlotMembers
    <3>2. \A g \in Hosts \ {h} : \A q : q \in SlotMap'[g] <=> q \in SlotMap[g]
      BY <1>1, <1>2, SlotMembers
    <3> QED
      BY <3>1, <3>2, SlotIs
  <2>3. Life!Admit(r, h)
    BY <1>2, <1>3, <1>4, <1>6, <2>2, PhaseTable DEF Life!Admit, Life!Becomes, Life!Take, Life!Free
  <2> QED
    BY <1>4, <1>6, <2>3, PhaseTable DEF Life!LifeNext
<1> QED
  BY <1>1, <1>5, <1>6

(* ApproveRun: the execution run replaces its validation run. *)
LEMMA ApproveStep ==
  ASSUME TypeOK, NEW v \in Runs, NEW r \in Runs, Approve(v, r)
  PROVE  [Life!LifeNext]_Life!lifeVars
<1> USE DEF TypeOK, Active, Awaiting, Held, Ended
<1> DEFINE h == hostOf[v]
<1>1. PICK s \in {"queued", "scheduled"} :
        /\ Insert(r, h, s, FALSE, {v})
        /\ status' = [status EXCEPT ![v] = "approved", ![r] = s]
  BY DEF Approve
<1>2. /\ status[v] \in Approvable /\ status[r] = "none" /\ v # r /\ h \in Hosts
      /\ hostOf' = [hostOf EXCEPT ![r] = h]
  BY <1>1 DEF Insert, Approve, Approvable
<1>3. PhaseOf(status[v]) \in {"planned", "waiting", "final"} /\ PhaseOf("approved") = "final"
  BY <1>2, PhaseTable DEF Approvable
<1>4. PhaseMap' = [PhaseMap EXCEPT ![v] = "final", ![r] = PhaseOf(s)]
  BY <1>1, <1>2, <1>3 DEF PhaseMap
<1>5. PhaseMap[v] = PhaseOf(status[v]) /\ PhaseMap[r] = "none" /\ PhaseMap'[r] = PhaseOf(s)
  BY <1>2, <1>4, PhaseTable DEF PhaseMap
<1>6. \A q \in Runs : /\ status'[q] = IF q = r THEN s ELSE IF q = v THEN "approved" ELSE status[q]
                     /\ hostOf'[q] = IF q = r THEN h ELSE hostOf[q]
  BY <1>1, <1>2
<1>7. CASE s = "scheduled"
  <2>1. SlotMap' = [SlotMap EXCEPT ![h] = @ \ {v}]
    <3>1. \A q : q \in SlotMap'[h] <=> q \in SlotMap[h] \ {v}
      BY <1>2, <1>6, <1>7, SlotMembers
    <3>2. \A g \in Hosts \ {h} : \A q : q \in SlotMap'[g] <=> q \in SlotMap[g]
      BY <1>2, <1>6, <1>7, SlotMembers
    <3> QED
      BY <1>2, <3>1, <3>2, SlotIs
  <2>2. Life!Replace(v, r)
    BY <1>2, <1>3, <1>4, <1>5, <1>7, <2>1, PhaseTable DEF Life!Replace, Life!Release
  <2> QED
    BY <1>5, <1>7, <2>2, PhaseTable DEF Life!LifeNext
<1>8. CASE s = "queued"
  <2>1. \A q \in Runs \ {v} : status[q] \in Active => hostOf[q] # h
    BY <1>1, <1>2, <1>8 DEF Insert, HostFree
  <2>2. SlotMap[h] \subseteq {v} /\ SlotMap' = [SlotMap EXCEPT ![h] = {r}]
    <3>1. status[r] \notin Active /\ status'[v] \notin Active /\ status'[r] \in Active
          /\ hostOf'[r] = h /\ \A q \in Runs \ {r, v} : status'[q] = status[q] /\ hostOf'[q] = hostOf[q]
      BY <1>2, <1>6, <1>8
    <3> HIDE DEF TypeOK, Active, h
    <3>2. \A q : (q \in SlotMap[h] => q \in {v}) /\ (q \in SlotMap'[h] <=> q \in {r})
      BY <1>2, <2>1, <3>1, SlotMembers
    <3>3. \A g \in Hosts \ {h} : \A q : q \in SlotMap'[g] <=> q \in SlotMap[g]
      BY <1>2, <3>1, SlotMembers DEF h
    <3>4. SlotMap' = [SlotMap EXCEPT ![h] = {r}]
      BY <1>2, <3>2, <3>3, SlotIs
    <3> QED
      BY <3>2, <3>4
  <2>3. Life!Replace(v, r)
    BY <1>2, <1>3, <1>4, <1>5, <1>8, <2>2, PhaseTable DEF Life!Replace, Life!Take
  <2> QED
    BY <1>5, <1>8, <2>3, PhaseTable DEF Life!LifeNext
<1> QED
  BY <1>1, <1>7, <1>8

(* MarkRunsAgentDisconnected marks the one running run of the host, if any. *)
LEMMA MarkStep ==
  ASSUME TypeOK, OneActivePerHost, NEW h \in Hosts, MarkDisconnected(h)
  PROVE  [Life!LifeNext]_Life!lifeVars
<1> USE DEF TypeOK
<1>1. hostOf' = hostOf
  BY DEF MarkDisconnected
<1>2. CASE \A r \in Runs : ~(hostOf[r] = h /\ status[r] = "running")
  <2>1. status' = status
    BY <1>2 DEF MarkDisconnected
  <2> QED
    BY <1>1, <2>1 DEF Life!lifeVars, PhaseMap, SlotMap
<1>3. ASSUME NEW r \in Runs, hostOf[r] = h, status[r] = "running"
      PROVE  [Life!LifeNext]_Life!lifeVars
  <2>1. \A q \in Runs : hostOf[q] = h /\ status[q] = "running" => q = r
    BY <1>3 DEF OneActivePerHost, Active
  <2>2. status' = [status EXCEPT ![r] = "agent_disconnected"]
    BY <1>3, <2>1 DEF MarkDisconnected
  <2> QED
    BY <1>1, <1>3, <2>2, LeavingStep DEF Statuses, Active, Awaiting, Held
<1> QED
  BY <1>2, <1>3

(* Every step of the handlers, workers, callbacks and agents.              *)
LEMMA LifeStep ==
  ASSUME TypeOK, OneActivePerHost, DeletingExists, [Next]_vars
  PROVE  [Life!LifeNext]_Life!lifeVars
<1> USE DEF TypeOK, rowVars, Move
<1>1. ASSUME UNCHANGED <<status, hostOf>> PROVE [Life!LifeNext]_Life!lifeVars
  BY <1>1 DEF Life!lifeVars, PhaseMap, SlotMap
<1> DEFINE Leaves(r, s) == hostOf' = hostOf /\ status' = [status EXCEPT ![r] = s]
<1>2. ASSUME NEW r \in Runs, NEW s \in Ended, status[r] \in Statuses, Leaves(r, s)
      PROVE  [Life!LifeNext]_Life!lifeVars
  BY <1>2, LeavingStep DEF Statuses, Ended, Active, Awaiting, Held
<1>3. ASSUME NEW r \in Runs, StopCancel(r) \/ EnqueueTask(r) \/ EnqueueFails(r)
      PROVE  [Life!LifeNext]_Life!lifeVars
  <2>0. hostOf' = hostOf /\ (CancelByUser(r) \/ UNCHANGED status)
    BY <1>3 DEF StopCancel, EnqueueTask, EnqueueFails
  <2>1. CASE CancelByUser(r) /\ status[r] \in Statuses \ (Ended \cup {"timed_out"})
    BY <1>2, <2>0, <2>1 DEF CancelByUser, Ended
  <2>2. CASE UNCHANGED status \/ status[r] \notin Statuses \ (Ended \cup {"timed_out"})
    BY <1>1, <2>0, <2>2 DEF CancelByUser
  <2> QED
    BY <2>0, <2>1, <2>2
<1>4. ASSUME NEW r \in Runs, DeleteRow(r) PROVE [Life!LifeNext]_Life!lifeVars
  <2>1. status[r] # "none" /\ status' = [status EXCEPT ![r] = "deleted"] /\ hostOf' = hostOf
    BY <1>4 DEF DeleteRow, DeletingExists
  <2> QED
    BY <2>1, LeavingStep DEF Active, Awaiting, Held
<1>5. ASSUME NEW r \in Runs, SweepStalled(r) \/ SweepUndispatched(r)
      PROVE  [Life!LifeNext]_Life!lifeVars
  <2>1. status[r] \in Active \cup Held /\ status' = [status EXCEPT ![r] = "timed_out"] /\ hostOf' = hostOf
    BY <1>5 DEF SweepStalled, SweepUndispatched, Active, Held
  <2> QED
    BY <2>1, LeavingStep DEF Statuses, Active, Awaiting, Held
<1>6. ASSUME NEW r \in Runs, NEW t \in TaskIDs, StartTask(r, t) PROVE [Life!LifeNext]_Life!lifeVars
  <2>1. CASE status[r] # "scheduled"
    BY <1>1, <1>6, <2>1 DEF StartTask
  <2>2. CASE status[r] = "scheduled" /\ HostFree(hostOf[r], {r})
    <3>1. status' = [status EXCEPT ![r] = "queued"] /\ hostOf' = hostOf
      BY <1>6, <2>2 DEF StartTask
    <3> QED
      BY <2>2, <3>1, ActiveMove DEF Awaiting
  <2>3. CASE status[r] = "scheduled" /\ ~HostFree(hostOf[r], {r})
    BY <1>2, <1>6, <2>3 DEF StartTask, Ended, Statuses, Held
  <2> QED
    BY <2>1, <2>2, <2>3
<1>7. ASSUME NEW r \in Runs, NEW t \in TaskIDs, RequeueOffline(r, t) \/ MarkDispatched(r, t)
      PROVE  [Life!LifeNext]_Life!lifeVars
  <2>1. hostOf' = hostOf /\ \E s \in Active : Move(r, Awaiting, s)
    BY <1>7 DEF RequeueOffline, RequeueStatus, MarkDispatched, Active, Awaiting
  <2>2. PICK s \in Active : Move(r, Awaiting, s)
    BY <2>1
  <2>3. CASE status[r] \in Awaiting
    BY <2>1, <2>2, <2>3, ActiveMove
  <2>4. CASE status[r] \notin Awaiting
    BY <1>1, <2>1, <2>2, <2>4
  <2> QED
    BY <2>3, <2>4
<1>8. ASSUME NEW r \in Runs, NEW t \in TaskIDs, RefuseDispatch(r, t) PROVE [Life!LifeNext]_Life!lifeVars
  <2>1. hostOf' = hostOf /\ Move(r, Endable, "failed")
    BY <1>8 DEF RefuseDispatch
  <2> QED
    BY <1>1, <1>2, <2>1 DEF Endable, Ended
<1>9. ASSUME NEW r \in Runs, NEW n \in Attempts, ReportStarted(r, n) PROVE [Life!LifeNext]_Life!lifeVars
  <2>1. CASE status[r] \in Startable /\ HostFree(hostOf[r], {r})
    <3>1. status' = [status EXCEPT ![r] = "running"] /\ hostOf' = hostOf
      BY <1>9, <2>1 DEF ReportStarted
    <3> QED
      BY <2>1, <3>1, ActiveMove DEF Startable, Active
  <2>2. CASE ~(status[r] \in Startable /\ HostFree(hostOf[r], {r}))
    BY <1>1, <1>9, <2>2 DEF ReportStarted
  <2> QED
    BY <2>1, <2>2
<1>10. ASSUME NEW r \in Runs, NEW n \in Attempts, ReportEnd(r, n) PROVE [Life!LifeNext]_Life!lifeVars
  <2>1. hostOf' = hostOf /\ \E s \in Ended : Move(r, Statuses, s) \/ Move(r, Endable, s)
    BY <1>10 DEF ReportEnd, Validated, EndedBy, Ended, Reports
  <2> QED
    BY <1>1, <1>2, <2>1 DEF Endable
<1>11. Next =>
         \/ UNCHANGED <<status, hostOf>>
         \/ \E r \in Runs :
              \/ \E h \in Hosts : Trigger(r, h)
              \/ \E v \in Runs : Approve(v, r)
              \/ StopCancel(r) \/ DeleteRow(r) \/ EnqueueTask(r) \/ EnqueueFails(r)
              \/ SweepStalled(r) \/ SweepUndispatched(r)
              \/ \E t \in TaskIDs : \/ StartTask(r, t) \/ RequeueOffline(r, t)
                                   \/ MarkDispatched(r, t) \/ RefuseDispatch(r, t)
              \/ \E n \in Attempts : ReportStarted(r, n) \/ ReportEnd(r, n)
         \/ \E h \in Hosts : MarkDisconnected(h)
  BY DEF Next, User, Handler, Faults, Worker, Agent, RetryValidation, DeleteRead, EnqueueTask,
     StopSignal, DeleteTasks, EnqueueRetry, EnqueueRetryFails, MarkDispatchedFails, CheckRun,
     SendRun, SendFails, Connect, Disconnect, AgentRestart, LoseConnection, DisconnectRecheck,
     AgentReceive, StartedLost, FinishExec, ServerCrash
<1>12. CASE Next
  BY <1>1, <1>3, <1>4, <1>5, <1>6, <1>7, <1>8, <1>9, <1>10, <1>11, <1>12,
     TriggerStep, ApproveStep, MarkStep
<1>13. CASE UNCHANGED vars
  BY <1>1, <1>13 DEF vars
<1> QED
  BY <1>12, <1>13

(* The patching subsystem keeps the promises of PatchRunLife: a run goes   *)
(* through its life in one direction and holds its host's slot alone.      *)
THEOREM Implements == Spec => ImplementsLife
<1>1. Init => Life!LifeInit /\ DeletingExists
  BY PhaseTable DEF Init, DeletingExists, Life!LifeInit, PhaseMap, SlotMap, Active, Awaiting
<1>2. TypeOK /\ OneActivePerHost /\ DeletingExists /\ [Next]_vars
        => [Life!LifeNext]_Life!lifeVars /\ DeletingExists'
  BY LifeStep, DeletingStep
<1> QED
  BY <1>1, <1>2, TypeCorrect, OneActive, PTL DEF Spec, ImplementsLife, Life!LifeSpec
=============================================================================
