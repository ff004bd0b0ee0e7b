-------------------------- MODULE PatchRunsProofs --------------------------
(***************************************************************************)
(* What PatchRuns promises for every set of runs and hosts, every bound:   *)
(* one active run per host, untouched drafts, then how a run ends, then    *)
(* the queue task of a run.                                                *)
(***************************************************************************)
EXTENDS PatchRuns, TLAPS, SequenceTheorems

(* One task, or one execution, that moves keeps the others where they are. *)
LEMMA SetTaskType ==
  ASSUME task \in [Runs -> [TaskIDs -> TaskStates]], NEW r \in Runs, NEW t \in TaskIDs,
         NEW s \in TaskStates, SetTask(r, t, s)
  PROVE  task' \in [Runs -> [TaskIDs -> TaskStates]]
BY DEF SetTask

LEMMA SetExecType ==
  ASSUME exec \in [Runs -> [Attempts -> ExecStates]], NEW r \in Runs, NEW n,
         NEW s \in ExecStates, SetExec(r, n, s)
  PROVE  exec' \in [Runs -> [Attempts -> ExecStates]]
BY DEF SetExec

(* Every step keeps the state in its type. *)
LEMMA TypeStep == TypeOK /\ [Next]_vars => TypeOK'
<1> SUFFICES ASSUME TypeOK, [Next]_vars PROVE TypeOK'
  OBVIOUS
<1> USE ConstantsAssumption
    DEF TypeOK, rowVars, httpVars, linkVars, agentVars, auxVars, notRequests,
        Statuses, Absent, Active, Awaiting, Held, Ended, Attempts
<1>1. ASSUME NEW r \in Runs, NEW h \in Hosts, Trigger(r, h) PROVE TypeOK'
  BY <1>1 DEF Trigger, Insert
<1>2. ASSUME NEW v \in Runs, NEW r \in Runs, Approve(v, r) PROVE TypeOK'
  <2>1. PICK s \in {"queued", "scheduled"} : status' = [status EXCEPT ![v] = "approved", ![r] = s]
    BY <1>2 DEF Approve
  <2>2. status' \in [Runs -> Statuses \cup Absent]
    BY <2>1
  <2>3. hostOf' \in [Runs -> Hosts] /\ dryRun' \in [Runs -> BOOLEAN]
    BY <1>2 DEF Approve, Insert
  <2> QED
    BY <1>2, <2>2, <2>3 DEF Approve
<1>3. ASSUME NEW r \in Runs, RetryValidation(r) PROVE TypeOK'
  BY <1>3 DEF RetryValidation, Request, TaskIDs, TaskStates
<1>4. ASSUME NEW r \in Runs, StopCancel(r) PROVE TypeOK'
  BY <1>4 DEF StopCancel, Request, CancelByUser, Move
<1>5. ASSUME NEW r \in Runs, DeleteRead(r) PROVE TypeOK'
  BY <1>5 DEF DeleteRead, Request
<1>6. ASSUME NEW r \in Runs, EnqueueTask(r) PROVE TypeOK'
  <2>1. task' \in [Runs -> [TaskIDs -> TaskStates]]
    BY <1>6 DEF EnqueueTask, Enqueued, TaskIDs, TaskStates
  <2>2. status' \in [Runs -> Statuses \cup Absent]
    BY <1>6 DEF EnqueueTask, CancelByUser, Move
  <2> QED
    BY <1>6, <2>1, <2>2 DEF EnqueueTask
<1>7. ASSUME NEW r \in Runs, StopSignal(r) PROVE TypeOK'
  <2>1. StopMsg(r) \in Messages
    BY DEF StopMsg, Messages
  <2>2. hostOf[r] \in Hosts /\ Append(wire[hostOf[r]], StopMsg(r)) \in Seq(Messages)
    BY <2>1
  <2> QED
    BY <1>7, <2>2 DEF StopSignal
<1>8. ASSUME NEW r \in Runs, DeleteTasks(r) PROVE TypeOK'
  BY <1>8 DEF DeleteTasks, TaskStates
<1>9. ASSUME NEW r \in Runs, DeleteRow(r) PROVE TypeOK'
  BY <1>9 DEF DeleteRow
<1>10. ASSUME NEW r \in Runs, EnqueueFails(r) PROVE TypeOK'
  <2>1. status' \in [Runs -> Statuses \cup Absent]
    BY <1>10 DEF EnqueueFails, CancelByUser, Move
  <2>2. orphaned' \subseteq Runs /\ faults' \in 0 .. MaxFaults
    BY <1>10, ConstantsAssumption DEF EnqueueFails
  <2> QED
    BY <1>10, <2>1, <2>2 DEF EnqueueFails
<1>11. ASSUME NEW r \in Runs, SweepStalled(r) \/ SweepUndispatched(r) PROVE TypeOK'
  BY <1>11 DEF SweepStalled, SweepUndispatched
<1>12. ASSUME NEW r \in Runs, NEW t \in TaskIDs, StartTask(r, t) PROVE TypeOK'
  <2>1. task' \in [Runs -> [TaskIDs -> TaskStates]]
    BY <1>12, SetTaskType DEF StartTask, TaskStates
  <2>2. status' \in [Runs -> Statuses \cup Absent]
    BY <1>12 DEF StartTask
  <2> QED
    BY <1>12, <2>1, <2>2 DEF StartTask
<1>13. ASSUME NEW r \in Runs, NEW t \in TaskIDs, RequeueOffline(r, t) PROVE TypeOK'
  BY <1>13 DEF RequeueOffline, RequeueStatus, Move, SetTask, TaskStates
<1>14. ASSUME NEW r \in Runs, NEW t \in TaskIDs, EnqueueRetry(r, t) PROVE TypeOK'
  BY <1>14 DEF EnqueueRetry, Enqueued, NextRetryID, TaskIDs, TaskStates
<1>15. ASSUME NEW r \in Runs, NEW t \in TaskIDs, EnqueueRetryFails(r, t) \/ MarkDispatchedFails(r, t)
       PROVE TypeOK'
  <2>1. SetTask(r, t, "none") /\ orphaned' = orphaned \cup {r} /\ faults < MaxFaults
        /\ faults' = faults + 1 /\ UNCHANGED <<rowVars, httpVars, linkVars, agentVars, notified, requests, drops>>
    BY <1>15 DEF EnqueueRetryFails, MarkDispatchedFails
  <2>2. task' \in [Runs -> [TaskIDs -> TaskStates]]
    BY <2>1 DEF SetTask, TaskStates
  <2> QED
    BY <2>1, <2>2
<1>16. ASSUME NEW r \in Runs, NEW t \in TaskIDs, CheckRun(r, t) PROVE TypeOK'
  BY <1>16 DEF CheckRun, SetTask, TaskStates
<1>17. ASSUME NEW r \in Runs, NEW t \in TaskIDs, RefuseDispatch(r, t) PROVE TypeOK'
  BY <1>17 DEF RefuseDispatch, Move, SetTask, TaskStates
<1>18. ASSUME NEW r \in Runs, NEW t \in TaskIDs, SendRun(r, t) PROVE TypeOK'
  <2>1. RunMsg(r, dispatches[r] + 1) \in Messages
    BY DEF RunMsg, Messages
  <2>2. hostOf[r] \in Hosts /\ Append(wire[hostOf[r]], RunMsg(r, dispatches[r] + 1)) \in Seq(Messages)
    BY <2>1
  <2> QED
    BY <1>18, <2>2 DEF SendRun, SetTask, TaskStates
<1>19. ASSUME NEW r \in Runs, NEW t \in TaskIDs, SendFails(r, t) PROVE TypeOK'
  <2>1. task' \in [Runs -> [TaskIDs -> TaskStates]]
    BY <1>19, SetTaskType DEF SendFails, TaskStates
  <2>2. orphaned' \subseteq Runs /\ faults' \in 0 .. MaxFaults
    BY <1>19 DEF SendFails
  <2> QED
    BY <1>19, <2>1, <2>2 DEF SendFails
<1>20. ASSUME NEW r \in Runs, NEW t \in TaskIDs, MarkDispatched(r, t) PROVE TypeOK'
  BY <1>20 DEF MarkDispatched, Move, SetTask, TaskStates
<1>21. ASSUME NEW h \in Hosts, Connect(h) PROVE TypeOK'
  BY <1>21 DEF Connect
<1>22. ASSUME NEW h \in Hosts, Disconnect(h) PROVE TypeOK'
  BY <1>22 DEF Disconnect, LoseConnection
<1>23. ASSUME NEW h \in Hosts, AgentRestart(h) PROVE TypeOK'
  BY <1>23 DEF AgentRestart, LoseConnection, ExecStates
<1>24. ASSUME NEW h \in Hosts, DisconnectRecheck(h) PROVE TypeOK'
  BY <1>24 DEF DisconnectRecheck
<1>25. ASSUME NEW h \in Hosts, MarkDisconnected(h) PROVE TypeOK'
  BY <1>25 DEF MarkDisconnected
<1>26. ASSUME NEW h \in Hosts, AgentReceive(h) PROVE TypeOK'
  <2> DEFINE m == Head(wire[h])
  <2>1. m \in Messages /\ Tail(wire[h]) \in Seq(Messages)
    BY <1>26 DEF AgentReceive
  <2>2. m.run \in Runs
    BY <2>1 DEF Messages
  <2>3. exec' = exec \/ \E n : SetExec(m.run, n, "spawned") \/ SetExec(m.run, n, "stopped")
    BY <1>26 DEF AgentReceive
  <2>4. exec' \in [Runs -> [Attempts -> ExecStates]]
    BY <2>2, <2>3, SetExecType DEF ExecStates
  <2>5. wire' \in [Hosts -> Seq(Messages)]
    BY <1>26, <2>1 DEF AgentReceive
  <2> QED
    BY <1>26, <2>4, <2>5 DEF AgentReceive
<1>27. ASSUME NEW r \in Runs, NEW n \in Attempts, Agent(r, n) PROVE TypeOK'
  <2>1. exec' = exec \/ \E s \in ExecStates : SetExec(r, n, s)
    BY <1>27 DEF Agent, ReportStarted, StartedLost, FinishExec, ReportEnd, SetExec, ExecStates, Reports
  <2>2. exec' \in [Runs -> [Attempts -> ExecStates]]
    BY <2>1, SetExecType
  <2>3. status' = status \/ \E s \in Statuses : status' = [status EXCEPT ![r] = s]
    BY <1>27 DEF Agent, ReportStarted, StartedLost, FinishExec, ReportEnd, Validated, EndedBy, Move, Reports
  <2>4. status' \in [Runs -> Statuses \cup Absent]
    BY <2>3
  <2>5. notified' \in [Runs -> 0 .. 2]
    BY <1>27 DEF Agent, ReportStarted, StartedLost, FinishExec, ReportEnd
  <2> QED
    BY <1>27, <2>2, <2>4, <2>5 DEF Agent, ReportStarted, StartedLost, FinishExec, ReportEnd
<1>28. ASSUME ServerCrash PROVE TypeOK'
  BY <1>28 DEF ServerCrash, TaskStates
<1>29. ASSUME UNCHANGED vars PROVE TypeOK'
  BY <1>29 DEF vars
<1> QED
  BY <1>1, <1>2, <1>3, <1>4, <1>5, <1>6, <1>7, <1>8, <1>9, <1>10, <1>11, <1>12, <1>13, <1>14,
     <1>15, <1>16, <1>17, <1>18, <1>19, <1>20, <1>21, <1>22, <1>23, <1>24, <1>25, <1>26, <1>27,
     <1>28, <1>29
  DEF Next, User, Handler, Faults, Worker

(* The state of every behaviour has its type. *)
THEOREM TypeCorrect == Spec => []TypeOK
<1>1. Init => TypeOK
  BY ConstantsAssumption
  DEF Init, TypeOK, Absent, TaskStates, ExecStates, Attempts
<1> QED
  BY <1>1, TypeStep, PTL DEF Spec

-----------------------------------------------------------------------------
(* One active run per host.  A step either makes no run active, or makes   *)
(* one run active on a host that no other run occupies.                    *)
StillActive(q) ==
  status'[q] \in Active => status[q] \in Active /\ hostOf'[q] = hostOf[q]

NoNewActive == \A q \in Runs : StillActive(q)

OneNewActive(r) ==
  \A q \in Runs \ {r} :
    StillActive(q) /\ (status'[q] \in Active => hostOf[q] # hostOf'[r])

LEMMA ActiveStep ==
  ASSUME TypeOK, [Next]_vars
  PROVE  NoNewActive \/ \E r \in Runs : OneNewActive(r)
<1> USE DEF TypeOK, rowVars, StillActive, NoNewActive, OneNewActive, Active, Awaiting
<1>1. ASSUME NEW r \in Runs, NEW h \in Hosts, Trigger(r, h) PROVE NoNewActive \/ OneNewActive(r)
  <2>1. PICK s \in {"queued", "scheduled", "pending_validation", "pending_approval"} :
          /\ Insert(r, h, s, s = "pending_validation", {})
          /\ status' = [status EXCEPT ![r] = s]
    BY <1>1 DEF Trigger
  <2> QED
    BY <2>1 DEF Insert, HostFree
<1>2. ASSUME NEW v \in Runs, NEW r \in Runs, Approve(v, r) PROVE NoNewActive \/ OneNewActive(r)
  <2>1. PICK s \in {"queued", "scheduled"} :
          /\ Insert(r, hostOf[v], s, FALSE, {v})
          /\ status' = [status EXCEPT ![v] = "approved", ![r] = s]
    BY <1>2 DEF Approve
  <2> QED
    BY <2>1 DEF Insert, HostFree
<1>3. ASSUME NEW r \in Runs, NEW t \in TaskIDs, StartTask(r, t) PROVE NoNewActive \/ OneNewActive(r)
  BY <1>3 DEF StartTask, HostFree
<1>4. ASSUME NEW r \in Runs, NEW n \in Attempts, ReportStarted(r, n) PROVE NoNewActive \/ OneNewActive(r)
  BY <1>4 DEF ReportStarted, HostFree
<1>5. ASSUME NEW r \in Runs, NEW t \in TaskIDs,
             RequeueOffline(r, t) \/ MarkDispatched(r, t) \/ RefuseDispatch(r, t)
      PROVE  NoNewActive
  BY <1>5 DEF RequeueOffline, RequeueStatus, MarkDispatched, RefuseDispatch, Move
<1>6. ASSUME NEW r \in Runs, NEW n \in Attempts, ReportEnd(r, n) PROVE NoNewActive
  BY <1>6 DEF ReportEnd, Validated, EndedBy, Move, Reports
<1>7. ASSUME NEW r \in Runs, StopCancel(r) \/ DeleteRow(r) \/ EnqueueTask(r) \/ EnqueueFails(r)
      PROVE  NoNewActive
  BY <1>7 DEF StopCancel, DeleteRow, EnqueueTask, EnqueueFails, CancelByUser, Move
<1>8. ASSUME NEW r \in Runs, SweepStalled(r) \/ SweepUndispatched(r) PROVE NoNewActive
  BY <1>8 DEF SweepStalled, SweepUndispatched
<1>9. ASSUME NEW h \in Hosts, MarkDisconnected(h) PROVE NoNewActive
  BY <1>9 DEF MarkDisconnected
<1>10. ASSUME UNCHANGED rowVars PROVE NoNewActive
  BY <1>10
<1>11. Next =>
         \/ UNCHANGED rowVars
         \/ \E r \in Runs :
              \/ \E h \in Hosts : Trigger(r, h)
              \/ \E v \in Runs : Approve(v, r)
              \/ StopCancel(r) \/ DeleteRow(r) \/ EnqueueTask(r) \/ EnqueueFails(r)
              \/ SweepStalled(r) \/ SweepUndispatched(r)
              \/ \E t \in TaskIDs : \/ StartTask(r, t) \/ RequeueOffline(r, t)
                                   \/ MarkDispatched(r, t) \/ RefuseDispatch(r, t)
              \/ \E n \in Attempts : ReportStarted(r, n) \/ ReportEnd(r, n)
         \/ \E h \in Hosts : MarkDisconnected(h)
  BY DEF Next, User, Handler, Faults, Worker, Agent, RetryValidation, DeleteRead,
     StopSignal, DeleteTasks, EnqueueRetry, EnqueueRetryFails, MarkDispatchedFails, CheckRun,
     SendRun, SendFails, Connect, Disconnect, AgentRestart, LoseConnection, DisconnectRecheck,
     AgentReceive, StartedLost, FinishExec, ServerCrash
<1>12. CASE Next
  BY <1>1, <1>2, <1>3, <1>4, <1>5, <1>6, <1>7, <1>8, <1>9, <1>10, <1>11, <1>12
<1>13. CASE UNCHANGED vars
  BY <1>10, <1>13 DEF vars
<1> QED
  BY <1>12, <1>13

(* patch_runs_one_active_per_host holds along every path that makes a run  *)
(* active.                                                                 *)
THEOREM OneActive == Spec => []OneActivePerHost
<1>1. Init => OneActivePerHost
  BY DEF Init, OneActivePerHost, Active, Awaiting
<1>2. TypeOK /\ OneActivePerHost /\ [Next]_vars => OneActivePerHost'
  <2> SUFFICES ASSUME TypeOK, OneActivePerHost, [Next]_vars PROVE OneActivePerHost'
    OBVIOUS
  <2>1. CASE NoNewActive
    BY <2>1 DEF NoNewActive, StillActive, OneActivePerHost
  <2>2. ASSUME NEW r \in Runs, OneNewActive(r) PROVE OneActivePerHost'
    BY <2>2 DEF OneNewActive, StillActive, OneActivePerHost
  <2> QED
    BY <2>1, <2>2, ActiveStep
<1> QED
  BY <1>1, <1>2, TypeCorrect, PTL DEF Spec

-----------------------------------------------------------------------------
(* What has happened to a run, told from its status.  A run that does not  *)
(* exist yet or waits for an approver has no trace anywhere; one that      *)
(* waits for its window has at most a task that no worker took; and a      *)
(* run_patch message on the wire was counted when it was sent.             *)
Idle(r) ==
  /\ r \notin enqueuing /\ dispatches[r] = 0 /\ notified[r] = 0
  /\ \A t \in TaskIDs : task[r][t] = "none"
  /\ \A n \in Attempts : exec[r][n] = "none"

Waiting(r) ==
  /\ dispatches[r] = 0 /\ notified[r] = 0
  /\ \A t \in TaskIDs : task[r][t] \in {"none", "pending"}
  /\ \A n \in Attempts : exec[r][n] = "none"

HeldIdle ==
  \A r \in Runs :
    /\ status[r] \in {"none", "pending_approval"} => Idle(r)
    /\ status[r] = "scheduled" => Waiting(r)

WireCounted ==
  \A h \in Hosts : \A i \in 1 .. Len(wire[h]) :
    wire[h][i].kind = "run_patch" => dispatches[wire[h][i].run] > 0

(* Messages are counted before they are on the wire, and never uncounted.  *)
LEMMA WireStep == TypeOK /\ WireCounted /\ [Next]_vars => WireCounted'
<1> SUFFICES ASSUME TypeOK, WireCounted, [Next]_vars PROVE WireCounted'
  OBVIOUS
<1> USE DEF TypeOK, WireCounted, linkVars, agentVars
<1>1. ASSUME UNCHANGED <<wire, dispatches>> PROVE WireCounted'
  BY <1>1
<1>2. ASSUME NEW h \in Hosts, wire' = [wire EXCEPT ![h] = <<>>], UNCHANGED dispatches
      PROVE  WireCounted'
  BY <1>2
<1>3. ASSUME wire' = [h \in Hosts |-> <<>>] PROVE WireCounted'
  BY <1>3
<1>4. ASSUME NEW r \in Runs, StopSignal(r) PROVE WireCounted'
  <2>1. CASE ~connected[hostOf[r]]
    BY <1>1, <1>4, <2>1 DEF StopSignal
  <2>2. CASE connected[hostOf[r]]
    <3>1. StopMsg(r) \in Messages /\ StopMsg(r).kind # "run_patch" /\ hostOf[r] \in Hosts
      BY DEF StopMsg, Messages
    <3>2. wire' = [wire EXCEPT ![hostOf[r]] = Append(@, StopMsg(r))] /\ dispatches' = dispatches
      BY <1>4, <2>2 DEF StopSignal
    <3> QED
      BY <3>1, <3>2
  <2> QED
    BY <2>1, <2>2
<1>5. ASSUME NEW r \in Runs, NEW t \in TaskIDs, SendRun(r, t) PROVE WireCounted'
  <2> DEFINE m == RunMsg(r, dispatches[r] + 1)
  <2>1. m \in Messages /\ m.run = r /\ hostOf[r] \in Hosts
    BY DEF RunMsg, Messages
  <2>2. wire' = [wire EXCEPT ![hostOf[r]] = Append(@, m)]
        /\ dispatches' = [dispatches EXCEPT ![r] = @ + 1]
    BY <1>5 DEF SendRun
  <2>3. \A q \in Runs : dispatches[q] > 0 => dispatches'[q] > 0
    BY <2>2
  <2>4. dispatches'[r] > 0
    BY <2>2
  <2>5. \A h \in Hosts : \A i \in 1 .. Len(wire[h]) : wire[h][i] \in Messages
    OBVIOUS
  <2>6. \A h \in Hosts : \A i \in 1 .. Len(wire[h]) : wire[h][i].run \in Runs
    BY <2>5 DEF Messages
  <2> HIDE DEF m
  <2>7. \A g \in Hosts \ {hostOf[r]} : wire'[g] = wire[g]
    BY <2>1, <2>2
  <2>8. wire[hostOf[r]] \in Seq(Messages) /\ wire'[hostOf[r]] = Append(wire[hostOf[r]], m)
    BY <2>1, <2>2
  <2>9. ASSUME NEW i \in 1 .. Len(wire'[hostOf[r]]), wire'[hostOf[r]][i].kind = "run_patch"
        PROVE  dispatches'[wire'[hostOf[r]][i].run] > 0
    <3>1. CASE i = Len(wire[hostOf[r]]) + 1
      BY <2>1, <2>4, <2>8, <3>1
    <3>2. CASE i \in 1 .. Len(wire[hostOf[r]])
      <4>1. wire'[hostOf[r]][i] = wire[hostOf[r]][i]
        BY <2>1, <2>8, <3>2
      <4> QED
        BY <2>1, <2>3, <2>6, <2>9, <3>2, <4>1
    <3> QED
      BY <2>1, <2>8, <3>1, <3>2
  <2>10. ASSUME NEW g \in Hosts \ {hostOf[r]}, NEW i \in 1 .. Len(wire'[g]),
                wire'[g][i].kind = "run_patch"
         PROVE  dispatches'[wire'[g][i].run] > 0
    BY <2>3, <2>6, <2>7, <2>10
  <2> HIDE DEF TypeOK
  <2> QED
    BY <2>9, <2>10
<1>6. ASSUME NEW h \in Hosts, AgentReceive(h) PROVE WireCounted'
  <2>1. wire[h] \in Seq(Messages) /\ wire[h] # <<>> /\ wire' = [wire EXCEPT ![h] = Tail(@)]
        /\ dispatches' = dispatches
    BY <1>6 DEF AgentReceive
  <2>2. /\ Len(Tail(wire[h])) = Len(wire[h]) - 1 /\ Len(wire[h]) \in Nat
        /\ \A i \in 1 .. Len(Tail(wire[h])) : Tail(wire[h])[i] = wire[h][i + 1]
    BY <2>1, HeadTailProperties
  <2>3. \A i \in 1 .. Len(Tail(wire[h])) : i + 1 \in 1 .. Len(wire[h])
    BY <2>2
  <2>4. wire'[h] = Tail(wire[h]) /\ \A g \in Hosts \ {h} : wire'[g] = wire[g]
    BY <2>1
  <2>5. ASSUME NEW i \in 1 .. Len(wire'[h]), wire'[h][i].kind = "run_patch"
        PROVE  dispatches'[wire'[h][i].run] > 0
    <3>1. i + 1 \in 1 .. Len(wire[h]) /\ wire'[h][i] = wire[h][i + 1]
      BY <2>2, <2>3, <2>4
    <3> QED
      BY <2>1, <2>5, <3>1
  <2>6. ASSUME NEW g \in Hosts \ {h}, NEW i \in 1 .. Len(wire'[g]), wire'[g][i].kind = "run_patch"
        PROVE  dispatches'[wire'[g][i].run] > 0
    BY <2>1, <2>4, <2>6
  <2> HIDE DEF TypeOK
  <2> QED
    BY <2>5, <2>6
<1>7. CASE Next
  <2>1. CASE User
    BY <2>1, <1>1 DEF User, Trigger, Approve, RetryValidation, StopCancel, DeleteRead
  <2>2. ASSUME NEW r \in Runs, Handler(r) PROVE WireCounted'
    BY <2>2, <1>1, <1>4 DEF Handler, EnqueueTask, DeleteTasks, DeleteRow
  <2>3. ASSUME NEW r \in Runs, NEW t \in TaskIDs, Worker(r, t) PROVE WireCounted'
    BY <2>3, <1>1, <1>5 DEF Worker, StartTask, RequeueOffline, EnqueueRetry, CheckRun,
       RefuseDispatch, SendFails, MarkDispatched
  <2>4. ASSUME NEW r \in Runs, NEW n \in Attempts, Agent(r, n) PROVE WireCounted'
    BY <2>4, <1>1 DEF Agent, ReportStarted, StartedLost, FinishExec, ReportEnd
  <2>5. ASSUME NEW r \in Runs, SweepStalled(r) \/ SweepUndispatched(r) PROVE WireCounted'
    BY <2>5, <1>1 DEF SweepStalled, SweepUndispatched
  <2>6. CASE Faults
    <3>1. CASE ServerCrash
      BY <3>1, <1>3 DEF ServerCrash
    <3>2. ASSUME NEW h \in Hosts, Disconnect(h) \/ AgentRestart(h) PROVE WireCounted'
      BY <3>2, <1>2 DEF Disconnect, AgentRestart, LoseConnection
    <3>3. ASSUME NEW r \in Runs, NEW t \in TaskIDs,
                 EnqueueFails(r) \/ EnqueueRetryFails(r, t) \/ MarkDispatchedFails(r, t)
          PROVE  WireCounted'
      BY <3>3, <1>1 DEF EnqueueFails, EnqueueRetryFails, MarkDispatchedFails
    <3> QED
      BY <2>6, <3>1, <3>2, <3>3 DEF Faults, TaskIDs
  <2>7. ASSUME NEW h \in Hosts, Connect(h) \/ DisconnectRecheck(h) \/ MarkDisconnected(h)
        PROVE  WireCounted'
    BY <2>7, <1>1 DEF Connect, DisconnectRecheck, MarkDisconnected
  <2> QED
    BY <1>7, <1>6, <2>1, <2>2, <2>3, <2>4, <2>5, <2>6, <2>7 DEF Next
<1>8. CASE UNCHANGED vars
  BY <1>1, <1>8 DEF vars
<1> QED
  BY <1>7, <1>8

(* A step of one run that ends up neither new nor held leaves the others.  *)
LEMMA HeldFrame ==
  ASSUME HeldIdle, NEW r \in Runs,
         status'[r] \notin {"none", "pending_approval", "scheduled"},
         enqueuing' \subseteq enqueuing \cup {r},
         \A q \in Runs \ {r} : /\ status'[q] = status[q] /\ task'[q] = task[q]
                             /\ dispatches'[q] = dispatches[q] /\ exec'[q] = exec[q]
                             /\ notified'[q] = notified[q]
  PROVE  HeldIdle'
BY DEF HeldIdle, Idle, Waiting

(* A held run is left alone by every step that does not move it on.        *)
LEMMA HeldStep == TypeOK /\ WireCounted /\ HeldIdle /\ [Next]_vars => HeldIdle'
<1> SUFFICES ASSUME TypeOK, WireCounted, HeldIdle, [Next]_vars PROVE HeldIdle'
  OBVIOUS
<1> USE DEF TypeOK, HeldIdle, Idle, Waiting, rowVars, httpVars, linkVars, agentVars, auxVars,
            notRequests, Awaiting, SetTask, SetExec, Move
<1>1. ASSUME NEW r \in Runs, NEW h \in Hosts, Trigger(r, h) PROVE HeldIdle'
  BY <1>1 DEF Trigger, Insert
<1>2. ASSUME NEW v \in Runs, NEW r \in Runs, Approve(v, r) PROVE HeldIdle'
  <2>1. PICK s \in {"queued", "scheduled"} : status' = [status EXCEPT ![v] = "approved", ![r] = s]
    BY <1>2 DEF Approve
  <2>2. v # r /\ status[r] = "none" /\ status'[v] = "approved" /\ status'[r] = s
    BY <1>2, <2>1 DEF Approve, Insert, Approvable
  <2>3. enqueuing' = enqueuing \cup {r} /\ UNCHANGED <<task, dispatches, exec, notified>>
    BY <1>2 DEF Approve
  <2>4. \A q \in Runs \ {v, r} : status'[q] = status[q]
    BY <2>1
  <2>5. Idle(r)
    BY <2>2
  <2>6. r \notin enqueuing => \A q \in Runs \ {v, r} : q \in enqueuing' <=> q \in enqueuing
    BY <2>3
  <2>7. ASSUME NEW q \in Runs, status'[q] = "scheduled" PROVE Waiting(q)'
    <3>1. q = r \/ status[q] = "scheduled"
      BY <2>2, <2>4, <2>7
    <3>2. Waiting(q)
      BY <2>5, <3>1
    <3> QED
      BY <2>3, <3>2
  <2>8. ASSUME NEW q \in Runs, status'[q] \in {"none", "pending_approval"} PROVE Idle(q)'
    BY <2>2, <2>3, <2>4, <2>8
  <2> QED
    BY <2>7, <2>8
<1>3. ASSUME NEW r \in Runs, RetryValidation(r) PROVE HeldIdle'
  BY <1>3 DEF RetryValidation
<1>4. ASSUME NEW r \in Runs, StopCancel(r) PROVE HeldIdle'
  BY <1>4 DEF StopCancel, CancelByUser
<1>5. ASSUME NEW r \in Runs, DeleteRead(r) \/ StopSignal(r) PROVE HeldIdle'
  BY <1>5 DEF DeleteRead, StopSignal
<1>6. ASSUME NEW r \in Runs, EnqueueTask(r) PROVE HeldIdle'
  <2>1. CASE task[r]["main"] = "none"
    BY <1>6, <2>1 DEF EnqueueTask, Enqueued
  <2>2. CASE task[r]["main"] # "none"
    BY <1>6, <2>2 DEF EnqueueTask, Enqueued, CancelByUser
  <2> QED
    BY <2>1, <2>2
<1>7. ASSUME NEW r \in Runs, EnqueueFails(r) PROVE HeldIdle'
  BY <1>7 DEF EnqueueFails, CancelByUser
<1>8. ASSUME NEW r \in Runs, DeleteTasks(r) PROVE HeldIdle'
  BY <1>8 DEF DeleteTasks
<1>9. ASSUME NEW r \in Runs, DeleteRow(r) PROVE HeldIdle'
  BY <1>9 DEF DeleteRow
<1>10. ASSUME NEW r \in Runs, SweepStalled(r) \/ SweepUndispatched(r) PROVE HeldIdle'
  <2>1. status' = [status EXCEPT ![r] = "timed_out"] /\ UNCHANGED <<task, enqueuing, dispatches, exec, notified>>
    BY <1>10 DEF SweepStalled, SweepUndispatched
  <2> QED
    BY <2>1
<1>11. ASSUME NEW r \in Runs, NEW t \in TaskIDs, StartTask(r, t) PROVE HeldIdle'
  <2>1. status[r] \notin {"none", "pending_approval"}
    BY <1>11 DEF StartTask
  <2>2. status'[r] \notin {"none", "pending_approval", "scheduled"}
    BY <1>11, <2>1 DEF StartTask
  <2>3. \A q \in Runs \ {r} : status'[q] = status[q] /\ task'[q] = task[q]
    BY <1>11 DEF StartTask
  <2>4. UNCHANGED <<enqueuing, dispatches, exec, notified>>
    BY <1>11 DEF StartTask
  <2> HIDE DEF TypeOK, HeldIdle, Idle, Waiting
  <2> QED
    BY <2>2, <2>3, <2>4, HeldFrame
<1>12. ASSUME NEW r \in Runs, NEW t \in TaskIDs, RequeueOffline(r, t) PROVE HeldIdle'
  BY <1>12 DEF RequeueOffline, RequeueStatus
<1>13. ASSUME NEW r \in Runs, NEW t \in TaskIDs, EnqueueRetry(r, t) PROVE HeldIdle'
  BY <1>13 DEF EnqueueRetry, Enqueued, NextRetryID, TaskIDs
<1>14. ASSUME NEW r \in Runs, NEW t \in TaskIDs, EnqueueRetryFails(r, t) \/ MarkDispatchedFails(r, t)
       PROVE HeldIdle'
  <2>1. SetTask(r, t, "none") /\ UNCHANGED <<status, enqueuing, dispatches, exec, notified>>
    BY <1>14 DEF EnqueueRetryFails, MarkDispatchedFails
  <2> QED
    BY <2>1
<1>15. ASSUME NEW r \in Runs, NEW t \in TaskIDs, CheckRun(r, t) PROVE HeldIdle'
  BY <1>15 DEF CheckRun
<1>16. ASSUME NEW r \in Runs, NEW t \in TaskIDs, RefuseDispatch(r, t) PROVE HeldIdle'
  BY <1>16 DEF RefuseDispatch
<1>17. ASSUME NEW r \in Runs, NEW t \in TaskIDs, SendRun(r, t) PROVE HeldIdle'
  BY <1>17 DEF SendRun
<1>18. ASSUME NEW r \in Runs, NEW t \in TaskIDs, SendFails(r, t) PROVE HeldIdle'
  <2>1. task[r][t] = "checked" /\ UNCHANGED <<status, enqueuing, dispatches, exec, notified>>
        /\ \A q \in Runs \ {r} : task'[q] = task[q]
    BY <1>18 DEF SendFails
  <2>2. status[r] \notin {"none", "pending_approval", "scheduled"}
    BY <2>1
  <2> HIDE DEF TypeOK, HeldIdle, Idle, Waiting
  <2> QED
    BY <2>1, <2>2, HeldFrame
<1>19. ASSUME NEW r \in Runs, NEW t \in TaskIDs, MarkDispatched(r, t) PROVE HeldIdle'
  BY <1>19 DEF MarkDispatched
<1>20. ASSUME NEW h \in Hosts, Connect(h) \/ DisconnectRecheck(h) \/ Disconnect(h) PROVE HeldIdle'
  BY <1>20 DEF Connect, DisconnectRecheck, Disconnect, LoseConnection
<1>21. ASSUME NEW h \in Hosts, AgentRestart(h) PROVE HeldIdle'
  BY <1>21 DEF AgentRestart, LoseConnection
<1>22. ASSUME NEW h \in Hosts, MarkDisconnected(h) PROVE HeldIdle'
  BY <1>22 DEF MarkDisconnected
<1>23. ASSUME NEW h \in Hosts, AgentReceive(h) PROVE HeldIdle'
  <2> DEFINE m == Head(wire[h])
  <2>1. wire[h] \in Seq(Messages) /\ wire[h] # <<>>
    BY <1>23 DEF AgentReceive
  <2>2. m = wire[h][1] /\ 1 \in 1 .. Len(wire[h]) /\ m \in Messages
    BY <2>1
  <2>3. m.kind = "run_patch" => dispatches[m.run] > 0
    BY <2>2 DEF WireCounted
  <2>4. m.run \in Runs
    BY <2>2 DEF Messages
  <2>5. \/ exec' = exec
        \/ /\ dispatches[m.run] > 0 \/ \E n \in Attempts : exec[m.run][n] # "none"
           /\ \A q \in Runs : q # m.run => exec'[q] = exec[q]
    <3>1. \/ exec' = exec
          \/ m.kind = "run_patch" /\ exec' = [exec EXCEPT ![m.run][m.attempt] = "spawned"]
          \/ \E n \in Attempts : exec[m.run][n] \in {"spawned", "executing"}
                               /\ exec' = [exec EXCEPT ![m.run][n] = "stopped"]
      BY <1>23 DEF AgentReceive
    <3> HIDE DEF m
    <3>2. CASE m.kind = "run_patch" /\ exec' = [exec EXCEPT ![m.run][m.attempt] = "spawned"]
      BY <2>3, <3>2
    <3>3. ASSUME NEW n \in Attempts, exec[m.run][n] \in {"spawned", "executing"},
                 exec' = [exec EXCEPT ![m.run][n] = "stopped"]
          PROVE  exec[m.run][n] # "none" /\ \A q \in Runs : q # m.run => exec'[q] = exec[q]
      BY <3>3
    <3> QED
      BY <3>1, <3>2, <3>3
  <2> HIDE DEF m
  <2>6. ASSUME NEW q \in Runs, Idle(q) \/ Waiting(q) PROVE exec'[q] = exec[q]
    <3>1. dispatches[q] = 0 /\ \A n \in Attempts : exec[q][n] = "none"
      BY <2>6
    <3> QED
      BY <2>5, <3>1
  <2>7. UNCHANGED <<status, enqueuing, task, dispatches, notified>>
    BY <1>23 DEF AgentReceive
  <2> QED
    BY <2>6, <2>7
<1>24. ASSUME NEW r \in Runs, NEW n \in Attempts, Agent(r, n) PROVE HeldIdle'
  <2>1. exec[r][n] # "none"
    BY <1>24 DEF Agent, ReportStarted, StartedLost, FinishExec, ReportEnd, Reports
  <2>2. status[r] \notin {"none", "pending_approval", "scheduled"}
    BY <2>1
  <2>3. \A q \in Runs \ {r} : /\ status'[q] = status[q] /\ notified'[q] = notified[q]
                             /\ exec'[q] = exec[q]
    BY <1>24 DEF Agent, ReportStarted, StartedLost, FinishExec, ReportEnd, Validated, EndedBy
  <2>4. status'[r] \notin {"none", "pending_approval", "scheduled"}
    BY <1>24, <2>2 DEF Agent, ReportStarted, StartedLost, FinishExec, ReportEnd, Validated, EndedBy, Reports
  <2>5. UNCHANGED <<enqueuing, task, dispatches>>
    BY <1>24 DEF Agent, ReportStarted, StartedLost, FinishExec, ReportEnd
  <2> HIDE DEF TypeOK, HeldIdle, Idle, Waiting
  <2> QED
    BY <2>3, <2>4, <2>5, HeldFrame
<1>25. ASSUME ServerCrash PROVE HeldIdle'
  BY <1>25 DEF ServerCrash
<1>26. ASSUME UNCHANGED vars PROVE HeldIdle'
  BY <1>26 DEF vars
<1> QED
  BY <1>1, <1>2, <1>3, <1>4, <1>5, <1>6, <1>7, <1>8, <1>9, <1>10, <1>11, <1>12, <1>13, <1>14,
     <1>15, <1>16, <1>17, <1>18, <1>19, <1>20, <1>21, <1>22, <1>23, <1>24, <1>25, <1>26
  DEF Next, User, Handler, Faults, Worker

(* What is known of a run that is new or held, for the proofs that rest on *)
(* it.                                                                     *)
LEMMA HeldInvariant == Spec => [](TypeOK /\ HeldIdle)
<1>1. Init => WireCounted /\ HeldIdle
  BY DEF Init, WireCounted, HeldIdle, Idle, Attempts
<1> QED
  BY <1>1, WireStep, HeldStep, TypeCorrect, PTL DEF Spec

(* A run that waits for its window or its approver has not reached its     *)
(* agent, and no worker is about to send it.                               *)
THEOREM HeldRuns == Spec => []HeldRunsUntouched
<1>1. HeldIdle => HeldRunsUntouched
  BY DEF HeldIdle, Idle, Waiting, HeldRunsUntouched, Held
<1> QED
  BY <1>1, HeldInvariant, PTL

-----------------------------------------------------------------------------
(* How a run ends: a cancelled execution run stays cancelled, the end of an
   execution run is notified once, and an approved run has the run it was
   approved for.  The invariant behind the first two says what only a dry run
   can be, and that a run whose end was notified has a status no report moves. *)
OnlyDry(r) ==
  /\ status[r] = "pending_validation" => dryRun[r]
  /\ \A n \in Attempts : exec[r][n] = "dry_run_completed" => dryRun[r]

NotifiedEnd(r) ==
  ~dryRun[r] /\ notified[r] # 0
    => notified[r] = 1 /\ status[r] \in {"completed", "failed", "deleted"}

EndInv == \A r \in Runs : OnlyDry(r) /\ NotifiedEnd(r)

(* What a step may do to a run without a closer look.                      *)
Untouched(r) ==
  /\ dryRun'[r] = dryRun[r] /\ notified'[r] = notified[r] /\ exec'[r] = exec[r]
  /\ status'[r] = status[r]

LEMMA UntouchedKeeps ==
  ASSUME EndInv, NEW r \in Runs, Untouched(r)
  PROVE  OnlyDry(r)' /\ NotifiedEnd(r)'
BY DEF EndInv, OnlyDry, NotifiedEnd, Untouched

(* A step that moves the status of a run which has not ended.              *)
Moves(r) ==
  /\ dryRun'[r] = dryRun[r] /\ notified'[r] = notified[r] /\ exec'[r] = exec[r]
  /\ status[r] \notin {"completed", "failed", "deleted"} \/ status'[r] = "deleted"
  /\ status'[r] = "pending_validation" => dryRun[r]

LEMMA MovesKeeps ==
  ASSUME EndInv, NEW r \in Runs, Moves(r)
  PROVE  OnlyDry(r)' /\ NotifiedEnd(r)'
BY DEF EndInv, OnlyDry, NotifiedEnd, Moves

(* Each run is left alone or moved on, but by its own executions and its   *)
(* creation.                                                               *)
LEMMA EndStep == TypeOK /\ HeldIdle /\ EndInv /\ [Next]_vars => EndInv'
<1> SUFFICES ASSUME TypeOK, HeldIdle, EndInv, [Next]_vars PROVE EndInv'
  OBVIOUS
<1> USE DEF rowVars, httpVars, linkVars, agentVars, auxVars, notRequests, SetTask, SetExec
<1>0. /\ status \in [Runs -> Statuses \cup Absent] /\ dryRun \in [Runs -> BOOLEAN]
      /\ exec \in [Runs -> [Attempts -> ExecStates]] /\ notified \in [Runs -> 0 .. 2]
      /\ hostOf \in [Runs -> Hosts]
  BY DEF TypeOK
<1>a. ASSUME \A q \in Runs : Untouched(q) \/ Moves(q) PROVE EndInv'
  BY <1>a, UntouchedKeeps, MovesKeeps DEF EndInv
<1>b. ASSUME UNCHANGED <<status, dryRun, exec, notified>> PROVE EndInv'
  BY <1>a, <1>b DEF Untouched
<1>c. ASSUME NEW r \in Runs, \A q \in Runs \ {r} : Untouched(q), OnlyDry(r)' /\ NotifiedEnd(r)'
      PROVE  EndInv'
  BY <1>c, UntouchedKeeps DEF EndInv
<1>1. ASSUME NEW r \in Runs, NEW h \in Hosts, Trigger(r, h) PROVE EndInv'
  <2>1. Idle(r) /\ status[r] = "none"
    BY <1>1 DEF Trigger, Insert, HeldIdle
  <2>2. PICK s \in {"queued", "scheduled", "pending_validation", "pending_approval"} :
          /\ dryRun' = [dryRun EXCEPT ![r] = (s = "pending_validation")]
          /\ status' = [status EXCEPT ![r] = s]
    BY <1>1 DEF Trigger, Insert
  <2>3. UNCHANGED <<exec, notified>>
    BY <1>1 DEF Trigger
  <2>4. OnlyDry(r)' /\ NotifiedEnd(r)'
    BY <1>0, <2>1, <2>2, <2>3 DEF OnlyDry, NotifiedEnd, Idle
  <2> QED
    BY <1>0, <1>c, <2>2, <2>3, <2>4 DEF Untouched
<1>2. ASSUME NEW v \in Runs, NEW r \in Runs, Approve(v, r) PROVE EndInv'
  <2>1. Idle(r) /\ status[r] = "none"
    BY <1>2 DEF Approve, Insert, HeldIdle
  <2>2. PICK s \in {"queued", "scheduled"} :
          /\ dryRun' = [dryRun EXCEPT ![r] = FALSE]
          /\ status' = [status EXCEPT ![v] = "approved", ![r] = s]
    BY <1>2 DEF Approve, Insert
  <2>3. UNCHANGED <<exec, notified>> /\ status[v] \in Approvable
    BY <1>2 DEF Approve
  <2>4. v # r
    BY <2>1, <2>3 DEF Approvable
  <2>5. OnlyDry(r)' /\ NotifiedEnd(r)'
    BY <1>0, <2>1, <2>2, <2>3 DEF OnlyDry, NotifiedEnd, Idle
  <2>6. Moves(v)
    BY <1>0, <2>2, <2>3, <2>4 DEF Moves, Approvable
  <2>7. \A q \in Runs \ {v, r} : Untouched(q)
    BY <1>0, <2>2, <2>3 DEF Untouched
  <2> QED
    BY <2>4, <2>5, <2>6, <2>7, UntouchedKeeps, MovesKeeps DEF EndInv
<1>4. ASSUME NEW r \in Runs, StopCancel(r) \/ EnqueueTask(r) \/ EnqueueFails(r) PROVE EndInv'
  <2>1. UNCHANGED <<dryRun, exec, notified>> /\ (CancelByUser(r) \/ UNCHANGED status)
    BY <1>4 DEF StopCancel, EnqueueTask, EnqueueFails
  <2> QED
    BY <1>0, <1>a, <1>b, <2>1 DEF CancelByUser, Move, Untouched, Moves, Statuses, Active, Awaiting,
       Held, Ended, Absent
<1>3. ASSUME NEW r \in Runs, RetryValidation(r) \/ DeleteRead(r) \/ Handler(r) PROVE EndInv'
  <2>1. CASE DeleteRow(r)
    BY <1>0, <1>a, <2>1 DEF DeleteRow, Untouched, Moves
  <2> QED
    BY <1>3, <1>4, <1>b, <2>1 DEF RetryValidation, DeleteRead, Handler, StopSignal, DeleteTasks
<1>5. ASSUME NEW r \in Runs, SweepStalled(r) \/ SweepUndispatched(r) PROVE EndInv'
  BY <1>0, <1>5, <1>a DEF SweepStalled, SweepUndispatched, Awaiting, Untouched, Moves
<1>6. ASSUME NEW r \in Runs, NEW t \in TaskIDs, Worker(r, t) PROVE EndInv'
  <2>1. CASE StartTask(r, t)
    BY <1>0, <1>a, <2>1 DEF StartTask, Untouched, Moves
  <2>2. CASE RequeueOffline(r, t)
    BY <1>0, <1>a, <2>2 DEF RequeueOffline, RequeueStatus, Move, Awaiting, Untouched, Moves
  <2>3. CASE RefuseDispatch(r, t)
    BY <1>0, <1>a, <2>3 DEF RefuseDispatch, Move, Endable, Statuses, Active, Awaiting, Held, Ended,
       Untouched, Moves
  <2>4. CASE MarkDispatched(r, t)
    BY <1>0, <1>a, <2>4 DEF MarkDispatched, Move, Awaiting, Untouched, Moves
  <2> QED
    BY <1>6, <1>b, <2>1, <2>2, <2>3, <2>4 DEF Worker, EnqueueRetry, CheckRun, SendRun, SendFails
<1>7. ASSUME NEW r \in Runs, NEW t \in TaskIDs, EnqueueRetryFails(r, t) \/ MarkDispatchedFails(r, t)
      PROVE  EndInv'
  BY <1>7, <1>b DEF EnqueueRetryFails, MarkDispatchedFails
<1>8. ASSUME NEW h \in Hosts, Connect(h) \/ Disconnect(h) \/ DisconnectRecheck(h) PROVE EndInv'
  BY <1>8, <1>b DEF Connect, Disconnect, LoseConnection, DisconnectRecheck
<1>9. ASSUME NEW h \in Hosts, AgentRestart(h) PROVE EndInv'
  <2>1. UNCHANGED <<status, dryRun, notified>>
    BY <1>9 DEF AgentRestart, LoseConnection
  <2>2. \A q \in Runs, n \in Attempts : exec'[q][n] \in {"over", exec[q][n]}
    BY <1>9 DEF AgentRestart
  <2> QED
    BY <2>1, <2>2 DEF EndInv, OnlyDry, NotifiedEnd
<1>10. ASSUME NEW h \in Hosts, MarkDisconnected(h) PROVE EndInv'
  BY <1>0, <1>10, <1>a DEF MarkDisconnected, Untouched, Moves
<1>11. ASSUME NEW h \in Hosts, AgentReceive(h) PROVE EndInv'
  <2>1. UNCHANGED <<status, dryRun, notified>>
    BY <1>11 DEF AgentReceive
  <2> DEFINE m == Head(wire[h])
  <2>2. \/ UNCHANGED exec
        \/ exec' = [exec EXCEPT ![m.run][m.attempt] = "spawned"]
        \/ \E n \in Attempts : exec' = [exec EXCEPT ![m.run][n] = "stopped"]
    BY <1>11 DEF AgentReceive
  <2> HIDE DEF m
  <2>3. ASSUME NEW q \in Runs, NEW n \in Attempts
        PROVE  exec'[q][n] \in {"spawned", "stopped", exec[q][n]}
    <3>1. ASSUME NEW p, NEW k, NEW s, exec' = [exec EXCEPT ![p][k] = s]
          PROVE  exec'[q][n] \in {s, exec[q][n]}
      BY <1>0, <3>1
    <3> QED
      BY <2>2, <3>1
  <2> QED
    BY <2>1, <2>3 DEF EndInv, OnlyDry, NotifiedEnd
<1>12. ASSUME NEW r \in Runs, NEW n \in Attempts, Agent(r, n) PROVE EndInv'
  <2>1. CASE ReportStarted(r, n)
    <3>1. UNCHANGED <<dryRun, notified>> /\ exec' \in {exec, [exec EXCEPT ![r][n] = "executing"]}
          /\ status' \in {status, [status EXCEPT ![r] = "running"]}
          /\ (status' # status => status[r] \in Startable)
      BY <2>1 DEF ReportStarted
    <3>2. OnlyDry(r)' /\ NotifiedEnd(r)'
      BY <1>0, <3>1 DEF EndInv, OnlyDry, NotifiedEnd, Startable, Awaiting
    <3> QED
      BY <1>0, <1>c, <3>1, <3>2 DEF Untouched
  <2>2. CASE StartedLost(r, n) \/ FinishExec(r, n)
    <3> DEFINE Ran(s) == exec' = [exec EXCEPT ![r][n] = s] /\ (s = "dry_run_completed" => dryRun[r])
    <3>1. UNCHANGED <<status, dryRun, notified>>
      BY <2>2 DEF StartedLost, FinishExec
    <3>2. \/ Ran("executing") \/ Ran("cancelled") \/ Ran("failed") \/ Ran("completed")
          \/ Ran("dry_run_completed") \/ Ran("over")
      BY <2>2 DEF StartedLost, FinishExec
    <3>3. PICK s : Ran(s)
      BY <3>2
    <3> HIDE DEF Ran
    <3>4. \A m \in Attempts : exec'[r][m] \in {s, exec[r][m]}
      BY <1>0, <3>3 DEF Ran
    <3>5. OnlyDry(r)' /\ NotifiedEnd(r)'
      BY <3>1, <3>3, <3>4 DEF EndInv, OnlyDry, NotifiedEnd, Ran
    <3>6. \A q \in Runs \ {r} : exec'[q] = exec[q]
      BY <1>0, <3>3 DEF Ran
    <3> QED
      BY <1>c, <3>1, <3>5, <3>6 DEF Untouched
  <2>3. CASE ReportEnd(r, n)
    <3>1. UNCHANGED dryRun /\ exec' \in {exec, [exec EXCEPT ![r][n] = "over"]}
      BY <2>3 DEF ReportEnd
    <3>2. OnlyDry(r)
      BY DEF EndInv
    <3>3. CASE exec[r][n] = "dry_run_completed"
      <4>1. dryRun[r] /\ UNCHANGED notified /\ status' \in {status, [status EXCEPT ![r] = "validated"]}
        BY <2>3, <3>2, <3>3 DEF ReportEnd, OnlyDry, Validated, Move
      <4>2. OnlyDry(r)' /\ NotifiedEnd(r)'
        BY <1>0, <3>1, <3>2, <4>1 DEF OnlyDry, NotifiedEnd
      <4> QED
        BY <1>0, <1>c, <3>1, <4>1, <4>2 DEF Untouched
    <3>4. CASE exec[r][n] # "dry_run_completed"
      <4>1. EndedBy(r, exec[r][n]) /\ exec[r][n] \in {"completed", "failed", "cancelled"}
        BY <2>3, <3>4 DEF ReportEnd, Reports
      <4>2. status[r] \in Endable => status'[r] = exec[r][n]
        BY <1>0, <4>1 DEF EndedBy, Move
      <4>3. status[r] \notin Endable => UNCHANGED <<status, notified>>
        BY <2>3, <4>1 DEF ReportEnd, EndedBy, Move
      <4>4. \A q \in Runs \ {r} : status'[q] = status[q] /\ notified'[q] = notified[q]
        BY <1>0, <2>3, <4>1 DEF ReportEnd, EndedBy, Move
      <4>5. status[r] \in Endable /\ ~dryRun[r] => notified[r] = 0
        BY <1>0 DEF EndInv, NotifiedEnd, Endable, Ended, Statuses, Active, Awaiting, Held
      <4>6. \/ notified'[r] = notified[r]
            \/ status[r] \in Endable /\ exec[r][n] \in {"completed", "failed"}
               /\ notified'[r] = notified[r] + 1
        BY <1>0, <2>3 DEF ReportEnd
      <4>7. NotifiedEnd(r)'
        BY <1>0, <3>1, <4>2, <4>3, <4>5, <4>6 DEF EndInv, NotifiedEnd
      <4>8. OnlyDry(r)'
        BY <1>0, <3>1, <3>2, <4>1, <4>2, <4>3 DEF OnlyDry
      <4> QED
        BY <1>0, <1>c, <3>1, <4>4, <4>7, <4>8 DEF Untouched
    <3> QED
      BY <3>3, <3>4
  <2> QED
    BY <1>12, <2>1, <2>2, <2>3 DEF Agent
<1>13. CASE ServerCrash
  BY <1>13, <1>b DEF ServerCrash
<1>14. CASE UNCHANGED vars
  BY <1>14, <1>b DEF vars
<1> QED
  BY <1>1, <1>2, <1>3, <1>4, <1>5, <1>6, <1>7, <1>8, <1>9, <1>10, <1>11, <1>12, <1>13, <1>14
  DEF Next, User, Faults

LEMMA EndInvariant == Spec => [](TypeOK /\ EndInv)
<1>1. Init => EndInv
  BY DEF Init, EndInv, OnlyDry, NotifiedEnd
<1> QED
  BY <1>1, EndStep, HeldInvariant, PTL DEF Spec

(* The end of an execution run is notified at most once, however often     *)
(* reports are replayed and executions duplicated: UpdateOutput's guards.  *)
THEOREM EndsAreNotifiedOnce == Spec => []EndNotifiedOnce
<1>1. TypeOK /\ EndInv => EndNotifiedOnce
  <2> SUFFICES ASSUME EndInv, NEW r \in Runs, ~dryRun[r], notified[r] \in 0 .. 2 PROVE notified[r] <= 1
    BY DEF TypeOK, EndNotifiedOnce
  <2> QED
    BY DEF EndInv, NotifiedEnd
<1> QED
  BY <1>1, EndInvariant, PTL
-----------------------------------------------------------------------------
(* No step but an approval touches the link from a run to the validation   *)
(* run it was created from, makes a run approved, or un-makes a row; and   *)
(* none at all moves a cancelled execution run, except to delete it.       *)
StaysCancelled(r) ==
  status[r] = "cancelled" /\ ~dryRun[r] => status'[r] \in {"cancelled", "deleted"}

Plain(r) ==
  /\ StaysCancelled(r)
  /\ status'[r] = "approved" => status[r] = "approved"
  /\ status'[r] = "none" => status[r] = "none"

PlainStep == UNCHANGED validationRun /\ \A r \in Runs : Plain(r)

LEMMA PlainSteps ==
  ASSUME TypeOK, EndInv, Next PROVE PlainStep \/ \E v, r \in Runs : Approve(v, r)
<1> USE DEF rowVars, PlainStep, Plain, StaysCancelled
<1>0. status \in [Runs -> Statuses \cup Absent]
  BY DEF TypeOK
<1>1. ASSUME NEW r \in Runs, NEW h \in Hosts, Trigger(r, h) PROVE PlainStep
  BY <1>0, <1>1 DEF Trigger, Insert
<1>3. ASSUME NEW r \in Runs, StopCancel(r) \/ EnqueueTask(r) \/ EnqueueFails(r) PROVE PlainStep
  <2>1. UNCHANGED validationRun /\ (CancelByUser(r) \/ UNCHANGED status)
    BY <1>3 DEF StopCancel, EnqueueTask, EnqueueFails
  <2> QED
    BY <1>0, <2>1 DEF CancelByUser, Move
<1>2. ASSUME NEW r \in Runs, RetryValidation(r) \/ DeleteRead(r) \/ Handler(r) PROVE PlainStep
  <2>1. CASE DeleteRow(r)
    BY <1>0, <2>1 DEF DeleteRow
  <2> QED
    BY <1>2, <1>3, <2>1 DEF RetryValidation, DeleteRead, Handler, StopSignal, DeleteTasks
<1>4. ASSUME NEW r \in Runs, SweepStalled(r) \/ SweepUndispatched(r) PROVE PlainStep
  BY <1>0, <1>4 DEF SweepStalled, SweepUndispatched, Awaiting
<1>5. ASSUME NEW r \in Runs, NEW t \in TaskIDs, Worker(r, t) PROVE PlainStep
  <2>1. CASE StartTask(r, t)
    BY <1>0, <2>1 DEF StartTask
  <2>2. CASE RequeueOffline(r, t)
    BY <1>0, <2>2 DEF RequeueOffline, RequeueStatus, Move, Awaiting
  <2>3. CASE RefuseDispatch(r, t)
    BY <1>0, <2>3 DEF RefuseDispatch, Move, Endable, Ended
  <2>4. CASE MarkDispatched(r, t)
    BY <1>0, <2>4 DEF MarkDispatched, Move, Awaiting
  <2> QED
    BY <1>5, <2>1, <2>2, <2>3, <2>4 DEF Worker, EnqueueRetry, CheckRun, SendRun, SendFails
<1>6. ASSUME NEW r \in Runs, NEW t \in TaskIDs, EnqueueRetryFails(r, t) \/ MarkDispatchedFails(r, t)
      PROVE  PlainStep
  BY <1>6 DEF EnqueueRetryFails, MarkDispatchedFails
<1>7. ASSUME NEW h \in Hosts, \/ Connect(h) \/ Disconnect(h) \/ DisconnectRecheck(h)
                             \/ AgentRestart(h) \/ AgentReceive(h)
      PROVE  PlainStep
  BY <1>7 DEF Connect, Disconnect, LoseConnection, DisconnectRecheck, AgentRestart, AgentReceive
<1>8. ASSUME NEW h \in Hosts, MarkDisconnected(h) PROVE PlainStep
  BY <1>0, <1>8 DEF MarkDisconnected
<1>9. ASSUME NEW r \in Runs, NEW n \in Attempts, Agent(r, n) PROVE PlainStep
  <2>1. CASE ReportStarted(r, n)
    BY <1>0, <2>1 DEF ReportStarted, Startable, Awaiting
  <2>2. CASE StartedLost(r, n) \/ FinishExec(r, n)
    BY <2>2 DEF StartedLost, FinishExec
  <2>3. CASE ReportEnd(r, n)
    <3>1. exec[r][n] = "dry_run_completed" => dryRun[r]
      BY DEF EndInv, OnlyDry
    <3> QED
      BY <1>0, <2>3, <3>1 DEF ReportEnd, Validated, EndedBy, Move, Endable, Ended, Reports
  <2> QED
    BY <1>9, <2>1, <2>2, <2>3 DEF Agent
<1>10. CASE ServerCrash
  BY <1>10 DEF ServerCrash
<1> QED
  BY <1>1, <1>2, <1>3, <1>4, <1>5, <1>6, <1>7, <1>8, <1>9, <1>10 DEF Next, User, Faults

(* A cancelled execution run stays cancelled: the deny-lists of the report *)
(* statements and the agent's choice of the dry-run stage for dry runs.    *)
THEOREM CancelledRunsStay == Spec => CancelledIsFinal
<1>1. ASSUME TypeOK, EndInv, [Next]_vars, NEW r \in Runs PROVE StaysCancelled(r)
  <2>1. CASE UNCHANGED vars
    BY <2>1 DEF vars, rowVars, StaysCancelled
  <2>2. ASSUME NEW v \in Runs, NEW q \in Runs, Approve(v, q) PROVE StaysCancelled(r)
    <3>1. PICK s \in {"queued", "scheduled"} : status' = [status EXCEPT ![v] = "approved", ![q] = s]
      BY <2>2 DEF Approve
    <3>2. status[v] \in Approvable /\ status[q] = "none"
      BY <2>2 DEF Approve, Insert
    <3>3. status \in [Runs -> Statuses \cup Absent]
      BY <1>1 DEF TypeOK
    <3> QED
      BY <3>1, <3>2, <3>3 DEF Approvable, StaysCancelled
  <2> QED
    BY <1>1, <2>1, <2>2, PlainSteps DEF PlainStep, Plain
<1>2. TypeOK /\ EndInv /\ [Next]_vars
        => [\A r \in Runs : status[r] = "cancelled" /\ ~dryRun[r]
                              => status'[r] \in {"cancelled", "deleted"}]_vars
  BY <1>1 DEF StaysCancelled
<1> QED
  BY <1>2, EndInvariant, PTL DEF Spec, CancelledIsFinal

(* The approval and the run it authorises are one transaction, so a run    *)
(* marked approved is the validation run of another: ApproveRun's rollback *)
(* and the absence of any other path to "approved".                        *)
NoLinkBefore == \A r \in Runs : status[r] = "none" => validationRun[r] = NoRun

LEMMA ApprovalStep ==
  TypeOK /\ EndInv /\ NoLinkBefore /\ ApprovalHasRun /\ [Next]_vars
    => NoLinkBefore' /\ ApprovalHasRun'
<1> SUFFICES ASSUME TypeOK, EndInv, NoLinkBefore, ApprovalHasRun, [Next]_vars
             PROVE  NoLinkBefore' /\ ApprovalHasRun'
  OBVIOUS
<1> USE DEF NoLinkBefore, ApprovalHasRun
<1>1. CASE UNCHANGED vars
  BY <1>1 DEF vars, rowVars
<1>2. CASE PlainStep
  BY <1>2 DEF PlainStep, Plain
<1>3. ASSUME NEW v \in Runs, NEW r \in Runs, Approve(v, r) PROVE NoLinkBefore' /\ ApprovalHasRun'
  <2>1. PICK s \in {"queued", "scheduled"} : status' = [status EXCEPT ![v] = "approved", ![r] = s]
    BY <1>3 DEF Approve
  <2>2. validationRun' = [validationRun EXCEPT ![r] = v] /\ status[r] = "none"
    BY <1>3 DEF Approve, Insert
  <2>3. status \in [Runs -> Statuses \cup Absent] /\ validationRun \in [Runs -> Runs \cup {NoRun}]
    BY DEF TypeOK
  <2>4. NoLinkBefore'
    BY <2>1, <2>2, <2>3
  <2>5. ASSUME NEW w \in Runs, status'[w] = "approved" PROVE \E q \in Runs : validationRun'[q] = w
    <3>1. CASE w = v
      BY <2>2, <2>3, <3>1
    <3>2. CASE w # v
      <4>1. status[w] = "approved"
        BY <2>1, <2>3, <2>5, <3>2
      <4>2. PICK q \in Runs : validationRun[q] = w
        BY <4>1
      <4>3. q # r
        BY <2>2, <4>2, ConstantsAssumption
      <4> QED
        BY <2>2, <2>3, <4>2, <4>3
    <3> QED
      BY <3>1, <3>2
  <2> QED
    BY <2>4, <2>5
<1> QED
  BY <1>1, <1>2, <1>3, PlainSteps

THEOREM ApprovalsHaveRuns == Spec => []ApprovalHasRun
<1>1. Init => NoLinkBefore /\ ApprovalHasRun
  BY DEF Init, NoLinkBefore, ApprovalHasRun
<1> QED
  BY <1>1, ApprovalStep, EndInvariant, PTL DEF Spec

-----------------------------------------------------------------------------
(* The queue task of a run: a run that waits has somebody who will move it on,
   and without faults an execution run is sent to its agent once.  The invariant
   behind the second says that an execution run has one task at a time, whichever
   of its three ids the task has, and that a task which has not sent the run is
   the task of a run that was not sent. *)
Pending == Awaiting \cup {"scheduled"}

Owned(r) ==
  /\ \A t \in TaskIDs : task[r][t] = "archived" => r \in orphaned
  /\ r \notin orphaned /\ status[r] \in Pending =>
       \/ r \in enqueuing
       \/ deleting[r] = "purged"
       \/ \E t \in TaskIDs : task[r][t] \notin {"none", "archived"}

OneTask(r) ==
  faults = 0 /\ ~dryRun[r] =>
    /\ r \in enqueuing => dispatches[r] = 0 /\ \A t \in TaskIDs : task[r][t] = "none"
    /\ \A t, u \in TaskIDs : task[r][t] # "none" /\ task[r][u] # "none" => t = u
    /\ \A t \in TaskIDs : task[r][t] \notin {"none", "sent"} => dispatches[r] = 0
    /\ dispatches[r] <= 1

TaskInv == \A r \in Runs : Owned(r) /\ OneTask(r)

(* What a step leaves alone in a run that is not its own.                  *)
Aside(r) ==
  /\ dryRun'[r] = dryRun[r] /\ dispatches'[r] = dispatches[r] /\ task'[r] = task[r]
  /\ orphaned \subseteq orphaned' /\ (faults' = 0 => faults = 0)
  /\ r \in enqueuing' => r \in enqueuing
  /\ r \notin orphaned' /\ status'[r] \in Pending =>
       /\ status[r] \in Pending
       /\ r \in enqueuing => r \in enqueuing'
       /\ deleting[r] = "purged" => deleting'[r] = "purged"

LEMMA AsideKeeps ==
  ASSUME TaskInv, NEW r \in Runs, Aside(r)
  PROVE  Owned(r)' /\ OneTask(r)'
BY DEF TaskInv, Owned, OneTask, Aside

(* A worker's step on the task it holds.                                   *)
Works(r, t, s) ==
  /\ task' = [task EXCEPT ![r][t] = s]
  /\ task[r][t] # "none"
  /\ UNCHANGED <<dryRun, enqueuing, deleting>>
  /\ orphaned \subseteq orphaned' /\ (faults' = 0 => faults = 0)

(* ... that is not its sending the run, and leaves the task in a state     *)
(* from which it goes on, or ends it for a run that no longer waits or     *)
(* that is now an orphan.                                                  *)
Carries(r, t, s) ==
  /\ Works(r, t, s)
  /\ UNCHANGED dispatches
  /\ s = "none" \/ task[r][t] # "sent"
  /\ s = "archived" => r \in orphaned'
  /\ status'[r] \in Pending =>
       status[r] \in Pending /\ (s \in {"none", "archived"} => r \in orphaned')

LEMMA CarriesKeeps ==
  ASSUME TypeOK, TaskInv, NEW r \in Runs, NEW t \in TaskIDs, NEW s, Carries(r, t, s)
  PROVE  Owned(r)' /\ OneTask(r)'
<1>1. task \in [Runs -> [TaskIDs -> TaskStates]]
  BY DEF TypeOK
<1>2. task'[r][t] = s /\ \A u \in TaskIDs \ {t} : task'[r][u] = task[r][u]
  BY <1>1 DEF Carries, Works
<1>3. Owned(r)'
  BY <1>2 DEF TaskInv, Owned, Carries, Works
<1>4. OneTask(r)'
  <2>1. OneTask(r)
    BY DEF TaskInv
  <2> QED
    BY <1>2, <2>1 DEF OneTask, Carries, Works
<1> QED
  BY <1>3, <1>4

LEMMA TaskStep == TypeOK /\ HeldIdle /\ EndInv /\ TaskInv /\ [Next]_vars => TaskInv'
<1> SUFFICES ASSUME TypeOK, HeldIdle, EndInv, TaskInv, [Next]_vars PROVE TaskInv'
  OBVIOUS
<1> USE DEF rowVars, httpVars, linkVars, agentVars, auxVars, notRequests, SetTask, SetExec
<1>0. /\ status \in [Runs -> Statuses \cup Absent] /\ dryRun \in [Runs -> BOOLEAN]
      /\ task \in [Runs -> [TaskIDs -> TaskStates]] /\ dispatches \in [Runs -> 0 .. MaxDispatches]
      /\ deleting \in [Runs -> {"no", "read", "purged"}] /\ faults \in Nat
  BY ConstantsAssumption DEF TypeOK
<1>a. ASSUME \A q \in Runs : Aside(q) PROVE TaskInv'
  BY <1>a, AsideKeeps DEF TaskInv
<1>b. ASSUME NEW r \in Runs, \A q \in Runs \ {r} : Aside(q), Owned(r)' /\ OneTask(r)' PROVE TaskInv'
  BY <1>b, AsideKeeps DEF TaskInv
<1>c. ASSUME UNCHANGED <<dryRun, dispatches, task, orphaned, enqueuing, deleting>>,
             faults' = 0 => faults = 0,
             \A q \in Runs : status'[q] \in Pending => status[q] \in Pending
      PROVE  TaskInv'
  BY <1>a, <1>c DEF Aside
<1>1. ASSUME NEW r \in Runs, NEW h \in Hosts, Trigger(r, h) PROVE TaskInv'
  <2>1. Idle(r) /\ status[r] = "none"
    BY <1>1 DEF Trigger, Insert, HeldIdle
  <2>2. PICK s \in {"queued", "scheduled", "pending_validation", "pending_approval"} :
          /\ dryRun' = [dryRun EXCEPT ![r] = (s = "pending_validation")]
          /\ status' = [status EXCEPT ![r] = s]
          /\ enqueuing' = IF s = "pending_approval" THEN enqueuing ELSE enqueuing \cup {r}
    BY <1>1 DEF Trigger, Insert
  <2>3. UNCHANGED <<task, deleting, dispatches, orphaned, faults>>
    BY <1>1 DEF Trigger
  <2>4. Owned(r)'
    BY <1>0, <2>1, <2>2, <2>3 DEF Owned, Idle, Pending, Awaiting
  <2>5. OneTask(r)'
    BY <1>0, <2>1, <2>2, <2>3 DEF OneTask, Idle
  <2>6. \A q \in Runs \ {r} : Aside(q)
    BY <1>0, <2>2, <2>3 DEF Aside
  <2> QED
    BY <1>b, <2>4, <2>5, <2>6
<1>2. ASSUME NEW v \in Runs, NEW r \in Runs, Approve(v, r) PROVE TaskInv'
  <2>1. Idle(r) /\ status[r] = "none"
    BY <1>2 DEF Approve, Insert, HeldIdle
  <2>2. PICK s \in {"queued", "scheduled"} :
          /\ dryRun' = [dryRun EXCEPT ![r] = FALSE]
          /\ status' = [status EXCEPT ![v] = "approved", ![r] = s]
    BY <1>2 DEF Approve, Insert
  <2>3. UNCHANGED <<task, deleting, dispatches, orphaned, faults>> /\ enqueuing' = enqueuing \cup {r}
    BY <1>2 DEF Approve
  <2>4. Owned(r)'
    BY <1>0, <2>1, <2>2, <2>3 DEF Owned, Idle
  <2>5. OneTask(r)'
    BY <1>0, <2>1, <2>2, <2>3 DEF OneTask, Idle
  <2>6. \A q \in Runs \ {r} : Aside(q)
    BY <1>0, <2>2, <2>3 DEF Aside, Pending, Awaiting
  <2> QED
    BY <1>b, <2>4, <2>5, <2>6
<1>3. ASSUME NEW r \in Runs, RetryValidation(r) PROVE TaskInv'
  <2>1. dryRun[r]
    BY <1>3 DEF RetryValidation, EndInv, OnlyDry
  <2>2. UNCHANGED <<status, dryRun, dispatches, orphaned, enqueuing, deleting, faults>>
        /\ task' = [task EXCEPT ![r]["main"] = "pending"]
    BY <1>3 DEF RetryValidation
  <2>3. task'[r]["main"] = "pending" /\ \A t \in TaskIDs : task'[r][t] \in {"pending", task[r][t]}
    BY <1>0, <2>2 DEF TaskIDs
  <2>4. Owned(r)' /\ OneTask(r)'
    BY <2>1, <2>2, <2>3 DEF TaskInv, Owned, OneTask, TaskIDs
  <2>5. \A q \in Runs \ {r} : Aside(q)
    BY <1>0, <2>2 DEF Aside
  <2> QED
    BY <1>b, <2>4, <2>5
<1>4. ASSUME NEW r \in Runs, DeleteRead(r) \/ StopSignal(r) \/ DeleteRow(r) PROVE TaskInv'
  <2>1. CASE StopSignal(r)
    BY <1>c, <2>1 DEF StopSignal
  <2>2. CASE DeleteRead(r)
    BY <1>0, <1>a, <2>2 DEF DeleteRead, Aside
  <2>3. CASE DeleteRow(r)
    BY <1>0, <1>a, <2>3 DEF DeleteRow, Aside, Pending, Awaiting
  <2> QED
    BY <1>4, <2>1, <2>2, <2>3
<1>5. ASSUME NEW r \in Runs,
             StopCancel(r) \/ EnqueueFails(r) \/ (EnqueueTask(r) /\ task[r]["main"] # "none")
      PROVE  TaskInv'
  <2>1. /\ UNCHANGED <<dryRun, dispatches, task, deleting>>
        /\ enqueuing' \in {enqueuing, enqueuing \ {r}} /\ faults' \in {faults, faults + 1}
        /\ \/ CancelByUser(r) /\ UNCHANGED orphaned
           \/ orphaned' = orphaned \cup {r} /\ UNCHANGED status
    BY <1>5 DEF StopCancel, EnqueueTask, Enqueued, EnqueueFails
  <2>2. status'[r] \notin Pending \/ r \in orphaned'
    BY <1>0, <2>1 DEF CancelByUser, Move, Pending, Awaiting, Statuses, Active, Held, Ended, Absent
  <2>3. \A q \in Runs \ {r} : status'[q] = status[q]
    BY <1>0, <2>1 DEF CancelByUser, Move
  <2> QED
    BY <1>0, <1>a, <2>1, <2>2, <2>3 DEF Aside
<1>6. ASSUME NEW r \in Runs, EnqueueTask(r), task[r]["main"] = "none" PROVE TaskInv'
  <2>1. UNCHANGED <<status, dryRun, dispatches, orphaned, deleting, faults>>
        /\ enqueuing' = enqueuing \ {r} /\ r \in enqueuing
        /\ task' = Enqueued(r, "main")
    BY <1>6 DEF EnqueueTask
  <2>2. \A q \in Runs \ {r} : Aside(q)
    BY <1>0, <2>1 DEF Aside, Enqueued
  <2>3. /\ \A t \in TaskIDs \ {"main"} : task'[r][t] = task[r][t]
        /\ task'[r]["main"] = IF task[r]["main"] = "none" THEN "pending" ELSE task[r]["main"]
        /\ "main" \in TaskIDs
    BY <1>0, <2>1 DEF Enqueued, TaskIDs
  <2>4. Owned(r)'
    BY <2>1, <2>3 DEF TaskInv, Owned
  <2>5. OneTask(r)'
    BY <2>1, <2>3 DEF TaskInv, OneTask
  <2> QED
    BY <1>b, <2>2, <2>4, <2>5
<1>7. ASSUME NEW r \in Runs, DeleteTasks(r) PROVE TaskInv'
  <2>1. UNCHANGED <<status, dryRun, dispatches, orphaned, enqueuing, faults>>
        /\ deleting' = [deleting EXCEPT ![r] = "purged"]
    BY <1>7 DEF DeleteTasks
  <2>2. \A t \in TaskIDs : task'[r][t] \in {"none", task[r][t]}
    BY <1>0, <1>7 DEF DeleteTasks
  <2>3. Owned(r)'
    BY <1>0, <2>1, <2>2 DEF TaskInv, Owned
  <2>4. OneTask(r)'
    BY <2>1, <2>2 DEF TaskInv, OneTask
  <2>5. \A q \in Runs \ {r} : Aside(q)
    BY <1>0, <1>7, <2>1 DEF DeleteTasks, Aside
  <2> QED
    BY <1>b, <2>3, <2>4, <2>5
<1>8. ASSUME NEW r \in Runs, SweepStalled(r) \/ SweepUndispatched(r) PROVE TaskInv'
  BY <1>0, <1>8, <1>c DEF SweepStalled, SweepUndispatched, Pending, Awaiting
<1>9. ASSUME NEW r \in Runs, NEW t \in TaskIDs,
             \/ Worker(r, t) \/ EnqueueRetryFails(r, t) \/ MarkDispatchedFails(r, t)
      PROVE  TaskInv'
  <2>a. ASSUME NEW s, Carries(r, t, s), \A q \in Runs \ {r} : status'[q] = status[q] PROVE TaskInv'
    <3>1. \A q \in Runs \ {r} : Aside(q)
      BY <1>0, <2>a DEF Aside, Carries, Works
    <3> QED
      BY <1>b, <2>a, <3>1, CarriesKeeps
  <2>b. task[r][t] \in {"active", "requeued", "checked", "sent"} => status[r] # "scheduled"
    BY DEF HeldIdle, Waiting
  <2>1. CASE StartTask(r, t)
    <3>1. Carries(r, t, "active") \/ Carries(r, t, "none")
      BY <1>0, <2>1 DEF StartTask, Carries, Works, Pending, Awaiting
    <3>2. \A q \in Runs \ {r} : status'[q] = status[q]
      BY <1>0, <2>1 DEF StartTask
    <3> QED
      BY <2>a, <3>1, <3>2
  <2>2. CASE RequeueOffline(r, t)
    <3>1. Carries(r, t, "requeued") \/ Carries(r, t, "none")
      BY <1>0, <2>b, <2>2 DEF RequeueOffline, RequeueStatus, Move, Carries, Works, Pending, Awaiting
    <3>2. \A q \in Runs \ {r} : status'[q] = status[q]
      BY <1>0, <2>2 DEF RequeueOffline, RequeueStatus, Move
    <3> QED
      BY <2>a, <3>1, <3>2
  <2>3. CASE CheckRun(r, t)
    <3>1. Carries(r, t, "checked") \/ Carries(r, t, "none")
      BY <1>0, <2>b, <2>3 DEF CheckRun, Carries, Works, Pending
    <3>2. \A q \in Runs \ {r} : status'[q] = status[q]
      BY <1>0, <2>3 DEF CheckRun
    <3> QED
      BY <2>a, <3>1, <3>2
  <2>4. CASE RefuseDispatch(r, t)
    <3>1. Carries(r, t, "none")
      BY <1>0, <2>4 DEF RefuseDispatch, Move, Carries, Works, Pending, Awaiting, Endable,
         Statuses, Active, Held, Ended
    <3>2. \A q \in Runs \ {r} : status'[q] = status[q]
      BY <1>0, <2>4 DEF RefuseDispatch, Move
    <3> QED
      BY <2>a, <3>1, <3>2
  <2>5. CASE SendFails(r, t)
    <3>1. Carries(r, t, "pending") \/ Carries(r, t, "archived")
      BY <1>0, <2>5 DEF SendFails, Carries, Works
    <3>2. \A q \in Runs \ {r} : status'[q] = status[q]
      BY <1>0, <2>5 DEF SendFails
    <3> QED
      BY <2>a, <3>1, <3>2
  <2>6. CASE MarkDispatched(r, t)
    <3>1. Carries(r, t, "none")
      BY <1>0, <2>b, <2>6 DEF MarkDispatched, Move, Carries, Works, Pending, Awaiting
    <3>2. \A q \in Runs \ {r} : status'[q] = status[q]
      BY <1>0, <2>6 DEF MarkDispatched, Move
    <3> QED
      BY <2>a, <3>1, <3>2
  <2>7. CASE EnqueueRetryFails(r, t) \/ MarkDispatchedFails(r, t)
    <3>1. Carries(r, t, "none")
      BY <1>0, <2>7 DEF EnqueueRetryFails, MarkDispatchedFails, Carries, Works
    <3>2. \A q \in Runs \ {r} : status'[q] = status[q]
      BY <1>0, <2>7 DEF EnqueueRetryFails, MarkDispatchedFails
    <3> QED
      BY <2>a, <3>1, <3>2
  <2>8. CASE SendRun(r, t)
    <3>1. UNCHANGED <<status, dryRun, orphaned, enqueuing, deleting, faults>>
          /\ dispatches' = [dispatches EXCEPT ![r] = @ + 1]
          /\ task' = [task EXCEPT ![r][t] = "sent"] /\ task[r][t] = "checked"
      BY <2>8 DEF SendRun
    <3>2. task'[r][t] = "sent" /\ \A u \in TaskIDs \ {t} : task'[r][u] = task[r][u]
      BY <1>0, <3>1
    <3>3. Owned(r)'
      BY <3>1, <3>2 DEF TaskInv, Owned
    <3>4. OneTask(r)'
      <4>1. OneTask(r) /\ dispatches'[r] = dispatches[r] + 1
        BY <1>0, <3>1 DEF TaskInv
      <4> QED
        BY <3>1, <3>2, <4>1 DEF OneTask
    <3>5. \A q \in Runs \ {r} : Aside(q)
      BY <1>0, <3>1 DEF Aside
    <3> QED
      BY <1>b, <3>3, <3>4, <3>5
  <2>9. CASE EnqueueRetry(r, t)
    <3> DEFINE u == NextRetryID(t)
    <3>1. UNCHANGED <<status, dryRun, dispatches, orphaned, enqueuing, deleting, faults>>
          /\ task[r][t] = "requeued" /\ task' = [Enqueued(r, u) EXCEPT ![r][t] = "none"]
      BY <2>9 DEF EnqueueRetry
    <3>2. u \in TaskIDs /\ u # t
      BY DEF NextRetryID, TaskIDs
    <3> HIDE DEF u
    <3>3. /\ task'[r][t] = "none" /\ \A w \in TaskIDs \ {t, u} : task'[r][w] = task[r][w]
          /\ task'[r][u] = IF task[r][u] = "none" THEN "pending" ELSE task[r][u]
          /\ \A q \in Runs \ {r} : task'[q] = task[q]
      BY <1>0, <3>1, <3>2 DEF Enqueued
    <3>4. Owned(r)'
      BY <3>1, <3>2, <3>3 DEF TaskInv, Owned
    <3>5. OneTask(r)'
      BY <3>1, <3>2, <3>3 DEF TaskInv, OneTask
    <3>6. \A q \in Runs \ {r} : Aside(q)
      BY <3>1, <3>3 DEF Aside
    <3> QED
      BY <1>b, <3>4, <3>5, <3>6
  <2> QED
    BY <1>9, <2>1, <2>2, <2>3, <2>4, <2>5, <2>6, <2>7, <2>8, <2>9 DEF Worker
<1>10. ASSUME NEW h \in Hosts, Connect(h) \/ DisconnectRecheck(h) \/ AgentReceive(h) PROVE TaskInv'
  BY <1>10, <1>c DEF Connect, DisconnectRecheck, AgentReceive
<1>11. ASSUME NEW h \in Hosts, Disconnect(h) \/ AgentRestart(h) PROVE TaskInv'
  BY <1>11, <1>c DEF Disconnect, AgentRestart, LoseConnection
<1>12. ASSUME NEW h \in Hosts, MarkDisconnected(h) PROVE TaskInv'
  BY <1>0, <1>12, <1>c DEF MarkDisconnected, Pending, Awaiting
<1>13. ASSUME NEW r \in Runs, NEW n \in Attempts, Agent(r, n) PROVE TaskInv'
  <2>1. UNCHANGED <<dryRun, dispatches, task, orphaned, enqueuing, deleting, faults>>
    BY <1>13 DEF Agent, ReportStarted, StartedLost, FinishExec, ReportEnd
  <2>2. \A q \in Runs : status'[q] \in Pending => status[q] \in Pending
    BY <1>0, <1>13 DEF Agent, ReportStarted, StartedLost, FinishExec, ReportEnd, Validated, EndedBy,
       Move, Reports, Pending, Awaiting
  <2> QED
    BY <1>c, <2>1, <2>2
<1>14. CASE ServerCrash
  <2>1. UNCHANGED <<status, dryRun, dispatches>> /\ faults' # 0 /\ orphaned \subseteq orphaned'
        /\ enqueuing \subseteq orphaned'
    BY <1>0, <1>14 DEF ServerCrash
  <2>2. ASSUME NEW q \in Runs PROVE Owned(q)' /\ OneTask(q)'
    <3>1. deleting[q] = "purged" => q \in orphaned'
      BY <1>14 DEF ServerCrash
    <3>2. \A t \in TaskIDs :
            task'[q][t] = IF task[q][t] \in {"none", "archived"} THEN task[q][t] ELSE "pending"
      BY <1>14 DEF ServerCrash
    <3> QED
      BY <2>1, <3>1, <3>2 DEF TaskInv, Owned, OneTask
  <2> QED
    BY <2>2 DEF TaskInv
<1>15. CASE UNCHANGED vars
  BY <1>15, <1>c DEF vars
<1> QED
  BY <1>1, <1>2, <1>3, <1>4, <1>5, <1>6, <1>7, <1>8, <1>9, <1>10, <1>11, <1>12, <1>13, <1>14, <1>15
  DEF Next, User, Handler, Faults

LEMMA TaskInvariant == Spec => []TaskInv
<1>1. Init => TaskInv
  BY DEF Init, TaskInv, Owned, OneTask, Pending, Awaiting
<1> QED
  BY <1>1, TaskStep, HeldInvariant, EndInvariant, PTL DEF Spec

(* A run that waits for its window or for dispatch is never forgotten: the *)
(* handlers' INSERT before the enqueue, the task ids of the offline retry  *)
(* and the two halves of a deletion leave it an owner.                     *)
THEOREM WaitingRunsHaveOwners == Spec => []AwaitingHasOwner
<1>1. TaskInv => AwaitingHasOwner
  BY DEF TaskInv, Owned, Pending, AwaitingHasOwner
<1> QED
  BY <1>1, TaskInvariant, PTL

(* Without faults an execution run is sent to its agent at most once, for  *)
(* all the offline retries and resends of asynq.                           *)
THEOREM ExecutionsAreSentOnce == Spec => []SentAtMostOnce
<1>1. TaskInv => SentAtMostOnce
  BY DEF TaskInv, OneTask, SentAtMostOnce
<1> QED
  BY <1>1, TaskInvariant, PTL
=============================================================================
