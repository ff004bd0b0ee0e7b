----------------------------- MODULE PatchRuns -----------------------------
(***************************************************************************)
(* The life of a patch run: the patch_runs table and its SQL guards, the   *)
(* HTTP handlers that create, approve, retry, stop and delete runs, the    *)
(* asynq run_patch worker that dispatches them, the WebSocket to the       *)
(* agent, the agent's executions and the reports they post back, the       *)
(* timeout sweeper and the agent-disconnect callback.                      *)
(*                                                                         *)
(* A handler that makes several calls another actor can get between is     *)
(* several actions; a handler whose reads are repeated by the guard of its *)
(* one SQL statement is one action.  A database transaction is one step.   *)
(***************************************************************************)
EXTENDS Naturals, Sequences, FiniteSets

CONSTANTS
  Runs,          \* patch run ids (UUIDs: an id is used once)
  Hosts,         \* hosts, each with one agent
  NoRun,         \* the NULL of validation_run_id
  MaxDispatches, \* bound: run_patch messages sent for one run
  MaxRequests,   \* bound: retry, stop and delete requests
  MaxDrops,      \* bound: lost agent connections and agent restarts
  MaxFaults      \* bound: server crashes and queue errors

ASSUME ConstantsAssumption ==
  /\ NoRun \notin Runs
  /\ MaxDispatches \in Nat /\ MaxRequests \in Nat /\ MaxDrops \in Nat /\ MaxFaults \in Nat

VARIABLES
  status,        \* patch_runs.status; "none" before the INSERT, "deleted" after the DELETE
  hostOf,        \* patch_runs.host_id
  dryRun,        \* patch_runs.dry_run
  validationRun, \* patch_runs.validation_run_id
  task,          \* the asynq task of each run and task id, and how far its worker got
  enqueuing,     \* runs whose handler committed the row and has not enqueued the task
  deleting,      \* DeleteRun requests in progress, by run
  stopping,      \* StopRun requests that cancelled the row and have not signalled the agent
  connected,     \* agentregistry: the agent has a live WebSocket
  wire,          \* messages written to the WebSocket and not yet handled by the agent
  dropped,       \* onDisconnect callbacks that have not re-checked the registry
  marking,       \* onDisconnect callbacks past the re-check, before the UPDATE
  dispatches,    \* number of run_patch messages sent for a run
  exec,          \* the agent's executions of a run, one per run_patch message
  notified,      \* times the end of a run was notified (capped at 2)
  orphaned,      \* runs whose task was lost to a fault
  requests, drops, faults  \* counters of the three bounds

rowVars   == <<status, hostOf, dryRun, validationRun>>
httpVars  == <<enqueuing, deleting, stopping>>
linkVars  == <<connected, wire, dropped, marking>>
agentVars == <<dispatches, exec>>
auxVars   == <<notified, orphaned, requests, drops, faults>>
vars == <<rowVars, task, httpVars, linkVars, agentVars, auxVars>>

-----------------------------------------------------------------------------
(* Statuses.  Active is the predicate of the partial unique index           *)
(* patch_runs_one_active_per_host.                                          *)
Awaiting   == {"queued", "pending_validation"}
Active     == Awaiting \cup {"running"}
Held       == {"scheduled", "pending_approval"}
Approvable == {"validated", "pending_validation", "pending_approval"}
Deletable  == {"queued", "pending_validation", "pending_approval",
               "validated", "approved", "scheduled"}
\* Mutant: a started report brings a timed-out run back.
StartableLate == Awaiting \cup {"running", "agent_disconnected", "timed_out"}

Startable == Awaiting \cup {"running", "agent_disconnected"}

\* The deny-list of UpdatePatchRunCompleted, ...Failed and ...Cancelled.
Ended      == {"cancelled", "completed", "failed", "validated"}
Statuses   == Active \cup Held \cup Ended \cup
              {"approved", "timed_out", "agent_disconnected"}
Absent     == {"none", "deleted"}

TaskIDs    == {"main", "retry", "retry2"}
\* pending: in the queue.  active: activateIfScheduled passed.  requeued: Requeue done, retry
\* task not enqueued.  checked: GetByID passed, nothing sent.  sent: SendMessage returned.
\* archived: asynq gave up on it, and keeps its id.
TaskStates == {"none", "pending", "active", "requeued", "checked", "sent", "archived"}

Attempts   == 1 .. MaxDispatches
Reports    == {"completed", "failed", "cancelled", "dry_run_completed"}
\* spawned: goroutine started, "started" not posted.  stopped: interrupted by patch_run_stop.
\* a member of Reports: that terminal report is being posted.
ExecStates == {"none", "spawned", "executing", "stopped", "over"} \cup Reports

RunMsg(r, n) == [kind |-> "run_patch", run |-> r, attempt |-> n]
StopMsg(r)   == [kind |-> "patch_run_stop", run |-> r, attempt |-> 0]
Messages == [kind : {"run_patch", "patch_run_stop"}, run : Runs, attempt : Nat]

-----------------------------------------------------------------------------
\* Mutant: an index that predates the pending_validation status.
HostFreeOldIndex(h, but) ==
  \A q \in Runs \ but : status[q] \in {"queued", "running"} => hostOf[q] # h

(* The unique index: no row but those of `but` is active on host h. *)
HostFree(h, but) ==
  \A q \in Runs \ but : status[q] \in Active => hostOf[q] # h

(* UPDATE patch_runs SET status = s WHERE id = r AND status IN from. *)
Move(r, from, s) == status' = IF status[r] \in from THEN [status EXCEPT ![r] = s] ELSE status

\* Mutants: deny-lists that forget a status.
EndableCompleted == Statuses \ {"cancelled", "failed", "validated"}
EndableCancelled == Statuses \ {"completed", "failed", "validated"}

\* A row whose run-ending report the guard lets through (the row exists, and is not Ended).
Endable == Statuses \ Ended

\* Mutant: one retry id, the one the running retry task may hold.
OneRetryID(t) == "retry"

\* NextRunPatchRetryTaskID: an id the running task does not hold.
NextRetryID(t) == IF t = "retry" THEN "retry2" ELSE "retry"

Enqueued(r, t) == IF task[r][t] = "none" THEN [task EXCEPT ![r][t] = "pending"] ELSE task

Init ==
  /\ status = [r \in Runs |-> "none"]
  /\ hostOf \in [Runs -> Hosts]
  /\ dryRun = [r \in Runs |-> FALSE]
  /\ validationRun = [r \in Runs |-> NoRun]
  /\ task = [r \in Runs |-> [t \in TaskIDs |-> "none"]]
  /\ enqueuing = {} /\ stopping = {}
  /\ deleting = [r \in Runs |-> "no"]
  /\ connected = [h \in Hosts |-> FALSE]
  /\ wire = [h \in Hosts |-> <<>>]
  /\ dropped = [h \in Hosts |-> 0]
  /\ marking = [h \in Hosts |-> 0]
  /\ dispatches = [r \in Runs |-> 0]
  /\ exec = [r \in Runs |-> [n \in Attempts |-> "none"]]
  /\ notified = [r \in Runs |-> 0]
  /\ orphaned = {}
  /\ requests = 0 /\ drops = 0 /\ faults = 0

-----------------------------------------------------------------------------
(* HTTP handlers. *)

(* CreateRun: one INSERT, refused by the unique index when the new row is  *)
(* active and the host already has an active row.                          *)
Insert(r, h, s, dry, but) ==
  /\ status[r] = "none"
  /\ s \in Active => HostFree(h, but \cup {r})
  /\ hostOf' = [hostOf EXCEPT ![r] = h]
  /\ dryRun' = [dryRun EXCEPT ![r] = dry]

(* Trigger, and a patch policy's recurrence: the row is committed first    *)
(* and the task enqueued after it; "submit for approval" enqueues nothing. *)
Trigger(r, h) ==
  /\ \E s \in {"queued", "scheduled", "pending_validation", "pending_approval"} :
       /\ Insert(r, h, s, s = "pending_validation", {})
       /\ status' = [status EXCEPT ![r] = s]
       /\ enqueuing' = IF s = "pending_approval" THEN enqueuing ELSE enqueuing \cup {r}
  /\ UNCHANGED <<validationRun, task, deleting, stopping, linkVars, agentVars, auxVars>>

\* Mutant: the approval is committed by itself, and the INSERT fails after it.
ApproveNoRollback(v, r) ==
  /\ status[v] \in Approvable /\ status[r] = "none"
  /\ status' = [status EXCEPT ![v] = "approved"]
  /\ UNCHANGED <<hostOf, dryRun, validationRun, task, httpVars, linkVars, agentVars, auxVars>>

(* ApproveRun: MarkValidationApproved and the INSERT of the execution run  *)
(* in one transaction.  The row count of the first is the concurrency      *)
(* control; a refused INSERT rolls the approval back.                      *)
Approve(v, r) ==
  /\ status[v] \in Approvable
  /\ \E s \in {"queued", "scheduled"} :
       /\ Insert(r, hostOf[v], s, FALSE, {v})
       /\ status' = [status EXCEPT ![v] = "approved", ![r] = s]
  /\ validationRun' = [validationRun EXCEPT ![r] = v]
  /\ enqueuing' = enqueuing \cup {r}
  /\ UNCHANGED <<task, deleting, stopping, linkVars, agentVars, auxVars>>

(* MarkPatchRunCancelledByUser, with its own deny-list. *)
CancelByUser(r) == Move(r, Statuses \ (Ended \cup {"timed_out"}), "cancelled")

(* The handler's Enqueue after its INSERT.  When RetryValidation got in    *)
(* first with the same task id, Trigger takes the conflict for an error    *)
(* and cancels the run.                                                    *)
EnqueueTask(r) ==
  /\ r \in enqueuing
  /\ enqueuing' = enqueuing \ {r}
  /\ task' = Enqueued(r, "main")
  /\ IF task[r]["main"] = "none" THEN UNCHANGED status ELSE CancelByUser(r)
  /\ UNCHANGED <<hostOf, dryRun, validationRun, deleting, stopping, linkVars, agentVars, auxVars>>

(* Enqueue failed: cancelOrphanedRun, whose own error is only logged. *)
EnqueueFails(r) ==
  /\ r \in enqueuing /\ faults < MaxFaults
  /\ enqueuing' = enqueuing \ {r}
  /\ \/ CancelByUser(r) /\ UNCHANGED orphaned
     \/ orphaned' = orphaned \cup {r} /\ UNCHANGED status
  /\ faults' = faults + 1
  /\ UNCHANGED <<hostOf, dryRun, validationRun, task, deleting, stopping, linkVars, agentVars,
                 notified, requests, drops>>

Request == requests < MaxRequests /\ requests' = requests + 1

notRequests == <<notified, orphaned, drops, faults>>

(* RetryValidation enqueues the dry run again under its first task id; a   *)
(* task with that id still known to asynq is a conflict.  (An Enqueue that *)
(* comes after the run moved on adds a task its worker drops unchanged.)   *)
RetryValidation(r) ==
  /\ Request
  /\ status[r] = "pending_validation"
  /\ task[r]["main"] = "none"
  /\ task' = [task EXCEPT ![r]["main"] = "pending"]
  /\ UNCHANGED <<rowVars, httpVars, linkVars, agentVars, notRequests>>

(* StopRun: cancel the row first, then signal the agent if it is there.    *)
(* The handler also refuses a run it read as agent_disconnected, but that  *)
(* run was running before, so a request that read it then still gets here. *)
StopCancel(r) ==
  /\ Request
  /\ status[r] \in Statuses \ (Ended \cup {"timed_out"})
  /\ r \notin stopping
  /\ CancelByUser(r)
  /\ stopping' = stopping \cup {r}
  /\ UNCHANGED <<hostOf, dryRun, validationRun, task, enqueuing, deleting, linkVars, agentVars,
                 notRequests>>

StopSignal(r) ==
  /\ r \in stopping
  /\ stopping' = stopping \ {r}
  /\ wire' = IF connected[hostOf[r]]
             THEN [wire EXCEPT ![hostOf[r]] = Append(@, StopMsg(r))]
             ELSE wire
  /\ UNCHANGED <<rowVars, task, enqueuing, deleting, connected, dropped, marking, agentVars, auxVars>>

(* DeleteRun: read the status, delete the tasks that no worker holds, then *)
(* DELETE by id with no status guard.                                      *)
DeleteRead(r) ==
  /\ Request
  /\ status[r] \in Deletable /\ deleting[r] = "no"
  /\ deleting' = [deleting EXCEPT ![r] = "read"]
  /\ UNCHANGED <<rowVars, task, enqueuing, stopping, linkVars, agentVars, notRequests>>

DeleteTasks(r) ==
  /\ deleting[r] = "read"
  /\ deleting' = [deleting EXCEPT ![r] = "purged"]
  /\ task' = [task EXCEPT ![r] = [t \in TaskIDs |->
                 IF task[r][t] \in {"pending", "archived"} THEN "none" ELSE task[r][t]]]
  /\ UNCHANGED <<rowVars, enqueuing, stopping, linkVars, agentVars, auxVars>>

DeleteRow(r) ==
  /\ deleting[r] = "purged"
  /\ deleting' = [deleting EXCEPT ![r] = "no"]
  /\ status' = [status EXCEPT ![r] = "deleted"]
  /\ UNCHANGED <<hostOf, dryRun, validationRun, task, enqueuing, stopping, linkVars, agentVars, auxVars>>

-----------------------------------------------------------------------------
(* RunPatchHandler.ProcessTask, step by step. *)
SetTask(r, t, s) == task' = [task EXCEPT ![r][t] = s]

(* activateIfScheduled: a scheduled run becomes queued, or is skipped when *)
(* its host is busy; any other run proceeds.                               *)
StartTask(r, t) ==
  /\ task[r][t] = "pending"
  /\ IF status[r] # "scheduled"
     THEN SetTask(r, t, "active") /\ UNCHANGED status
     ELSE IF HostFree(hostOf[r], {r})
          THEN SetTask(r, t, "active") /\ status' = [status EXCEPT ![r] = "queued"]
          ELSE SetTask(r, t, "none") /\ status' = [status EXCEPT ![r] = "cancelled"]
  /\ UNCHANGED <<hostOf, dryRun, validationRun, httpVars, linkVars, agentVars, auxVars>>

\* Mutant: the requeued run waits as if for its window.
RequeueScheduled(r) == "scheduled"

RequeueStatus(r) == IF dryRun[r] THEN "pending_validation" ELSE "queued"

(* The agent is offline: Requeue the run if it still awaits dispatch. *)
RequeueOffline(r, t) ==
  /\ task[r][t] = "active"
  /\ ~connected[hostOf[r]]
  /\ Move(r, Awaiting, RequeueStatus(r))
  /\ SetTask(r, t, IF status[r] \in Awaiting THEN "requeued" ELSE "none")
  /\ UNCHANGED <<hostOf, dryRun, validationRun, httpVars, linkVars, agentVars, auxVars>>

\* Mutant: the retry is enqueued and the running task is retried by asynq too.
EnqueueRetryAndKeep(r, t) ==
  /\ task[r][t] = "requeued"
  /\ task' = [Enqueued(r, NextRetryID(t)) EXCEPT ![r][t] = "pending"]
  /\ UNCHANGED <<rowVars, httpVars, linkVars, agentVars, auxVars>>

(* Enqueue the retry under the id the running task does not hold; a        *)
(* conflict means that a retry is already pending.                         *)
EnqueueRetry(r, t) ==
  /\ task[r][t] = "requeued"
  /\ task' = [Enqueued(r, NextRetryID(t)) EXCEPT ![r][t] = "none"]
  /\ UNCHANGED <<rowVars, httpVars, linkVars, agentVars, auxVars>>

(* The retry could not be enqueued: the worker warns and returns. *)
EnqueueRetryFails(r, t) ==
  /\ task[r][t] = "requeued" /\ faults < MaxFaults
  /\ SetTask(r, t, "none")
  /\ orphaned' = orphaned \cup {r}
  /\ faults' = faults + 1
  /\ UNCHANGED <<rowVars, httpVars, linkVars, agentVars, notified, requests, drops>>

(* The agent is connected: GetByID, and drop the task unless the run still *)
(* awaits dispatch.                                                        *)
CheckRun(r, t) ==
  /\ task[r][t] = "active"
  /\ connected[hostOf[r]]
  /\ SetTask(r, t, IF status[r] \in Awaiting THEN "checked" ELSE "none")
  /\ UNCHANGED <<rowVars, httpVars, linkVars, agentVars, auxVars>>

(* FailRun: selected patching on pacman, or no Windows targets left. *)
RefuseDispatch(r, t) ==
  /\ task[r][t] = "checked"
  /\ Move(r, Endable, "failed")
  /\ SetTask(r, t, "none")
  /\ UNCHANGED <<hostOf, dryRun, validationRun, httpVars, linkVars, agentVars, auxVars>>

(* registry.SendMessage(run_patch): the message reaches the socket. *)
SendRun(r, t) ==
  /\ task[r][t] = "checked"
  /\ connected[hostOf[r]] /\ dispatches[r] < MaxDispatches
  /\ dispatches' = [dispatches EXCEPT ![r] = @ + 1]
  /\ wire' = [wire EXCEPT ![hostOf[r]] = Append(@, RunMsg(r, dispatches[r] + 1))]
  /\ SetTask(r, t, "sent")
  /\ UNCHANGED <<rowVars, httpVars, connected, dropped, marking, exec, auxVars>>

(* SendMessage failed: asynq puts the task back, or archives it after its  *)
(* last retry.                                                             *)
SendFails(r, t) ==
  /\ task[r][t] = "checked" /\ ~connected[hostOf[r]]
  /\ \/ SetTask(r, t, "pending") /\ UNCHANGED <<orphaned, faults>>
     \/ /\ faults < MaxFaults
        /\ SetTask(r, t, "archived")
        /\ orphaned' = orphaned \cup {r}
        /\ faults' = faults + 1
  /\ UNCHANGED <<rowVars, httpVars, linkVars, agentVars, notified, requests, drops>>

(* MarkDispatched. *)
MarkDispatched(r, t) ==
  /\ task[r][t] = "sent"
  /\ Move(r, Awaiting, "running")
  /\ SetTask(r, t, "none")
  /\ UNCHANGED <<hostOf, dryRun, validationRun, httpVars, linkVars, agentVars, auxVars>>

(* MarkDispatched failed: the worker only warns, and the task is done. *)
MarkDispatchedFails(r, t) ==
  /\ task[r][t] = "sent" /\ faults < MaxFaults
  /\ SetTask(r, t, "none")
  /\ orphaned' = orphaned \cup {r}
  /\ faults' = faults + 1
  /\ UNCHANGED <<rowVars, httpVars, linkVars, agentVars, notified, requests, drops>>

Worker(r, t) ==
  \/ StartTask(r, t) \/ RequeueOffline(r, t) \/ EnqueueRetry(r, t) \/ CheckRun(r, t)
  \/ RefuseDispatch(r, t) \/ SendRun(r, t) \/ SendFails(r, t) \/ MarkDispatched(r, t)

-----------------------------------------------------------------------------
(* The sweeper. *)
\* Mutant: only runs whose agent said that they started are swept.
SweepStarted(r) ==
  /\ status[r] = "running" /\ \E n \in Attempts : exec[r][n] = "executing"
  /\ status' = [status EXCEPT ![r] = "timed_out"]
  /\ UNCHANGED <<hostOf, dryRun, validationRun, task, httpVars, linkVars, agentVars, auxVars>>

SweepStalled(r) ==
  /\ status[r] = "running"
  /\ status' = [status EXCEPT ![r] = "timed_out"]
  /\ UNCHANGED <<hostOf, dryRun, validationRun, task, httpVars, linkVars, agentVars, auxVars>>

SweepUndispatched(r) ==
  /\ status[r] \in Awaiting \cup {"scheduled"}
  /\ status' = [status EXCEPT ![r] = "timed_out"]
  /\ UNCHANGED <<hostOf, dryRun, validationRun, task, httpVars, linkVars, agentVars, auxVars>>

-----------------------------------------------------------------------------
(* The connection and the disconnect callback. *)
Connect(h) ==
  /\ ~connected[h]
  /\ connected' = [connected EXCEPT ![h] = TRUE]
  /\ UNCHANGED <<rowVars, task, httpVars, wire, dropped, marking, agentVars, auxVars>>

LoseConnection(h) ==
  /\ connected' = [connected EXCEPT ![h] = FALSE]
  /\ wire' = [wire EXCEPT ![h] = <<>>]
  /\ dropped' = IF connected[h] THEN [dropped EXCEPT ![h] = @ + 1] ELSE dropped
  /\ drops < MaxDrops
  /\ drops' = drops + 1
  /\ UNCHANGED <<rowVars, task, httpVars, marking, dispatches, notified, orphaned, requests, faults>>

Disconnect(h) == connected[h] /\ LoseConnection(h) /\ UNCHANGED exec

(* The agent process dies with its executions. *)
AgentRestart(h) ==
  /\ LoseConnection(h)
  /\ exec' = [r \in Runs |-> [n \in Attempts |->
        IF hostOf[r] = h /\ exec[r][n] # "none" THEN "over" ELSE exec[r][n]]]

(* onDisconnect re-checks the registry before it touches the runs. *)
DisconnectRecheck(h) ==
  /\ dropped[h] > 0
  /\ dropped' = [dropped EXCEPT ![h] = @ - 1]
  /\ marking' = IF connected[h] THEN marking ELSE [marking EXCEPT ![h] = @ + 1]
  /\ UNCHANGED <<rowVars, task, httpVars, connected, wire, agentVars, auxVars>>

(* MarkRunsAgentDisconnected. *)
MarkDisconnected(h) ==
  /\ marking[h] > 0
  /\ marking' = [marking EXCEPT ![h] = @ - 1]
  /\ status' = [r \in Runs |-> IF hostOf[r] = h /\ status[r] = "running"
                               THEN "agent_disconnected" ELSE status[r]]
  /\ UNCHANGED <<hostOf, dryRun, validationRun, task, httpVars, connected, wire, dropped, agentVars, auxVars>>

-----------------------------------------------------------------------------
(* The agent. *)
SetExec(r, n, s) == exec' = [exec EXCEPT ![r][n] = s]

(* The service loop takes the next message: run_patch spawns an execution, *)
(* patch_run_stop interrupts a registered one (one not yet registered is   *)
(* missed), and a busy loop drops the message.                             *)
AgentReceive(h) ==
  /\ wire[h] # <<>>
  /\ wire' = [wire EXCEPT ![h] = Tail(@)]
  /\ LET m == Head(wire[h]) IN
       \/ m.kind = "run_patch" /\ SetExec(m.run, m.attempt, "spawned")
       \/ /\ m.kind = "patch_run_stop"
          /\ \E n \in Attempts : /\ exec[m.run][n] \in {"spawned", "executing"}
                                 /\ SetExec(m.run, n, "stopped")
       \/ UNCHANGED exec
  /\ UNCHANGED <<rowVars, task, httpVars, connected, dropped, marking, dispatches, auxVars>>

(* POST stage=started.  The unique index refuses it when another run took  *)
(* the host meanwhile, and the handler ignores that.  The client retries,  *)
(* so a report may arrive twice, or never.                                 *)
ReportStarted(r, n) ==
  /\ exec[r][n] = "spawned"
  /\ status' = IF status[r] \in Startable /\ HostFree(hostOf[r], {r})
               THEN [status EXCEPT ![r] = "running"] ELSE status
  /\ exec' \in {exec, [exec EXCEPT ![r][n] = "executing"]}
  /\ UNCHANGED <<hostOf, dryRun, validationRun, task, httpVars, linkVars, dispatches, auxVars>>

StartedLost(r, n) ==
  /\ exec[r][n] = "spawned"
  /\ SetExec(r, n, "executing")
  /\ UNCHANGED <<rowVars, task, httpVars, linkVars, dispatches, auxVars>>

(* The execution is over: choose its terminal stage.  A run refused before *)
(* it began (agent updating, unsupported package manager) fails; "over"    *)
(* stands for a report that is lost on every retry of the client.          *)
FinishExec(r, n) ==
  /\ \/ exec[r][n] = "stopped" /\ SetExec(r, n, "cancelled")
     \/ exec[r][n] \in {"spawned", "executing"} /\ SetExec(r, n, "failed")
     \/ /\ exec[r][n] = "executing"
        /\ SetExec(r, n, IF dryRun[r] THEN "dry_run_completed" ELSE "completed")
     \/ exec[r][n] \in {"stopped", "spawned", "executing"} /\ SetExec(r, n, "over")
  /\ UNCHANGED <<rowVars, task, httpVars, linkVars, dispatches, auxVars>>

\* Mutant: the agent's stage is stored as the status.
ValidatedAsStage(r) == Move(r, Statuses, "dry_run_completed")

(* UpdateOutput for the terminal stages.  UpdatePatchRunValidated has no   *)
(* status guard.                                                           *)
Validated(r) == Move(r, Statuses, "validated")
EndedBy(r, stage) == Move(r, Endable, stage)

(* POST of a terminal stage; notifiesRunEnd only for a report that moved   *)
(* the row.                                                                *)
ReportEnd(r, n) ==
  /\ exec[r][n] \in Reports
  /\ IF exec[r][n] = "dry_run_completed" THEN Validated(r) ELSE EndedBy(r, exec[r][n])
  /\ notified' = IF exec[r][n] \in {"completed", "failed"} /\ status[r] \in Endable /\ notified[r] < 2
                 THEN [notified EXCEPT ![r] = @ + 1] ELSE notified
  /\ exec' \in {exec, [exec EXCEPT ![r][n] = "over"]}
  /\ UNCHANGED <<hostOf, dryRun, validationRun, task, httpVars, linkVars, dispatches,
                 orphaned, requests, drops, faults>>

Agent(r, n) == ReportStarted(r, n) \/ StartedLost(r, n) \/ FinishExec(r, n)
               \/ ReportEnd(r, n)

-----------------------------------------------------------------------------
(* The server process restarts: requests and callbacks die, tasks held by  *)
(* a worker return to the queue, every agent loses its connection.         *)
ServerCrash ==
  /\ faults < MaxFaults
  /\ faults' = faults + 1
  /\ orphaned' = orphaned \cup enqueuing \cup {r \in Runs : deleting[r] = "purged"}
  /\ enqueuing' = {} /\ stopping' = {}
  /\ deleting' = [r \in Runs |-> "no"]
  /\ task' = [r \in Runs |-> [t \in TaskIDs |->
                IF task[r][t] \in {"none", "archived"} THEN task[r][t] ELSE "pending"]]
  /\ connected' = [h \in Hosts |-> FALSE]
  /\ wire' = [h \in Hosts |-> <<>>]
  /\ dropped' = [h \in Hosts |-> 0]
  /\ marking' = [h \in Hosts |-> 0]
  /\ UNCHANGED <<rowVars, agentVars, notified, requests, drops>>

User == \E r \in Runs :
  \/ \E h \in Hosts : Trigger(r, h)
  \/ \E v \in Runs : Approve(v, r)
  \/ RetryValidation(r) \/ StopCancel(r) \/ DeleteRead(r)

Handler(r) == EnqueueTask(r) \/ StopSignal(r) \/ DeleteTasks(r) \/ DeleteRow(r)

Faults == \/ ServerCrash
          \/ \E r \in Runs : \/ EnqueueFails(r)
                          \/ \E t \in TaskIDs : EnqueueRetryFails(r, t) \/ MarkDispatchedFails(r, t)
          \/ \E h \in Hosts : Disconnect(h) \/ AgentRestart(h)

Next ==
  \/ User \/ Faults
  \/ \E r \in Runs : \/ Handler(r) \/ SweepStalled(r) \/ SweepUndispatched(r)
                     \/ \E t \in TaskIDs : Worker(r, t)
                     \/ \E n \in Attempts : Agent(r, n)
  \/ \E h \in Hosts : Connect(h) \/ DisconnectRecheck(h) \/ MarkDisconnected(h) \/ AgentReceive(h)

Spec == Init /\ [][Next]_vars

-----------------------------------------------------------------------------
(* The state has its type. *)
TypeOK ==
  /\ status \in [Runs -> Statuses \cup Absent]
  /\ hostOf \in [Runs -> Hosts]
  /\ dryRun \in [Runs -> BOOLEAN]
  /\ validationRun \in [Runs -> Runs \cup {NoRun}]
  /\ task \in [Runs -> [TaskIDs -> TaskStates]]
  /\ enqueuing \subseteq Runs /\ stopping \subseteq Runs
  /\ deleting \in [Runs -> {"no", "read", "purged"}]
  /\ connected \in [Hosts -> BOOLEAN]
  /\ wire \in [Hosts -> Seq(Messages)]
  /\ dropped \in [Hosts -> Nat] /\ marking \in [Hosts -> Nat]
  /\ dispatches \in [Runs -> 0 .. MaxDispatches]
  /\ exec \in [Runs -> [Attempts -> ExecStates]]
  /\ notified \in [Runs -> 0 .. 2]
  /\ orphaned \subseteq Runs
  /\ requests \in 0 .. MaxRequests /\ drops \in 0 .. MaxDrops /\ faults \in 0 .. MaxFaults

(* A host has at most one active patch run, through every path that makes  *)
(* a run active: trigger, approval, the arrival of a scheduled window, and *)
(* the "started" report that revives an agent_disconnected run.            *)
OneActivePerHost ==
  \A p, q \in Runs :
    status[p] \in Active /\ status[q] \in Active /\ hostOf[p] = hostOf[q] => p = q

(* A run that waits for its window or for an approver has not reached the  *)
(* agent, and no worker is past the check that leads to sending it: what   *)
(* cancels or expires such a run takes effect before anything executes.    *)
HeldRunsUntouched ==
  \A r \in Runs : status[r] \in Held =>
    /\ dispatches[r] = 0
    /\ \A t \in TaskIDs : task[r][t] \notin {"checked", "sent"}
    /\ \A n \in Attempts : exec[r][n] = "none"

(* An approval is never consumed without the execution run it authorises:  *)
(* the refused INSERT rolls MarkValidationApproved back.                   *)
ApprovalHasRun ==
  \A v \in Runs : status[v] = "approved" => \E r \in Runs : validationRun[r] = v

(* A run that waits for its window or for dispatch is never forgotten: it  *)
(* has a task in the queue or in a worker, or a request that will enqueue  *)
(* or delete it, whatever task ids collide; only a fault loses the task.   *)
AwaitingHasOwner ==
  \A r \in Runs \ orphaned : status[r] \in Awaiting \cup {"scheduled"} =>
    \/ r \in enqueuing
    \/ deleting[r] = "purged"
    \/ \E t \in TaskIDs : task[r][t] \notin {"none", "archived"}

(* Unless the server crashes, the offline retries and the resends of asynq *)
(* never send one execution run to its agent twice.                        *)
SentAtMostOnce ==
  \A r \in Runs : faults = 0 /\ ~dryRun[r] => dispatches[r] <= 1

(* The end of an execution run is notified at most once, however often     *)
(* reports are replayed and executions duplicated.                         *)
EndNotifiedOnce ==
  \A r \in Runs : ~dryRun[r] => notified[r] <= 1

(* A cancelled execution run stays cancelled: no late report of the agent, *)
(* no worker, sweeper or disconnect brings it back (it may be deleted).    *)
CancelledIsFinal ==
  [][\A r \in Runs : status[r] = "cancelled" /\ ~dryRun[r]
                        => status'[r] \in {"cancelled", "deleted"}]_vars

(* "The loser must be told so rather than going on to create a second      *)
(* patch run": a validation run is turned into one execution run at most.  *)
ApprovedAtMostOnce ==
  \A p, q \in Runs :
    validationRun[p] # NoRun /\ validationRun[p] = validationRun[q] => p = q

(* "Deletes a patch run that is queued, pending_validation, validated,     *)
(* approved, or scheduled": never one that the agent is running.           *)
RunningNeverDeleted ==
  [][\A r \in Runs : status[r] = "running" => status'[r] # "deleted"]_vars

-----------------------------------------------------------------------------
(* Fairness: asynq keeps running workers and the periodic sweeper, HTTP    *)
(* handlers return, an agent that lost its connection dials again, its     *)
(* service loop and its executions go on.  Users and faults owe nothing.   *)
Fairness ==
  /\ \A r \in Runs : /\ WF_vars(EnqueueTask(r)) /\ WF_vars(StopSignal(r))
                     /\ WF_vars(DeleteTasks(r)) /\ WF_vars(DeleteRow(r))
                     /\ WF_vars(SweepStalled(r)) /\ WF_vars(SweepUndispatched(r))
                     /\ \A t \in TaskIDs : WF_vars(Worker(r, t))
                     /\ \A n \in Attempts : WF_vars(Agent(r, n))
  /\ \A h \in Hosts : /\ WF_vars(Connect(h)) /\ WF_vars(AgentReceive(h))
                      /\ WF_vars(DisconnectRecheck(h)) /\ WF_vars(MarkDisconnected(h))

FairSpec == Spec /\ Fairness

(* The host's slot is always released: an active run leaves the active     *)
(* states, even when its task, its messages or the agent are lost.         *)
SlotReleased ==
  \A r \in Runs : status[r] \in Active ~> status[r] \notin Active
=============================================================================
