# A TLA+ model of PatchMon

PatchMon is a server (Go, PostgreSQL, Redis/asynq) that inventories and patches
hosts through an agent on each of them. An agent keeps one WebSocket to the
server for commands and posts its reports over HTTP. This directory holds TLA+
modules for the parts of that system where correctness depends on the order of
things, the TLC configurations that check them on small instances, and proofs
for the results that should hold at every size.

Paths below are relative to `src/`; `internal/` is
`server-source-code/internal/`, `commands/` is
`agent-source-code/cmd/patchmon-agent/commands/`.

## The system

| Component | State | Operations | Talks to |
|---|---|---|---|
| Patch run rows (`internal/store/patching.go`, `sqlc/queries/patching.sql`) | `patch_runs`: status, host, dry_run, validation_run_id; partial unique index "one active run per host" | INSERT, and one guarded UPDATE per transition | every other part of patching |
| Patching handlers (`internal/handler/patching.go`, `patching_stream.go`) | none of their own | trigger, approve, retry validation, stop, delete, agent output | rows, asynq, registry, stream hub, notifications |
| `run_patch` worker (`internal/queue/jobs.go`) | asynq tasks, one main id and two alternating retry ids per run | activate, requeue when offline, dispatch, mark dispatched | rows, registry |
| Patch run cleanup (`internal/queue/workers.go`) | none | sweep stalled and undispatched runs | rows |
| Agent registry (`internal/agentregistry`, `handler/agent_ws.go`) | per pod: connections, metadata, routes; in Redis: presence keys, events, per-pod channels | register, tear down, send, forward | agents, other pods |
| Disconnect callback (`internal/handler/agent_disconnect.go`) | none | host_down alert, mark runs agent_disconnected | registry, rows, alerts |
| Agent executor (`commands/serve.go`) | running patch runs and their cancel functions | execute, stop, report stages | server, over WebSocket and HTTP |
| Agent update guard (`commands/patch_update_guard.go`, `version_update.go`) | counter of active runs, three flags | begin and end a run, update or defer | executor, reports |
| Output of a run (`streamSink` in `commands/serve.go`, `internal/patchstream`, `handler/patching_stream.go`, the run's page) | the sink's buffers, subscribers per run | write, flush, post; subscribe, publish, unsubscribe; poll | rows, browsers |
| Patch policy schedule (`internal/queue/patch_policy_schedule_worker.go`) | next occurrence of each policy | claim an occurrence, start runs | rows, asynq |
| Host down alerts (`internal/alerts/host_down.go`, `internal/notifications`, `queue/host_status_monitor.go`, `queue/notification_worker.go`) | active alerts; in Redis: pending marker, recovery record, dedup keys | raise on disconnect or sweep, delay, cancel, deliver, resolve | registry, asynq |
| Inventory reports (`commands/serve.go`, `report.go`; `store/report.go`, `handler/install.go`, `integrations.go`) | on the agent: tick, last Windows updates; on the server: packages, repositories, Docker rows, one hash per section, the flag of the report after a run | check in, compare hashes, partial and full reports, Docker upload | executor, guard of Windows Update |

`PROJECT.json` lists these and the parts that are not modelled, which are
described under "Not modelled" below.

### What is hard here

* A run's row is changed by HTTP handlers, asynq workers, a periodic sweeper,
  a disconnect callback and the agent's reports. None of them holds a lock
  across its steps: the guards of the SQL statements are the concurrency
  control. A guard that is missing or too wide shows only when two of them
  interleave.
* The row, the queue and the agent are three stores with no common
  transaction. A row is committed before its task is enqueued; a message is
  sent before the row is marked; tasks are redelivered after a crash.
* The agent's connection drops and comes back, its service loop drops
  messages, its HTTP client retries reports, it restarts, and it replaces its
  own binary and exits.
* Schedulers, sweeps and callbacks look at the same host or policy at the same
  time, each with its own reading of the clock and of the database, and agree
  through a compare-and-swap, a script in Redis or a unique key.
* The server believes a hash about rows that other requests wrote. Nothing
  tells it, or the agent, when the two have come apart.

What makes the parts correct: a host never patches twice at once; what the user
held, cancelled or has not approved is not executed; an approval is used once
and not for nothing; a waiting run is not forgotten and an active one always
lets go of its host; an agent's own update never kills a run, and is never
forgotten either; an output is whole and its viewers learn of its end; an
occurrence of a schedule has one fate; a host that is down is reported, once,
and one that is back is not; the server's copy of a host comes to be the host.

## Modules

### PatchRuns

The life of a patch run, end to end.

| Variables | Code |
|---|---|
| `status`, `hostOf`, `dryRun`, `validationRun` | columns of `patch_runs`; `none` and `deleted` stand for no row |
| `task[r][id]` | the asynq task under each of the run's three ids, and how far the worker that holds it got |
| `enqueuing`, `deleting`, `stopping` | requests between two of their steps |
| `connected`, `wire`, `dropped`, `marking` | the registry's view of the agent, messages in flight, disconnect callbacks before and after their re-check |
| `exec[r][n]`, `dispatches` | the agent's n-th execution of a run, one per message |
| `notified`, `orphaned`, `requests`, `drops`, `faults` | history and bounds |

A handler is split where another actor can get between two of its calls:

* Trigger is `Trigger` (the INSERT) then `EnqueueTask` or `EnqueueFails`;
  ApproveRun is `Approve` (one transaction) then the same. `EnqueueTask` cancels
  the row when the task id is taken (a retried validation got in first);
  `EnqueueFails` cancels it too, and when the cancellation fails as well, which
  the code only logs, the run is `orphaned`.
* StopRun is `StopCancel` (the row first) then `StopSignal`.
* DeleteRun is `DeleteRead`, `DeleteTasks`, `DeleteRow`.
* `RunPatchHandler.ProcessTask` is `StartTask` (activateIfScheduled), then
  either `RequeueOffline` and `EnqueueRetry`, or `CheckRun`, then
  `RefuseDispatch`, `SendRun` or `SendFails`, then `MarkDispatched`.
* `onDisconnect` is `DisconnectRecheck` then `MarkDisconnected`.
* On the agent, `AgentReceive` starts or interrupts an execution (or drops the
  message), and `ReportStarted`, `FinishExec`, `ReportEnd` post its stages. A
  report may be delivered again (the action leaves the execution where it is)
  or be lost.
* `ServerCrash` ends every request and callback and returns the tasks of its
  workers to the queue; `AgentRestart` ends the executions.

Where a read is repeated by the guard of the one statement that follows it, the
two are one action: activateIfScheduled's read and UPDATE, the offline branch's
read and RequeuePatchRun, StopRun's read and cancel, ApproveRun's read and
transaction.

Abstractions. Time: a scheduled window, a stall or an expiry may come at any
step. Progress output is left out, since it changes no status. Windows items
matter only in whether any are left (`RefuseDispatch`). Reads that fail before
anything is sent are asynq retries, which `StartTask` allows. A crash between
enqueuing the retry and acknowledging the running task is not modelled. If two
executions of a run exist, a stop interrupts either. One host is enough:
nothing but the index compares two runs, and it compares runs of one host.

### AgentUpdateGuard

The agent's mutex-protected guard: `activePatchRuns`, `agentUpdateDeferred`,
`agentUpdating` and `updateInFlight` are the code's variables, and `pc` says
where each goroutine is. The service loop `Loop` begins patch runs one at a
time and runs update commands inline, so it begins none while it updates; the
goroutines of `Spawned` are patch runs and reports, which update too. A section
under `patchUpdateMu` is one action, the compare-and-swap of `updateAgent`
another. `overlapped` records that an update was started while another attempt
was on. A successful update exits the process: `UpdateExits` resets the state
to that of a new process.

### AgentRegistry

The registries of several server pods on one Redis, for one agent (entries of
different agents share nothing).

| Variables | Code |
|---|---|
| `conns`, `listed`, `podMap` | the pod's maps: `conns`, `meta.Connected`, `podMap` |
| `presence` | the `pod` field of `agent:meta:{api_id}` in Redis |
| `inbox[p]` | what pod p's subscription has received: events of all pods, p included, and messages forwarded to p, in the order of one Redis connection |
| `setting`, `announcing` | setPresence goroutines before the HSet and before the publish |
| `st`, `at`, `link` | the ServeWS call of each connection, its pod, and the connection the agent uses |
| `phase` | a pod's start: EnableDistributed reads the snapshot, then subscribes |
| `visited`, `sends`, `faults`, `raced` | history and bounds |

A section under `r.mu` is one action, and so is one call of Redis. ServeWS is
`Register`, `SetConnection`, `UnregisterConn`, `DelPresence` and
`PublishDisconnect`; setPresence is `SetPresence` and `PublishConnect`, in any
order with everything else. A connection is established in `Register` (the
upgrade just before it is merged with it), and the agent opens one only when it
has lost the one before, which its pod may not have noticed. Any call of Redis
may fail (`Fault`), with the early return the code has. `SendRemote` merges the
two lookups of SendMessage, which are two read sections. Left out: a snapshot
whose read fails, the labels (Secure, Scope), timestamps, and the write mutex.

PatchRuns sees this module through one flag, `connected[h]`: the view of the pod
that dispatches.

### PatchRunLife and PatchRunsRefinement

PatchRunLife is what the subsystem promises of its runs, with three variables:
the phase of each run, its host, and the slot of each host. A run moves in one
direction from `planned` or `waiting` through `running` to `final` or
`expired`; it takes a slot only when the slot is free (an approval takes it over
from the run it ends) and gives it up with the step that leaves the active
phases. Only a run whose agent was lost (`lost`) comes back.

PatchRunsRefinement maps PatchRuns to it: the phase is read from the status
(`PhaseOf`), and the slot of a host is the set of its runs in the partial unique
index. `ImplementsLife` is checked by TLC in `patch_run_requests` and proved in
PatchRunsLifeProofs.

### PatchStream

The output of one dispatched run on its way to a browser.

| Variables | Code |
|---|---|
| `full`, `pending`, `pc` | `streamSink`, and where the run's goroutine and the copy goroutines of its command are |
| `post[c]` | the HTTP request a process waits for, and how far its handler is; `Ghost`'s is one whose client has given up |
| `status`, `output` | of the row |
| `subs`, `chan`, `closed` | `Hub.subs`, the buffered channel of each subscriber |
| `serving`, `gone`, `shown` | `ServeRunStream` per viewer, the client's side of its socket, the status the page shows |
| `notified`, `panicked`, `cut`, `breaks` | history and bound |

`Flush` takes the buffer under the lock and posts after it. The handler of a
report is `Commit` (UpdateOutput), `Snapshot` (Publish's copy of the list),
`SendEvent` per subscriber, `Answer` (the notification). A send to a channel
that `unsubscribe` has closed panics; the recovery middleware answers and the
rest of the handler does not happen. A viewer is `ReadRun`, `Subscribe`,
`Forward`, `Unlist`, `CloseChannel`. A piece of output is its number; what the
pieces say, the size limit of the buffer and the flush timer are left out: a
flush may follow any write. The user's stop, the sweep and the disconnect
callback are `ServerEnds`; a run that is `agent_disconnected` may still be
stopped, or revived by a started report that comes late.

Each of these faults counts against `MaxBreaks`: a connection breaks under a
request (`Break`; the client posts again or gives up, and the handler goes on,
or stops with its context in `GhostStops`), UpdateOutput fails before or after
the row is committed (`Refuse`), the server restarts (`ServerCrash`).
`EndNoticed` says that a completion is never notified twice, and that it is
notified unless one of these faults took the very report that ended the run
(`cut`: the end is committed, the notification is lost, and the replay is no end
any more) or a Publish panicked. `EndAlwaysNoticed`, without these exceptions,
is what the admin guide says, and is refuted.
`OutputOnlyGrows` is what a reader of the page relies on between two events:
what the row holds is extended, or replaced by the whole output, never cut.

### HostAlerts

The host_down alert of one host with one internal destination. Time is counted
in flips of the connection, so that the comparisons of timestamps in the Redis
scripts have all the outcomes they can have. The callbacks (`Recheck`,
`ReadAlerts`, `Greet`, `ResolveOnConnect`, `AnnounceConnect`), the sweep
(`SweepRead` to `SweepCancel`), `EmitEvent` (`ReadGeneration`, `ClaimPending`,
`TryDedup`, `Enqueue`) and the delivery worker (`CheckNotice`, `MatchAlert`,
`CreateAlert`) interleave; each script in Redis is one action. `delayed` is the
configuration with or without a delay. `kept` is the one with a positive
`auto_resolve_after_days`: the sweep then leaves an active alert of a connected
host (`SweepResolve`), and the daily `AutoResolve` clears it, at any step, since
the age of an alert is not counted. `lifted` records that it did so while the
host was away. Values of zero or less, which keep the sweep from resolving and
give the cleanup nothing to do, and the deletion of old alerts by the retention
cleanup are not modelled. The sweep reads its `now` and the
registry in one step; the host has connected once, so the rule for hosts
without a WebSocket does not apply.

### OutageNotice and HostAlertsRefinement

OutageNotice is the promise of a delayed alert without markers, records and
queues: an outage is `quiet`, `announced` while its notice is on its way, and
`settled` when the notice has passed the worker's check or was lost; it is
announced once, and only a recovery makes room for another announcement.
HostAlertsRefinement reads it off HostAlerts. An outage is on while the pending
marker stands and the recovery on record is not newer than it (`Marked`), and
announced while an emitter past its claim or a queued notice that no recovery
cancels exists (`LiveEmitters`, `LiveNotices`). Without a delay there are no
markers, and the abstract outage stays quiet. `ImplementsNotice` is checked in
`host_alerts` and proved in HostAlertsProofs.

### PatchSchedule

The recurring schedule of one policy: `ListDue` with one reading of the clock,
`Claim` (the compare-and-swap of ClaimPatchPolicyRecurrence), `TargetHosts`,
`CreateRun` and `Enqueue` per host, `Cancel` when the queue refuses. A Cancel
that fails in its turn is only logged; its host joins `orphans`, as does the host
of a run whose worker crashed. Dispatches overlap, an administrator saves the policy, hosts come and go, other runs hold
them. An expression fires once every `Period` units, at a phase; the history
variables `fired` and `skipped` record the fate of each occurrence.

### HostReports

The inventory of one host and the server's copy of it.

| Variables | Code |
|---|---|
| `host` | what is installed, per part; 0 is an empty list |
| `seen` | `lastWindowsUpdates` of the agent |
| `tick`, `job` | the service loop's count of ticks, and what the loop and the other goroutine (startup report, Docker refresh, patch run) are delivering |
| `rows`, `hashes` | `host_packages`, `host_repositories`, `docker_*`; `packages_hash`, `repos_hash`, `docker_hash` |
| `awaiting` | `hosts.awaiting_post_patch_report_run_id` is set |
| `late`, `lateFlag` | requests whose client has given up, not yet processed |

A tick is `Tick` (collect), `Ping` (computeRequestFull, and what the loop makes
of the answer), then `SendUpdate` and `ReceiveDockerData`, `UpdateDockerHash`. A
forced tick goes straight to a full report. The report transaction is one
action; the Docker upload and its hash are two, as in the code. A partial report
that fails is sent as a full one. A patch run holds Windows Update
(`BeginRun` to `ReleaseUpdates`), during which a collection uses the last list
or leaves the Windows updates out; `PostFinal` and `SetAwaitingPostPatchReport`
are the two halves of the server's handler, between which the agent's retry
may be answered (`FinalRetried`).

The host is a Windows host, which has every case; a Linux host has none of the
searches that fail. Interfaces and hostname are delivered as packages are and
have no variables. A hash is the list it is computed from: collisions are
not modelled. A collection of Docker succeeds, so the cached Docker hash of the
loop is the hash of the tick's collection. Turning Docker on and off, servers without the
hash gate, and the metrics that travel along are left out.

### The proof modules

PatchRunsProofs and, on top of it, PatchRunsLifeProofs hold the theorems on
patch runs; PatchStreamProofs, HostAlertsProofs, PatchScheduleProofs,
HostReportsProofs, AgentUpdateGuardProofs and AgentRegistryProofs those on their
modules. The type invariants of PatchRuns and AgentUpdateGuard are checked by a
run; those of AgentRegistry, HostReports, PatchStream (`StreamTyped`),
HostAlerts (`AlertsTyped`) and PatchSchedule (`ScheduleTyped`) are proved, and
their runs check what types do not say. The MC modules are what TLC runs;
MCPatchRuns adds the symmetry of run ids, MCAgentRegistry that of pods and
connections.

Definitions whose comment begins with "Mutant" are plausible bugs in the code
they sit next to. They are used by no specification; replacing the code's
definition by its mutant must make TLC refute the property named for it in
`PROJECT.json`.

## Runs

| Run | Instance | Shows |
|---|---|---|
| `patch_run_requests` | 2 runs, 1 host, 1 dispatch each, 1 request, 1 lost connection | `OneActivePerHost`, `HeldRunsUntouched`, `CancelledIsFinal`, `ImplementsLife` |
| `patch_run_faults` | 2 runs, 1 host, 2 dispatches each, 1 fault | `TypeOK`, `ApprovalHasRun`, `AwaitingHasOwner`, `EndNotifiedOnce` |
| `patch_run_live` | 1 run, 2 dispatches, 1 request, 1 lost connection, 1 fault, fairness | `SentAtMostOnce`, `SlotReleased` |
| `patch_run_double_approval` | 3 runs | refutes `ApprovedAtMostOnce` |
| `agent_update_guard` | loop and 3 goroutines, fairness | all properties of the guard, and no deadlock |
| `agent_registry` | 2 pods, 2 connections, 1 fault, 1 message | `HeldIsListed`, `ListedHasRoute`, `PodsAgree`, `LiveSocketKept` |
| `agent_registry_stale_teardown` | the same, no fault | refutes `LiveAgentIsListed` |
| `patch_stream` | 1 viewer, 2 copy goroutines, 2 writes, a buffer of 1 event, 1 fault (broken connection, failed update or server crash), fairness | `EachPieceOnce`, `FinalOutputWhole`, `EndNoticed`, `DoneMeansOver`, `OutputOnlyGrows`, `EndReachesPages` |
| `host_alerts` | 3 flips, 3 notices, 1 lost notice, with and without a delay and `auto_resolve_after_days`, fairness | `FlapIsQuiet`, `OneNoticePerOutage`, `ImplementsNotice`, `LateAlertIsCleared`, `OutageIsReported` |
| `patch_schedule` | 2 workers, 2 hosts, clock to 3, period 2, 1 save, 1 fault, fairness | `OccurrenceHasOneFate`, `NoOrphanedRun`, `LastRunIsKept`, `DueIsSettled` |
| `host_reports` | 1 change, 1 patch run, 1 fault, every second report forced, fairness | `HashTellsRows`, `InventoryConverges`, `GateSettles`, `AwaitingClears` |
| `host_reports_repos` | 1 change, no run, no fault, fairness | refutes `EmptyReposConverge` |

Some properties are defined in a module and in no run, because the code does
not keep them: `RunningNeverDeleted` (PatchRuns: DeleteRun's DELETE has no
status guard, and the worker may be past its status check), `NoPatchDuringUpdate`
(AgentUpdateGuard: an attempt that is skipped clears `agentUpdating` for the one
in progress; `LoneUpdateExcludesRuns` is what holds), `NoForwardLoop`
(AgentRegistry: two ghost routes that name each other), `NoGhostListed`
(AgentRegistry: a connect that is announced after its own disconnect leaves the
agent listed on the other pods), `PublishReturns`
(PatchStream: a send to a channel closed after the snapshot), `EndAlwaysNoticed`
(PatchStream: a crash between the commit of the end and its notification) and
`OutageAlwaysReported` (HostAlerts: a delayed notice that is lost leaves its
marker, which refuses every later claim of that outage). TLC refutes each of
them when it is put in the configuration of its module.

Why the bounds suffice. Two runs are what an index conflict takes, and what an
approval takes (the validation and its execution). A double approval needs a
third. Two dispatches of one run are what a duplicated execution takes. One
request of a kind races the workers and reports, which are not bounded; one
lost connection or one fault puts the system in each of its broken states, from
which everything else goes on. Three goroutines and the loop give two updates
that overlap and a run besides. Two connections are a teardown and a reconnect,
two pods a publisher and a subscriber; each connection announces itself twice,
so that a pod has up to four announcements on their way. Two copy goroutines
flush one buffer, and a buffer of one event is full at once; viewers share
nothing, so one is enough. Three flips are an outage, a return and another
outage, so that a late step of the first meets the second. `MaxBacklog` bounds
only how many times a dedup bucket ends while notices pile up. Two workers
overlap, a third finds the same as the second; a clock of 3 and a period of 2
give two occurrences, with a `Window` of 0 the first of which is missed as
soon as the clock passes it. Forcing every second report stands for every 24th:
what counts is that a forced report comes after an unforced one, and again.

Deadlock is checked in `agent_update_guard` only. In the others, when the
bounds are used up and every run, connection, notice or request has ended, there
is nothing left to do.

Fairness. asynq restarts tasks and runs the sweeper on a cron, so worker steps
and sweeps are weakly fair; HTTP handlers return; `wsLoop` dials for ever; the
agent's service loop and executions go on. No fairness is assumed of users, of
faults or of lost connections. The sweeper's threshold is time without
activity; the model's sweep is enabled as long as the run is running, so weak
fairness says that a run which stays running is one day stale. `SlotReleased`
therefore means that no order of events leaves a row active with nothing left
that would end it. In AgentUpdateGuard, the ends of runs and the steps of an
update attempt are fair, their starts are not. `DeferredIsApplied` has the
premise that runs stop beginning: if runs keep overlapping, the counter need
never reach zero and the deferred update waits, by design. In PatchStream only
the page's polling and the handler that serves it are fair: `EndReachesPages`
does not rely on the agent or on an event. In HostAlerts the callbacks, the
sweep, the worker, the daily cleanup, the passing of the threshold and of a
dedup bucket are fair, the connection is not. In PatchSchedule a dispatch comes every minute. In
HostReports the ticker, the goroutines' deliveries and a patch run's steps are
fair; requests and collections fail at will, up to the bound.

## What the runs found

* `ApprovedAtMostOnce`. `UpdatePatchRunValidated` (`patching.sql:10`) is the
  one report without a status guard. The agent posts `dry_run_completed`, the
  answer is lost, the run is approved, and the client's retry sets the approved
  run back to `validated`; it can then be approved again. The guard of
  `MarkValidationApproved` is there to prevent a second execution run.
* `LiveAgentIsListed`. A teardown deletes the presence record and publishes its
  disconnect even if the agent has connected elsewhere, or to the same pod, in
  between. Pods that hear the disconnect after the connect list the live agent
  as down until it connects again. The same happens without Redis being slow
  when the old pod notices the dead socket late (up to the read deadline) and
  the agent is on another pod by then: the identity check is per pod. What does
  hold is that the pod with the socket keeps it and lists it
  (`LiveSocketKept`, `HeldIsListed`), and that pods agree when no connection
  came or went while an earlier change was on its way (`PodsAgree`).
* `EmptyReposConverge`. A full report with no repositories keeps the rows and
  stores the hash of the empty list. From then on the hash agrees with the host,
  so no partial report names the section, and forced reports, being full, keep
  the rows again: the deleted repositories stay until another one is added. The
  comment in `store/report.go` (597-608) describes this outcome as the one to
  avoid, and avoids it for reports that name their sections, which the agent's
  own full reports do not. `InventoryConverges` excepts this case and holds for every other.

## Proofs

For every set of runs and hosts and every bound (PatchRunsProofs,
PatchRunsLifeProofs):

* `TypeCorrect`: `TypeOK` is inductive; one step of the proof per action.
* `OneActive`: `OneActivePerHost`. Every step is classified by `ActiveStep`:
  either no run becomes active, or one does and no other active run has its
  host. The invariant then needs nothing but types.
* `HeldRuns`: `HeldRunsUntouched`. Not inductive alone: the strengthening is
  `WireCounted` (a run_patch message on the wire is of a run that was
  dispatched) and `HeldIdle` (a run that does not exist, or is held, has no
  task past the start, no execution and no notification). `WireCounted` is what
  excludes that a held run's execution starts from a message already in flight.
* `Implements`: `Spec => ImplementsLife`. PhaseOf is tabulated once
  (`PhaseTable`), `MoveMaps` turns a change of one row into the change of its
  phase and its host's slot, and a lemma per kind of action (`TriggerStep`,
  `ApproveStep`, `ActiveMove`, `LeavingStep`, `MarkStep`) shows the one step of
  PatchRunLife it is; every other action leaves phases and slots alone. It needs `OneActivePerHost` (a
  slot holds one run) and `DeletingExists` (what is being deleted exists).
* `EndsAreNotifiedOnce` and `CancelledRunsStay`:
  `EndNotifiedOnce` and the action property `CancelledIsFinal`. The invariant is
  `OnlyDry` (only a dry run is ever pending validation, and only a dry run's
  execution ends in `dry_run_completed`) and `NotifiedEnd` (an execution run
  whose end was notified has a status that no report moves). `OnlyDry` is what
  keeps the one unguarded statement, `UpdatePatchRunValidated`, away from
  execution runs.
* `ApprovalsHaveRuns`: `ApprovalHasRun`, with the fact that an id without a row
  has no validation run.
* `WaitingRunsHaveOwners` and `ExecutionsAreSentOnce`:
  `AwaitingHasOwner` and `SentAtMostOnce`. The invariant is `Owned` (only an
  orphan has an archived task) and `OneTask`: without faults an execution run
  has at most one task, whichever of the three task ids it has, none while its
  handler has yet to enqueue, and a task that has not sent the run is the task of a run
  that was never sent. It rests on `OnlyDry` (a retried validation is a dry
  run) and on `HeldIdle` (a worker past the start does not hold a scheduled
  run).

For every set of dispatches and hosts, every period, window and bound
(PatchScheduleProofs):

* `OccurrencesHaveOneFate`, the action property `LastRunNeverGoesBack` and
  `CreatedRunsAreServed`: `OccurrenceHasOneFate`, `LastRunIsKept`,
  `NoOrphanedRun`. A new `recurrence_next_run_at` lies after the clock of the
  dispatch that writes it, or after the clock for a save, so it only grows while the policy has a
  schedule (`CopyIsFresh`), and every claimed, fired or skipped occurrence lies
  before it (`SettledIsPast`). A dispatch that claims therefore holds an
  occurrence no other has (`ClaimIsExclusive`), and the copy of
  `recurrence_last_run_at` it may write back is still the row's.
* `RecurrenceIsTheFirst`: what `NextRecurrence` computes is the first instant
  after its argument at which the expression fires. MCPatchSchedule assumes this
  of one period and TLC evaluates it there; the proof, from three lemmas on
  remainders, is for every period, phase and instant.
* `ScheduleIsTyped`. The type of the dispatches needs `HolderHasHost`: one that
  is between CreateRun and Enqueue or Cancel still has a host in its list, which
  is the host of its run.

For every set of viewers and copy goroutines, every buffer and bound
(PatchStreamProofs):

* `StreamIsTyped`; from `DoneInv`, `DoneIsAfterTheRow`: `DoneMeansOver`. A done
  event, in a channel or about to be sent, belongs to a report whose row was
  committed, and a row that a report has ended stays ended (`DoneIsCommitted`,
  `DoneEvents`).
* `PiecesAreKept`: `EachPieceOnce`. The order of the reports comes first
  (`Order`): the copies end before their command (`CopiesFirst`), a process
  posts what its place in the code lets it post (`OwnReports`), pieces are
  numbered as they are written (`Numbered`), and no request outlives its client
  while there is no fault (`NoGhost`). Then `EachPlaced`: the row, the buffer and the
  requests in flight hold different pieces (`PiecesApart`) and together all of
  them (`PiecesKept`). `EachPieceOnce` counts the requests that carry a piece;
  the count is one because the holders are a singleton or none.
* `CompletedOutputIsWhole`: `FinalOutputWhole`. A completed run was completed by
  the final report (`Finished`).
* `CompletionIsNoticed`: `EndNoticed`, for any number of faults. A report ends
  the run only with its commit (`EndsCommitted`). At most one completion is
  under way or notified, and none while the run is not completed (`OneNotice`);
  and once it is completed, one is, unless a fault took it (`NoticeDue`).
* `OutputGrows`: the action property `OutputOnlyGrows`. Only `Commit` writes the
  output; `Order` says which report it may be.

For every number of flips, notices and losses (HostAlertsProofs):

* `AlertsAreTyped`.
* `NoticesAreOnePerOutage`: `OneNoticePerOutage`. The sweep's emitter is used by
  one sweep at a time (`SweepAlone`). The invariant is `OneLive`: every emitter
  and notice that no recovery cancels bears the time of the pending marker
  (`OfPending`), and there is one of them (`Alone`). A claim is granted only over
  a marker that a recovery has outlived, which cancels all that bear its time
  (`ClaimIsAlone`).
* `FlapsAreQuiet`: the action property `FlapIsQuiet`. Every time an emitter
  holds, and the marker, lies before the connect that is being greeted
  (`InThePast`, `GreetedHere`), so the recovery that OnConnect records is on
  record for good (`Recorded`).
* `AlertsImplementNotice`: `AlertsSpec => ImplementsNotice`. A step is a step of
  OutageNotice or a stutter, by kind: `NoticeShrinks` (nothing new is on its way),
  `NoticeRecovers`, `NoticeClaimed`, `NoticeEmitted`, `NoticeDelivered`. A claim is
  an announcement because it is refused while the marker stands; a passing
  notice settles the outage because, by `OneLive`, it is the only one.

For every finite set of goroutines (AgentUpdateGuardProofs):

* `GuardInvariant`: the inductive invariant is the type, `OneReplacer`,
  `CountIsExact`, `DeferredHasRun`, and `LoneUpdateExcludesRuns` strengthened
  by `LoneAttempt` (without an overlap there is at most one attempt).
* From it: `GuardTyped`, `ReplacesAlone`, `CountsExactly`,
  `DeferredUpdateKept`, `LoneUpdateSafe` and the action property
  `UpdatesStartAlone`.

For every set of pods and connections and every bound (AgentRegistryProofs):

* `RegistryTyped`: `TypeOK` is inductive.
* `LocalViewHolds`: `LocalView`, which is `HeldIsListed`, `SelfRouteIsReal` (a
  route to the own pod is backed by a socket or by one about to be stored),
  `ListedIsRouted` and `SocketsOnUp` (a stored connection is served by this
  pod). A pod's memory is changed by events only on behalf of other pods, so
  its own part needs nothing about the inboxes beyond their types.
* From it: `HolderLists`, `ListedCanBeSentTo` and the action property
  `LiveSocketSafe`.
* `PodsComeToAgree`: `PodsAgree`. Here the inboxes matter. While no change
  overlaps another and nothing fails, some pod h is the agent's home
  (`Tracked`): the other pods have neither socket nor announcement (`OnlyOn`),
  the events under way are h's, its disconnect after its connects (`EventsOf`,
  `Ordered`), and h holds the agent (`Holds`), has lost it and not said so
  (`Leaves`), or has said so (`HasLeft`), with, for every other pod, what it knows
  or has yet to hear. A new connection elsewhere makes another pod the home, which it may
  because everything was delivered before (`RegisterHome`).

For every interval between forced reports and every bound (HostReportsProofs):

* `ReportsAreTyped`, `HashesTellRows`: `ReportsTyped`, with `OmittedAreEmpty` (a
  payload that omits the Windows updates carries none), and `HashTellsRows`. The
  inductive invariant is in three parts, for the host, the agent and the server
  (`HostOK`, `AgentOK`, `ServerOK`); what it adds is `CarriesNone`: a payload
  that omits the Windows updates carries none, in either goroutine and in every
  late request. That a hash tells the rows then follows because ProcessReport
  writes rows and hashes in one transaction.

The assumptions of these modules are `ConstantsAssumption`, `ThreadsAssumption`,
`RegistryAssumption`, `ReportsAssumption`, `ScheduleAssumption`,
`StreamAssumption`, `NoPostAssumption` (the value that stands for "no request" is
not a request) and `AlertsAssumption`; TLC evaluates all of them.

Every inductive invariant was checked by TLC, on the instance of its module's
run, before it was proved.

Only model-checked are the liveness properties: `SlotReleased`,
`DeferredIsApplied`, `EndReachesPages`, `LateAlertIsCleared`, `OutageIsReported`,
`DueIsSettled`, `InventoryConverges`, `GateSettles` and `AwaitingClears`. They rest
on fairness, hence on ENABLED, which this prover does not handle. Every
invariant and action property of a passing run is a theorem.

## Plan

What remains, in order:

1. An abstract ledger of occurrences for PatchSchedule (an occurrence is open,
   claimed, then fired or skipped per host) and the refinement that relates the
   compare-and-swap to it.
2. PatchStream's `status` and its reports as a piece of the life in PatchRunLife,
   so that the end of an output and the end of a run are one fact.
3. Compliance scans: dispatch, the scan slot of a host and cancellation, which
   resemble a patch run with a simpler life.

## Not modelled

The modules cover the parts whose correctness depends on the order of steps of
several actors. They are a small part of the repository's lines: most of its
111,000 lines of Go are CRUD handlers, generated SQL, collectors and parsers. The rest of the repository's code is of other kinds, and a state machine
of it would restate it:

* **Generated database code** (`internal/db/*.sql.go`) and the plain CRUD of
  settings, users, groups, dashboards and policies (`internal/handler`,
  `internal/store`): single statements whose concurrency is the database's. The
  guarded statements that matter are modelled from `sqlc/queries`.
* **Collectors and parsers on the agent** (`agent-source-code/internal/packages`,
  `hardware`, `network`, `repositories`, `integrations/compliance`): functions of the text a tool
  prints or of a Windows API. HostReports takes their results as given.
* **Sign-in, sessions, OIDC, tickets, encryption**: single operations of
  Redis or the database with an expiry.
* **SSH and RDP proxies**: bytes copied between two sockets.
* **Compliance scans**: the results are parsed data; the dispatch is in the
  plan.
* **Overlapping collections and COM failures on Windows**: a collection that finds
  another in progress, and a Windows Update interface that answers with an empty
  list, are not in HostReports. The flag of the report after a run may also be
  cleared by a report collected before the run ended; no property speaks of it.
* **Docker**: events and image checks, the contents of the inventory, turning the
  integration on and off.
* **Notifications other than host_down**: thresholds, routing rules, mail and
  web hooks.
* **Contexts and database pools**: a request is routed to its database, and
  runs of different contexts share nothing.
* **Mail, AI, migrations, installation scripts and the frontend**, but for the
  page that shows a run's output.

Within the modelled parts, what is left out is said in each module's section
and in the notes of `PROJECT.json`.
