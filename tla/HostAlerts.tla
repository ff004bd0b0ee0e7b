----------------------------- MODULE HostAlerts -----------------------------
(***************************************************************************)
(* The host_down alert of one host with one internal destination: the      *)
(* connect and disconnect callbacks of its agent's sockets, the periodic   *)
(* sweep, the emitter with its pending marker, recovery record and dedup   *)
(* keys in Redis, and the worker that turns a queued notification into a   *)
(* row of the alerts table.                                                *)
(*                                                                         *)
(* Time is counted in flips of the connection.  Flip k is at 2k, where its *)
(* disconnect callback reads the clock; a clock read later and before the  *)
(* next flip gives 2k + 1.  A socket's connect callback runs before its    *)
(* read loop, so it is over before the socket's own teardown.              *)
(***************************************************************************)
EXTENDS Naturals, FiniteSets

CONSTANTS
  Notices,    \* ids of notification tasks, and of the alerts they insert
  NoNotice,   \* no task, no alert
  MaxFlips,   \* bound: connects and disconnects
  MaxBacklog, \* bound: see BucketPasses
  MaxMisses   \* bound: notifications refused by the rate limit or lost in the queue

ASSUME AlertsAssumption ==
  NoNotice \notin Notices /\ MaxFlips \in Nat /\ MaxBacklog \in Nat /\ MaxMisses \in Nat

VARIABLES
  delayed,    \* alert_config.alert_delay_seconds of host_down is positive
  kept,       \* alert_config.auto_resolve_after_days of host_down is set, and positive
  flips,      \* flips of the connection so far; the host is connected when even
  overdue,    \* the host has been away for longer than the threshold
  emitter,    \* the disconnect callback of each flip, and the sweep's emission
  greeting,   \* where the connect callback of the current socket is
  sweep, saw, \* where the sweep is, and the active alert it read
  pending,    \* notif:pending:host_down:<host>; 0 when absent
  cancel,     \* notif:cancel:host_down:<host>; 0 when absent
  dedup,      \* the recovery generations that hold a dedup key of this bucket
  notice,     \* the delivery tasks
  alerts,     \* active host_down rows of the host
  lifted,     \* history: the cleanup resolved an alert since the host went away
  greeted,    \* history: connectedAt of the last recovery OnConnect recorded
  missed,     \* history: a delayed notification was claimed and then lost
  misses      \* counter of the bound

redisVars == <<pending, cancel, dedup>>
queueVars == <<notice, alerts>>
hookVars  == <<emitter, greeting, sweep, saw>>
hostVars  == <<delayed, kept, flips, overdue, lifted>>
pastVars  == <<greeted, missed, misses>>
alertVars == <<redisVars, queueVars, hookVars, hostVars, pastVars>>

Connected == flips % 2 = 0

Clock == 2 * flips + 1

Sweeper   == 0
Outages   == {k \in 1 .. MaxFlips : k % 2 = 1}
Emitters  == Outages \cup {Sweeper}
Times     == 0 .. 2 * MaxFlips + 1

\* recheck: before the registry is asked again.  read: before ListActiveAlertsByType.
\* the rest: inside EmitEvent, before the step the name says.
EmitSteps == {"idle", "recheck", "read", "generation", "claim", "dedup", "enqueue"}

Idle       == [pc |-> "idle", at |-> 0, gen |-> 0]
Queued(at) == [pc |-> "queued", at |-> at]
NoTask     == [pc |-> "none", at |-> 0]
NoticePcs  == {"none", "queued", "checked", "inserting"}

AlertsTyped ==
  /\ delayed \in BOOLEAN /\ kept \in BOOLEAN /\ lifted \in BOOLEAN
  /\ flips \in 0 .. MaxFlips /\ overdue \in BOOLEAN
  /\ emitter \in [Emitters -> [pc : EmitSteps, at : Times, gen : Times]]
  /\ greeting \in {"idle", "record", "resolve", "announce"}
  /\ sweep \in {"idle", "decide", "emitting", "resolve", "announce", "cancel"}
  /\ saw \in Notices \cup {NoNotice}
  /\ pending \in Times /\ cancel \in Times /\ dedup \subseteq Times
  /\ notice \in [Notices -> [pc : NoticePcs, at : Times]]
  /\ alerts \subseteq Notices
  /\ greeted \in Times /\ missed \in BOOLEAN /\ misses \in 0 .. MaxMisses

AlertsInit ==
  /\ delayed \in BOOLEAN /\ kept \in BOOLEAN /\ flips = 0 /\ overdue = FALSE /\ lifted = FALSE
  /\ emitter = [e \in Emitters |-> Idle] /\ greeting = "idle"
  /\ sweep = "idle" /\ saw = NoNotice
  /\ pending = 0 /\ cancel = 0 /\ dedup = {}
  /\ notice = [i \in Notices |-> NoTask] /\ alerts = {}
  /\ greeted = 0 /\ missed = FALSE /\ misses = 0

-----------------------------------------------------------------------------
(* The scripts run in Redis.                                                *)

\* Mutant: a claim that is not one per outage.
ClaimedEachTime(at) == IF cancel > at THEN 0 ELSE at

(* claimPendingScript: the new pending marker, or 0 when the claim is       *)
(* refused.  Every sweep renews the marker it meets, so it does not expire. *)
Claimed(at) == IF cancel > at \/ (pending # 0 /\ cancel <= pending) THEN 0 ELSE at

(* recordRecoveryScript. *)
RecordRecovery(at, force) ==
  IF /\ pending # 0 \/ force
     /\ pending # 0 => at > pending
     /\ at > cancel
  THEN cancel' = at /\ pending' = 0 /\ UNCHANGED dedup
  ELSE UNCHANGED redisVars

-----------------------------------------------------------------------------
(* The connection. *)

Disconnect ==
  /\ Connected /\ greeting = "idle" /\ flips < MaxFlips
  /\ flips' = flips + 1 /\ overdue' = FALSE /\ lifted' = FALSE
  /\ emitter' = [emitter EXCEPT ![flips + 1] = [Idle EXCEPT !.pc = "recheck", !.at = 2 * (flips + 1)]]
  /\ UNCHANGED <<delayed, kept, greeting, sweep, saw, redisVars, queueVars, pastVars>>

Connect ==
  /\ ~Connected /\ flips < MaxFlips
  /\ flips' = flips + 1 /\ overdue' = FALSE /\ lifted' = FALSE /\ greeting' = "record"
  /\ UNCHANGED <<delayed, kept, emitter, sweep, saw, redisVars, queueVars, pastVars>>

ThresholdPasses ==
  /\ ~Connected /\ ~overdue
  /\ overdue' = TRUE
  /\ UNCHANGED <<delayed, kept, lifted, flips, hookVars, redisVars, queueVars, pastVars>>

Backlog == {i \in Notices : notice[i].pc # "none"}
Enqueuing == {e \in Emitters : emitter[e].pc = "enqueue"}

\* The 120 s bucket of the fingerprint ends.  Bound: fewer than MaxBacklog notices
\* are on their way, or alerts, when it does.
BucketPasses ==
  /\ dedup # {} /\ Cardinality(Backlog \cup alerts) + Cardinality(Enqueuing) < MaxBacklog
  /\ dedup' = {}
  /\ UNCHANGED <<pending, cancel, queueVars, hookVars, hostVars, pastVars>>

-----------------------------------------------------------------------------
(* OnDisconnect, from its caller's check of the registry. *)

EmitFirst == IF delayed THEN "generation" ELSE "dedup"

At(e, pc)     == emitter[e].pc = pc
Goes(e, pc)   == emitter' = [emitter EXCEPT ![e].pc = pc]
EmitOver(e)   == /\ emitter' = [emitter EXCEPT ![e] = Idle]
                 /\ sweep' = IF e = Sweeper THEN "idle" ELSE sweep

Recheck(e) ==
  /\ At(e, "recheck")
  /\ IF Connected THEN EmitOver(e) ELSE Goes(e, "read") /\ UNCHANGED sweep
  /\ UNCHANGED <<greeting, saw, redisVars, queueVars, hostVars, pastVars>>

ReadAlerts(e) ==
  /\ At(e, "read")
  /\ IF alerts # {} THEN EmitOver(e) ELSE Goes(e, EmitFirst) /\ UNCHANGED sweep
  /\ UNCHANGED <<greeting, saw, redisVars, queueVars, hostVars, pastVars>>

-----------------------------------------------------------------------------
(* EmitEvent of host_down. *)

ReadGeneration(e) ==
  /\ At(e, "generation")
  /\ emitter' = [emitter EXCEPT ![e].pc = "claim", ![e].gen = cancel]
  /\ UNCHANGED <<greeting, sweep, saw, redisVars, queueVars, hostVars, pastVars>>

ClaimPending(e) ==
  /\ At(e, "claim")
  /\ LET claim == Claimed(emitter[e].at)
     IN IF claim = 0
        THEN EmitOver(e) /\ UNCHANGED pending
        ELSE pending' = claim /\ Goes(e, "dedup") /\ UNCHANGED sweep
  /\ UNCHANGED <<greeting, saw, cancel, dedup, queueVars, hostVars, pastVars>>

TryDedup(e) ==
  /\ At(e, "dedup")
  /\ IF emitter[e].gen \in dedup
     THEN EmitOver(e) /\ missed' = (missed \/ delayed) /\ UNCHANGED dedup
     ELSE /\ dedup' = dedup \cup {emitter[e].gen}
          /\ Goes(e, "enqueue") /\ UNCHANGED <<sweep, missed>>
  /\ UNCHANGED <<greeting, saw, pending, cancel, queueVars, hostVars, greeted, misses>>

\* Ids nothing refers to any more.
Free == {i \in Notices \ Backlog : i \notin alerts /\ i # saw}

Enqueue(e) ==
  /\ At(e, "enqueue")
  /\ \E i \in Free : notice' = [notice EXCEPT ![i] = Queued(emitter[e].at)]
  /\ EmitOver(e)
  /\ UNCHANGED <<greeting, saw, redisVars, alerts, hostVars, pastVars>>

\* The rate limit, or an error of the queue: only the dedup key is released.
NotEnqueued(e) ==
  /\ At(e, "enqueue") /\ misses < MaxMisses
  /\ misses' = misses + 1 /\ missed' = (missed \/ delayed)
  /\ dedup' = dedup \ {emitter[e].gen}
  /\ EmitOver(e)
  /\ UNCHANGED <<greeting, saw, pending, cancel, queueVars, hostVars, greeted>>

-----------------------------------------------------------------------------
(* OnConnect. *)

\* Mutant: a recovery that is recorded for a marked outage only.
RecordIfPending == RecordRecovery(Clock, FALSE)

\* RecordRecovery with a delay configured, CancelPending without.
RecordConnect == RecordRecovery(Clock, delayed)

Greet ==
  /\ greeting = "record"
  /\ RecordConnect
  /\ greeted' = Clock /\ greeting' = "resolve"
  /\ UNCHANGED <<emitter, sweep, saw, queueVars, hostVars, missed, misses>>

\* One active alert is resolved.  With none, host_recovered goes out if it is enabled.
ResolveOnConnect ==
  /\ greeting = "resolve"
  /\ IF alerts = {}
     THEN greeting' \in {"idle", "announce"} /\ UNCHANGED alerts
     ELSE greeting' = "announce" /\ \E i \in alerts : alerts' = alerts \ {i}
  /\ UNCHANGED <<emitter, sweep, saw, redisVars, notice, hostVars, pastVars>>

\* EmitEvent of host_recovered cancels a pending host_down.
AnnounceConnect ==
  /\ greeting = "announce"
  /\ RecordRecovery(Clock, FALSE)
  /\ greeting' = "idle"
  /\ UNCHANGED <<emitter, sweep, saw, queueVars, hostVars, pastVars>>

-----------------------------------------------------------------------------
(* ProcessHostStatusMonitor.  `now` and the registry are read in one step.  *)

SweepRead ==
  /\ sweep = "idle"
  /\ sweep' = "decide"
  /\ saw' \in IF alerts = {} THEN {NoNotice} ELSE alerts
  /\ UNCHANGED <<emitter, greeting, redisVars, queueVars, hostVars, pastVars>>

Sees == saw # NoNotice

\* Mutant: the sweep leaves every disconnected host to its disconnect callback.
AbsentForCallback == ~Connected

\* A disconnect inside the threshold is neither down nor alive.
Absent == ~Connected /\ ~overdue

SweepDecide ==
  /\ sweep = "decide"
  /\ \/ /\ Absent \/ (~Connected /\ Sees)
        /\ sweep' = "idle" /\ UNCHANGED emitter
     \/ /\ ~Connected /\ ~Absent /\ ~Sees
        /\ sweep' = "emitting"
        /\ emitter' = [emitter EXCEPT ![Sweeper] = [Idle EXCEPT !.pc = EmitFirst, !.at = Clock]]
     \/ /\ Connected
        /\ sweep' = IF Sees THEN "resolve" ELSE "cancel"
        /\ emitter' = [emitter EXCEPT ![Sweeper].at = Clock]
  /\ UNCHANGED <<greeting, saw, redisVars, queueVars, hostVars, pastVars>>

\* Mutant: the test of auto_resolve_after_days the other way round.
ResolvedWhenKept == IF kept THEN alerts \ {saw} ELSE alerts

\* With auto_resolve_after_days, the alert is left to AutoResolve.
AfterSweep == IF kept THEN alerts ELSE alerts \ {saw}

SweepResolve ==
  /\ sweep = "resolve"
  /\ alerts' = AfterSweep /\ saw' = NoNotice
  /\ sweep' = "announce"
  /\ UNCHANGED <<emitter, greeting, redisVars, notice, hostVars, pastVars>>

SweepEnds == sweep' = "idle" /\ emitter' = [emitter EXCEPT ![Sweeper] = Idle]

SweepAnnounce ==
  /\ sweep = "announce"
  /\ RecordRecovery(Clock, FALSE) /\ SweepEnds
  /\ UNCHANGED <<greeting, saw, queueVars, hostVars, pastVars>>

\* CancelPending with the `now` of the decision.
SweepCancel ==
  /\ sweep = "cancel"
  /\ RecordRecovery(emitter[Sweeper].at, FALSE) /\ SweepEnds
  /\ UNCHANGED <<greeting, saw, queueVars, hostVars, pastVars>>

-----------------------------------------------------------------------------
(* NotificationDeliverHandler.ProcessTask. *)

Cancelled(at) == delayed /\ cancel > at

\* IsDelayedCancelled.
CheckNotice(i) ==
  /\ notice[i].pc = "queued"
  /\ notice' = [notice EXCEPT ![i] =
       IF Cancelled(@.at) THEN NoTask ELSE [@ EXCEPT !.pc = "checked"]]
  /\ UNCHANGED <<alerts, redisVars, hookVars, hostVars, pastVars>>

\* hasActiveMatchingAlert.
MatchAlert(i) ==
  /\ notice[i].pc = "checked"
  /\ notice' = [notice EXCEPT ![i] =
       IF alerts # {} THEN NoTask ELSE [@ EXCEPT !.pc = "inserting"]]
  /\ UNCHANGED <<alerts, redisVars, hookVars, hostVars, pastVars>>

CreateAlert(i) ==
  /\ notice[i].pc = "inserting"
  /\ alerts' = alerts \cup {i} /\ notice' = [notice EXCEPT ![i] = NoTask]
  /\ UNCHANGED <<redisVars, hookVars, hostVars, pastVars>>

\* Every attempt failed: asynq archives the task.
GiveUp(i) ==
  /\ notice[i].pc \in {"checked", "inserting"} /\ misses < MaxMisses
  /\ misses' = misses + 1 /\ missed' = (missed \/ delayed)
  /\ notice' = [notice EXCEPT ![i] = NoTask]
  /\ UNCHANGED <<alerts, redisVars, hookVars, hostVars, greeted>>

-----------------------------------------------------------------------------
(* AutoResolveOldAlerts, of the daily cleanup, for one alert.  Days are not *)
(* counted: any active alert may be old enough.                             *)
AutoResolve ==
  /\ kept
  /\ \E i \in alerts : alerts' = alerts \ {i}
  /\ lifted' = ~Connected
  /\ UNCHANGED <<delayed, kept, flips, overdue, notice, redisVars, hookVars, pastVars>>

-----------------------------------------------------------------------------
Emit(e) == ReadGeneration(e) \/ ClaimPending(e) \/ TryDedup(e) \/ Enqueue(e)
Callback(e) == Recheck(e) \/ ReadAlerts(e) \/ Emit(e)
ConnectHook == Greet \/ ResolveOnConnect \/ AnnounceConnect
Sweep == SweepRead \/ SweepDecide \/ SweepResolve \/ SweepAnnounce \/ SweepCancel
Deliver(i) == CheckNotice(i) \/ MatchAlert(i) \/ CreateAlert(i)

AlertsNext ==
  \/ Disconnect \/ Connect \/ ThresholdPasses \/ BucketPasses \/ AutoResolve
  \/ \E e \in Emitters : Callback(e) \/ NotEnqueued(e)
  \/ ConnectHook \/ Sweep
  \/ \E i \in Notices : Deliver(i) \/ GiveUp(i)

AlertsSpec == AlertsInit /\ [][AlertsNext]_alertVars

AlertsFairness ==
  /\ WF_alertVars(ThresholdPasses) /\ WF_alertVars(BucketPasses) /\ WF_alertVars(AutoResolve)
  /\ WF_alertVars(ConnectHook) /\ WF_alertVars(Sweep)
  /\ \A e \in Emitters : WF_alertVars(Callback(e))
  /\ \A i \in Notices : WF_alertVars(Deliver(i))

FairAlertsSpec == AlertsSpec /\ AlertsFairness

-----------------------------------------------------------------------------
\* A delayed notification whose host has been greeted since its emission is not delivered:
\* the recovery record reaches the worker even when the connect callback ran before the
\* claim, between the claim and the queue, or after another outage's claim.
FlapIsQuiet ==
  [][\A i \in Notices :
       delayed /\ notice[i].pc = "queued" /\ notice'[i].pc = "checked"
       => greeted <= notice[i].at]_alertVars

\* With a delay, one outage has one notification: two that wait in the queue, or that
\* are on their way to it, are not both going to be delivered.
OneNoticePerOutage ==
  delayed => Cardinality({i \in Notices : notice[i].pc = "queued" /\ ~Cancelled(notice[i].at)})
             + Cardinality({e \in Emitters : emitter[e].pc \in {"dedup", "enqueue"}
                                             /\ ~Cancelled(emitter[e].at)}) <= 1

\* An alert that a late worker inserts after the host has come back, or a second alert
\* of the same outage, is cleared while the host stays connected: by the sweeps, or by
\* the cleanup when auto_resolve_after_days tells the sweeps to leave it.
LateAlertIsCleared == <>[]Connected => <>[](alerts = {})

\* A host that stays away is reported, whatever its flaps, stale sweeps and late
\* callbacks did to the marker, the record and the dedup keys, unless a delayed
\* notification was lost; only the cleanup takes the alert away again.
OutageIsReported == <>[](~Connected /\ ~missed) => <>[](alerts # {} \/ lifted)

\* The same when a notification may be lost: every outage alerts in the end.
OutageAlwaysReported == <>[]~Connected => <>[](alerts # {} \/ lifted)
=============================================================================
