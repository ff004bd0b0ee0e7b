--------------------------- MODULE PatchSchedule ---------------------------
(***************************************************************************)
(* The recurring schedule of one patch policy.  Every minute a scheduler   *)
(* enqueues a dispatch; each dispatch lists the due policies with one      *)
(* reading of the clock, claims the occurrence with a compare-and-swap on  *)
(* recurrence_next_run_at, and starts one run per target host.  Dispatches *)
(* overlap when one is slow, and an administrator may save the policy at   *)
(* any time.                                                               *)
(***************************************************************************)
EXTENDS Naturals, FiniteSets

CONSTANTS
  Workers,    \* goroutines that process dispatch tasks
  Hosts,      \* hosts the policy is assigned to
  Never,      \* recurrence_cron is NULL
  Period,     \* units of time between two occurrences of an expression
  Window,     \* patchPolicyCatchUpWindow
  MaxTime,    \* bound: where the clock stops
  MaxSaves,   \* bound: saves of the policy
  MaxFaults   \* bound: crashes of a worker and errors of the queue

ASSUME ScheduleAssumption ==
  /\ Period \in Nat \ {0} /\ Window \in Nat /\ MaxTime \in Nat
  /\ MaxSaves \in Nat /\ MaxFaults \in Nat /\ Never \notin Nat

VARIABLES
  clock,
  cron, due, lastRun, \* recurrence_cron, recurrence_next_run_at, recurrence_last_run_at
  target,     \* hosts the policy is effective for that are active and have outdated packages
  worker,     \* the dispatch of each worker
  run,        \* the latest run of each host
  fired,      \* history: <<host, occurrence>> and the runs started for it
  skipped,    \* history: occurrences skipped as missed
  orphans,    \* history: hosts whose run lost its worker to a crash, or its cancellation to an error
  saves, faults

rowVars   == <<cron, due, lastRun>>
worldVars == <<clock, target, saves>>
histVars  == <<fired, skipped, orphans, faults>>
schedVars == <<rowVars, worldVars, worker, run, histVars>>

Crons  == 0 .. Period - 1
Times  == 0 .. MaxTime + Period
RunStates == {"none", "created", "queued", "over"}
WorkerPcs == {"idle", "claim", "targets", "start", "enqueue", "cancel"}

\* A dispatch's copy of the policy, and the hosts it has still to serve.
Off == [pc |-> "idle", now |-> 0, cron |-> 0, due |-> 0, last |-> 0, todo |-> {}]

ScheduleTyped ==
  /\ clock \in 0 .. MaxTime /\ cron \in Crons \cup {Never}
  /\ due \in Times /\ lastRun \in Times /\ target \subseteq Hosts
  /\ \A w \in Workers :
       /\ worker[w].pc \in WorkerPcs /\ worker[w].todo \subseteq Hosts
       /\ worker[w].now \in 0 .. clock /\ worker[w].due <= worker[w].now
  /\ run \in [Hosts -> RunStates]
  /\ fired \in [Hosts \X Times -> 0 .. 2] /\ skipped \subseteq Times
  /\ orphans \subseteq Hosts /\ saves \in 0 .. MaxSaves /\ faults \in 0 .. MaxFaults

-----------------------------------------------------------------------------
\* The first instant after t at which c fires.
NextRecurrence(c, t) == t + Period - ((t + Period - c) % Period)

ScheduleInit ==
  /\ clock = 0 /\ cron \in Crons \cup {Never} /\ lastRun = 0
  /\ due = IF cron = Never THEN 0 ELSE NextRecurrence(cron, 0)
  /\ target = Hosts
  /\ worker = [w \in Workers |-> Off]
  /\ run = [h \in Hosts |-> "none"]
  /\ fired = [p \in Hosts \X Times |-> 0] /\ skipped = {} /\ orphans = {}
  /\ saves = 0 /\ faults = 0

-----------------------------------------------------------------------------
Tick ==
  /\ clock < MaxTime
  /\ clock' = clock + 1
  /\ UNCHANGED <<rowVars, target, saves, worker, run, histVars>>

\* A host connects or disconnects, gets its updates, or gets another policy.
Retarget ==
  /\ \E h \in Hosts : target' = IF h \in target THEN target \ {h} ELSE target \cup {h}
  /\ UNCHANGED <<rowVars, clock, saves, worker, run, histVars>>

\* SetRecurrence.
Save(c) ==
  /\ saves < MaxSaves /\ saves' = saves + 1
  /\ cron' = c
  /\ due' = IF c = Never THEN 0 ELSE NextRecurrence(c, clock)
  /\ UNCHANGED <<lastRun, clock, target, worker, run, histVars>>

\* A run of the host by somebody else, and the end of a run.
OtherRun(h) ==
  /\ run[h] \in {"none", "over"}
  /\ run' = [run EXCEPT ![h] = "queued"]
  /\ UNCHANGED <<rowVars, worldVars, worker, histVars>>

RunEnds(h) ==
  /\ run[h] = "queued"
  /\ run' = [run EXCEPT ![h] = "over"]
  /\ UNCHANGED <<rowVars, worldVars, worker, histVars>>

-----------------------------------------------------------------------------
(* A dispatch. *)

Goto(w, pc) == worker' = [worker EXCEPT ![w].pc = pc]
Done(w)     == worker' = [worker EXCEPT ![w] = Off]

IsDue == cron # Never /\ due <= clock

ListDue(w) ==
  /\ worker[w].pc = "idle" /\ IsDue
  /\ worker' = [worker EXCEPT ![w] =
       [pc |-> "claim", now |-> clock, cron |-> cron, due |-> due, last |-> lastRun, todo |-> {}]]
  /\ UNCHANGED <<rowVars, worldVars, run, histVars>>

\* patchPolicyOccurrenceMissed, by the clock the dispatch started with.
Missed(d) == d.now - d.due > Window

\* Mutant: an UPDATE that finds the policy by its id alone.
ClaimsByID(d) == cron # Never

\* The row the UPDATE of ClaimPatchPolicyRecurrence matches.
Claims(d) == cron # Never /\ due = d.due

\* Mutant: a missed occurrence whose schedule is not moved on.
NextUnlessMissed(d) == IF Missed(d) THEN due ELSE NextRecurrence(d.cron, d.now)

NextOf(d) == NextRecurrence(d.cron, d.now)

Claim(w) == LET d == worker[w] IN
  /\ d.pc = "claim"
  /\ IF Claims(d)
     THEN /\ due' = NextOf(d) /\ lastRun' = IF Missed(d) THEN d.last ELSE d.now
          /\ skipped' = IF Missed(d) THEN skipped \cup {d.due} ELSE skipped
          /\ IF Missed(d) THEN Done(w) ELSE Goto(w, "targets")
     ELSE Done(w) /\ UNCHANGED <<due, lastRun, skipped>>
  /\ UNCHANGED <<cron, worldVars, run, fired, orphans, faults>>

TargetHosts(w) ==
  /\ worker[w].pc = "targets"
  /\ worker' = [worker EXCEPT ![w].pc = "start", ![w].todo = target]
  /\ UNCHANGED <<rowVars, worldVars, run, histVars>>

\* The hosts are served in a fixed order.
First(d) == CHOOSE h \in d.todo : TRUE
AfterFirst(d, pc) == [d EXCEPT !.pc = pc, !.todo = @ \ {First(d)}]

\* ErrHostHasActivePatchRun otherwise.
HostFree(h) == run[h] \in {"none", "over"}

CreateRun(w) == LET d == worker[w] IN
  /\ d.pc = "start" /\ d.todo # {}
  /\ IF HostFree(First(d))
     THEN /\ run' = [run EXCEPT ![First(d)] = "created"]
          /\ fired' = [fired EXCEPT ![<<First(d), d.due>>] = IF @ < 2 THEN @ + 1 ELSE @]
          /\ Goto(w, "enqueue")
     ELSE worker' = [worker EXCEPT ![w] = AfterFirst(d, "start")] /\ UNCHANGED <<run, fired>>
  /\ UNCHANGED <<rowVars, worldVars, skipped, orphans, faults>>

Enqueue(w) == LET d == worker[w] IN
  /\ d.pc = "enqueue"
  /\ run' = [run EXCEPT ![First(d)] = "queued"]
  /\ worker' = [worker EXCEPT ![w] = AfterFirst(d, "start")]
  /\ UNCHANGED <<rowVars, worldVars, histVars>>

EnqueueFails(w) ==
  /\ worker[w].pc = "enqueue" /\ faults < MaxFaults
  /\ faults' = faults + 1
  /\ Goto(w, "cancel")
  /\ UNCHANGED <<rowVars, worldVars, run, fired, skipped, orphans>>

\* Mutant: an orphaned run that is left as it is.
LeaveOrphan(h) == run

CancelOrphan(h) == [run EXCEPT ![h] = "over"]

\* The error of PatchRunsStore.Cancel is logged, and the run stays as it is.  Bound:
\* there is a Cancel for a fault of the queue only.
Cancel(w) == LET d == worker[w] IN
  /\ d.pc = "cancel"
  /\ \/ run' = CancelOrphan(First(d)) /\ UNCHANGED orphans
     \/ orphans' = orphans \cup {First(d)} /\ UNCHANGED run
  /\ worker' = [worker EXCEPT ![w] = AfterFirst(d, "start")]
  /\ UNCHANGED <<rowVars, worldVars, fired, skipped, faults>>

Dispatched(w) ==
  /\ worker[w].pc = "start" /\ worker[w].todo = {}
  /\ Done(w)
  /\ UNCHANGED <<rowVars, worldVars, run, histVars>>

Holds(w) == worker[w].pc \in {"enqueue", "cancel"}

\* The dispatch task has MaxRetry(0): a crash ends it.
Crash(w) ==
  /\ worker[w].pc # "idle" /\ faults < MaxFaults
  /\ faults' = faults + 1
  /\ Done(w)
  /\ orphans' = IF Holds(w) THEN orphans \cup {First(worker[w])} ELSE orphans
  /\ UNCHANGED <<rowVars, worldVars, run, fired, skipped>>

-----------------------------------------------------------------------------
Dispatch(w) == \/ ListDue(w) \/ Claim(w) \/ TargetHosts(w) \/ CreateRun(w)
               \/ Enqueue(w) \/ Cancel(w) \/ Dispatched(w)

ScheduleNext ==
  \/ Tick \/ Retarget
  \/ \E c \in Crons \cup {Never} : Save(c)
  \/ \E h \in Hosts : OtherRun(h) \/ RunEnds(h)
  \/ \E w \in Workers : Dispatch(w) \/ EnqueueFails(w) \/ Crash(w)

ScheduleSpec == ScheduleInit /\ [][ScheduleNext]_schedVars

\* The scheduler enqueues a dispatch every minute.
FairScheduleSpec == ScheduleSpec /\ \A w \in Workers : WF_schedVars(Dispatch(w))

-----------------------------------------------------------------------------
\* However dispatches overlap and whatever is saved in between, an occurrence is fired
\* by one dispatch or skipped by one: a host gets at most one run of it, and none of an
\* occurrence some dispatch found too late, even when a dispatch with an older clock is
\* still on its way.
OccurrenceHasOneFate ==
  \A p \in Hosts \X Times : fired[p] <= 1 /\ (p[2] \in skipped => fired[p] = 0)

\* recurrence_last_run_at, which a skipped occurrence writes back from the copy the
\* dispatch read, never loses a later run.
LastRunIsKept == [][lastRun' >= lastRun]_schedVars

\* A created run is on its way to the queue or is cancelled: a queue error alone does not
\* leave the host with an active run nobody will execute.  It takes a crash of the worker
\* that holds the run, or an error of the cancellation on top of the queue's.
NoOrphanedRun ==
  \A h \in Hosts \ orphans : run[h] = "created"
    => \E w \in Workers : Holds(w) /\ First(worker[w]) = h

\* A due occurrence is fired, skipped or saved over in the end; the schedule moves on
\* from an occurrence that was missed as well.
DueIsSettled == (cron # Never /\ due <= clock) ~> (cron = Never \/ due > clock)
=============================================================================
