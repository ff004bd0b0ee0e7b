------------------------ MODULE PatchScheduleProofs ------------------------
(***************************************************************************)
(* The fate of an occurrence of a patch policy, for every set of           *)
(* dispatches and hosts, every period, window and bound.                   *)
(*                                                                         *)
(* The argument: recurrence_next_run_at only moves past the clock, so an   *)
(* occurrence a dispatch claimed, fired or skipped lies before it for      *)
(* ever, and the compare-and-swap of a dispatch that holds the same        *)
(* occurrence fails.                                                       *)
(***************************************************************************)
EXTENDS PatchSchedule, TLAPS

Dispatches == [pc : WorkerPcs, now : 0 .. MaxTime, cron : Crons, due : Times, last : Times,
               todo : SUBSET Hosts]

RowsTyped ==
  /\ clock \in 0 .. MaxTime /\ cron \in Crons \cup {Never} /\ due \in Times /\ lastRun \in Times
  /\ target \subseteq Hosts /\ worker \in [Workers -> Dispatches]
  /\ fired \in [Hosts \X Times -> 0 .. 2] /\ skipped \subseteq Times

\* What a dispatch read is not ahead of the clock, and neither is the last run.
ClocksAgree ==
  /\ lastRun <= clock /\ (cron # Never => lastRun < due)
  /\ \A w \in Workers : worker[w].now <= clock /\ worker[w].due <= worker[w].now

Claimed(w) == worker[w].pc \in {"targets", "start", "enqueue", "cancel"}

\* The occurrences that are claimed, fired or skipped are past ones.
SettledIsPast ==
  /\ \A w \in Workers : cron # Never /\ Claimed(w) => worker[w].due < due
  /\ \A o \in skipped : o <= clock /\ (cron # Never => o < due)
  /\ \A p \in Hosts \X Times : fired[p] # 0 => p[2] <= clock /\ (cron # Never => p[2] < due)

\* A host that the dispatch of w has still to serve.
Unserved(w, h) ==
  \/ worker[w].pc = "targets"
  \/ worker[w].pc = "start" /\ h \in worker[w].todo
  \/ worker[w].pc \in {"enqueue", "cancel"} /\ h \in worker[w].todo \ {First(worker[w])}

\* A claimed occurrence has one dispatch, which fires it once for each of its hosts.
ClaimIsExclusive ==
  \A w \in Workers : Claimed(w) =>
    /\ worker[w].due \notin skipped
    /\ \A x \in Workers \ {w} : Claimed(x) => worker[x].due # worker[w].due
    /\ \A h \in Hosts : Unserved(w, h) => fired[<<h, worker[w].due>>] = 0

\* The schedule has not gone back since a dispatch read it, and the row it would claim is
\* the row it read.
CopyIsFresh ==
  \A w \in Workers : worker[w].pc = "claim" /\ cron # Never =>
    worker[w].due <= due /\ (due = worker[w].due => worker[w].last = lastRun)

ScheduleInv == /\ RowsTyped /\ ClocksAgree /\ SettledIsPast /\ ClaimIsExclusive /\ CopyIsFresh
               /\ OccurrenceHasOneFate

-----------------------------------------------------------------------------
LEMMA RecurrenceIsLater ==
  ASSUME NEW c \in Crons, NEW t \in 0 .. MaxTime
  PROVE  NextRecurrence(c, t) \in Times /\ NextRecurrence(c, t) > t
<1>1. t + Period - c \in Nat /\ Period \in Nat \ {0}
  BY ScheduleAssumption DEF Crons
<1>2. (t + Period - c) % Period \in 0 .. Period - 1
  BY <1>1
<1> QED
  BY <1>1, <1>2, ScheduleAssumption DEF NextRecurrence, Times

\* Division by the period, and its uniqueness.
LEMMA Divided ==
  ASSUME NEW a \in Nat
  PROVE  a % Period \in Crons /\ \E k \in Nat : a = Period * k + (a % Period)
<1>1. Period \in Nat \ {0}
  BY ScheduleAssumption
<1>2. a % Period \in 0 .. Period - 1
  BY <1>1
<1>3. (a \div Period) \in Nat
  BY <1>1
<1>4. a = Period * (a \div Period) + (a % Period)
  BY <1>1
<1> QED
  BY <1>2, <1>3, <1>4 DEF Crons

LEMMA PeriodsApart ==
  ASSUME NEW k \in Nat, NEW j \in Nat, j < k
  PROVE  Period * k >= Period * j + Period
<1>1. PICK d \in Nat : k = j + 1 + d
  <2>1. k - j - 1 \in Nat
    OBVIOUS
  <2> QED
    BY <2>1
<1>2. Period * k = Period * j + Period + Period * d /\ Period * d \in Nat /\ Period * j \in Nat
  BY <1>1, ScheduleAssumption
<1> QED
  BY <1>2, ScheduleAssumption

LEMMA OneQuotient ==
  ASSUME NEW k \in Nat, NEW j \in Nat, NEW r \in Crons, NEW s \in Crons,
         Period * k + r = Period * j + s
  PROVE  k = j /\ r = s
<1>1. Period * k \in Nat /\ Period * j \in Nat /\ Period \in Nat /\ r < Period /\ s < Period
  BY ScheduleAssumption DEF Crons
<1>2. ~(k < j) /\ ~(j < k)
  BY <1>1, PeriodsApart DEF Crons
<1>3. k = j
  BY <1>2
<1> QED
  BY <1>1, <1>3 DEF Crons

\* The next recurrence is the first instant after t at which the expression fires: no
\* occurrence is passed over and none is repeated, whatever the period.
THEOREM RecurrenceIsTheFirst ==
  ASSUME NEW c \in Crons, NEW t \in Nat
  PROVE  /\ NextRecurrence(c, t) > t /\ NextRecurrence(c, t) % Period = c
         /\ \A u \in Nat : t < u /\ u < NextRecurrence(c, t) => u % Period # c
<1> DEFINE n == NextRecurrence(c, t)
           r == (t + Period - c) % Period
<1>0. Period \in Nat \ {0} /\ c \in Nat /\ c < Period
  BY ScheduleAssumption DEF Crons
<1>1. t + Period - c \in Nat
  BY <1>0
<1>2. PICK k \in Nat : t + Period - c = Period * k + r /\ r \in Crons
  BY <1>1, Divided
<1>3. Period * k \in Nat /\ n = Period * k + c /\ n = t + Period - r /\ r \in Nat /\ r < Period
  BY <1>0, <1>2 DEF NextRecurrence, Crons
<1> HIDE DEF n, r
<1>4. n \in Nat /\ n > t
  BY <1>0, <1>3
<1>5. n % Period = c
  <2>1. PICK j \in Nat : n = Period * j + (n % Period) /\ n % Period \in Crons
    BY <1>4, Divided
  <2> QED
    BY <1>3, <2>1, OneQuotient
<1>6. ASSUME NEW u \in Nat, t < u, u < n PROVE u % Period # c
  <2> SUFFICES ASSUME u % Period = c PROVE FALSE
    OBVIOUS
  <2>1. PICK j \in Nat : u = Period * j + c
    BY Divided
  <2>2. Period * j \in Nat
    BY <1>0
  <2>3. ~(j < k)
    <3>1. j < k => Period * k >= Period * j + Period
      BY PeriodsApart
    <3> QED
      BY <1>0, <1>3, <1>6, <2>1, <2>2, <3>1
  <2>4. j = k \/ k < j
    BY <2>3
  <2>5. CASE j = k
    BY <1>3, <1>6, <2>1, <2>5
  <2>6. CASE k < j
    <3>1. Period * j >= Period * k + Period
      BY <2>6, PeriodsApart
    <3> QED
      BY <1>0, <1>3, <1>6, <2>1, <2>2, <3>1
  <2> QED
    BY <2>4, <2>5, <2>6
<1> QED
  BY <1>4, <1>5, <1>6 DEF n

LEMMA OffTyped == Off \in Dispatches
BY ScheduleAssumption DEF Off, Dispatches, WorkerPcs, Crons, Times

LEMMA InitHolds == ScheduleInit => ScheduleInv
<1> SUFFICES ASSUME ScheduleInit PROVE ScheduleInv
  OBVIOUS
<1>1. due \in Times /\ (cron # Never => 0 < due)
  BY RecurrenceIsLater, ScheduleAssumption DEF ScheduleInit, Times
<1>2. RowsTyped
  BY <1>1, OffTyped, ScheduleAssumption DEF ScheduleInit, RowsTyped, Times
<1>3. ClocksAgree /\ SettledIsPast /\ ClaimIsExclusive /\ CopyIsFresh /\ OccurrenceHasOneFate
  BY <1>1 DEF ScheduleInit, ClocksAgree, SettledIsPast, ClaimIsExclusive, CopyIsFresh, Claimed,
     OccurrenceHasOneFate, Off
<1> QED
  BY <1>2, <1>3 DEF ScheduleInv

-----------------------------------------------------------------------------
\* A dispatch moves on with the occurrence it has, and has no more hosts to serve than before.
MovesOn(w) ==
  /\ worker' = [worker EXCEPT ![w] = worker'[w]] /\ worker'[w] \in Dispatches
  /\ worker'[w].now <= clock /\ worker'[w].due <= worker'[w].now
  /\ worker'[w].pc # "claim"
  /\ Claimed(w)' => Claimed(w) /\ worker'[w].due = worker[w].due

LEMMA MovesOnKeeps ==
  ASSUME ScheduleInv, NEW w \in Workers, MovesOn(w), UNCHANGED <<rowVars, worldVars, skipped>>,
         fired' = fired, \A h \in Hosts : Unserved(w, h)' => Unserved(w, h)
  PROVE  ScheduleInv'
<1> USE DEF rowVars, worldVars, ScheduleInv
<1>1. RowsTyped'
  BY DEF RowsTyped, MovesOn
<1>2. \A x \in Workers \ {w} : worker'[x] = worker[x]
  BY DEF RowsTyped, MovesOn
<1>3. \A x \in Workers : /\ Claimed(x)' => Claimed(x) /\ worker'[x].due = worker[x].due
                         /\ \A h \in Hosts : Unserved(x, h)' => Unserved(x, h)
  BY <1>2 DEF MovesOn, Claimed, Unserved
<1>4. ClocksAgree' /\ CopyIsFresh'
  BY <1>2 DEF MovesOn, ClocksAgree, CopyIsFresh
<1>5. SettledIsPast'
  BY <1>3 DEF SettledIsPast
<1>6. ClaimIsExclusive'
  BY <1>3 DEF ClaimIsExclusive
<1>7. OccurrenceHasOneFate'
  BY DEF OccurrenceHasOneFate
<1> QED
  BY <1>1, <1>4, <1>5, <1>6, <1>7

LEMMA ScheduleStep == ScheduleInv /\ [ScheduleNext]_schedVars => ScheduleInv'
<1> SUFFICES ASSUME ScheduleInv, [ScheduleNext]_schedVars PROVE ScheduleInv'
  OBVIOUS
<1> USE DEF rowVars, worldVars, histVars
<1>0. RowsTyped /\ ClocksAgree /\ SettledIsPast /\ ClaimIsExclusive /\ CopyIsFresh /\ OccurrenceHasOneFate
  BY DEF ScheduleInv
<1>a. /\ clock \in 0 .. MaxTime /\ worker \in [Workers -> Dispatches] /\ MaxTime \in Nat
      /\ Times = 0 .. MaxTime + Period /\ Period \in Nat \ {0} /\ due \in Times /\ lastRun \in Times
  BY <1>0, ScheduleAssumption DEF RowsTyped, Times
<1>b. ASSUME UNCHANGED <<rowVars, clock, worker, fired, skipped>>, target' \subseteq Hosts PROVE ScheduleInv'
  BY <1>0, <1>b DEF ScheduleInv, RowsTyped, ClocksAgree, SettledIsPast, ClaimIsExclusive, CopyIsFresh,
     OccurrenceHasOneFate, Claimed, Unserved
<1>1. CASE Tick
  <2>1. clock' = clock + 1 /\ clock < MaxTime /\ UNCHANGED <<rowVars, target, worker, fired, skipped>>
    BY <1>1 DEF Tick
  <2>2. RowsTyped'
    BY <1>0, <1>a, <2>1 DEF RowsTyped
  <2>3. ClocksAgree'
    <3>1. \A w \in Workers : worker[w].now \in Nat
      BY <1>a DEF Dispatches
    <3> QED
      BY <1>0, <1>a, <2>1, <3>1 DEF ClocksAgree
  <2>4. SettledIsPast'
    <3>1. \A p \in Hosts \X Times : p[2] \in Nat
      BY <1>a
    <3>2. skipped \subseteq Nat
      BY <1>0, <1>a DEF RowsTyped
    <3> QED
      BY <1>0, <1>a, <2>1, <3>1, <3>2 DEF SettledIsPast, Claimed
  <2>5. ClaimIsExclusive' /\ CopyIsFresh' /\ OccurrenceHasOneFate'
    BY <1>0, <2>1 DEF ClaimIsExclusive, CopyIsFresh, OccurrenceHasOneFate, Claimed, Unserved
  <2> QED
    BY <2>2, <2>3, <2>4, <2>5 DEF ScheduleInv
<1>2. CASE Retarget
  BY <1>0, <1>2, <1>b DEF Retarget, RowsTyped
<1>3. ASSUME NEW c \in Crons \cup {Never}, Save(c) PROVE ScheduleInv'
  <2>1. /\ cron' = c /\ due' = (IF c = Never THEN 0 ELSE NextRecurrence(c, clock))
        /\ UNCHANGED <<lastRun, clock, target, worker, fired, skipped>>
    BY <1>3 DEF Save
  <2>2. due' \in Times /\ (cron' # Never => clock < due')
    BY <1>a, <2>1, RecurrenceIsLater
  <2>3. RowsTyped'
    BY <1>0, <2>1, <2>2 DEF RowsTyped
  <2>4. ClocksAgree'
    BY <1>0, <1>a, <2>1, <2>2 DEF ClocksAgree
  <2>5. \A w \in Workers : worker[w].due <= clock /\ worker[w].due \in Nat
    BY <1>0, <1>a DEF ClocksAgree, Dispatches
  <2>6. SettledIsPast'
    <3>1. \A p \in Hosts \X Times : p[2] \in Nat
      BY <1>a
    <3>2. skipped \subseteq Nat
      BY <1>0, <1>a DEF RowsTyped
    <3> QED
      BY <1>0, <1>a, <2>1, <2>2, <2>5, <3>1, <3>2 DEF SettledIsPast, Claimed
  <2>7. CopyIsFresh'
    BY <1>a, <2>1, <2>2, <2>5 DEF CopyIsFresh
  <2>8. ClaimIsExclusive' /\ OccurrenceHasOneFate'
    BY <1>0, <2>1 DEF ClaimIsExclusive, OccurrenceHasOneFate, Claimed, Unserved
  <2> QED
    BY <2>3, <2>4, <2>6, <2>7, <2>8 DEF ScheduleInv
<1>4. ASSUME NEW h \in Hosts, OtherRun(h) \/ RunEnds(h) PROVE ScheduleInv'
  BY <1>0, <1>4, <1>b DEF OtherRun, RunEnds, RowsTyped
<1>5. ASSUME NEW w \in Workers, ListDue(w) PROVE ScheduleInv'
  <2> DEFINE d == [pc |-> "claim", now |-> clock, cron |-> cron, due |-> due, last |-> lastRun, todo |-> {}]
  <2>1. UNCHANGED <<rowVars, worldVars, fired, skipped>> /\ worker' = [worker EXCEPT ![w] = d]
        /\ cron # Never /\ due <= clock
    BY <1>5 DEF ListDue, IsDue
  <2>2. d \in Dispatches
    BY <1>0, <1>a, <2>1 DEF RowsTyped, Dispatches, WorkerPcs
  <2>3. worker'[w] = d /\ \A x \in Workers \ {w} : worker'[x] = worker[x]
    BY <1>a, <2>1
  <2>4. RowsTyped' /\ ClocksAgree' /\ CopyIsFresh'
    BY <1>0, <1>a, <2>1, <2>2, <2>3 DEF RowsTyped, ClocksAgree, CopyIsFresh
  <2>5. ~Claimed(w)' /\ \A x \in Workers \ {w} : Claimed(x)' <=> Claimed(x)
    BY <2>3 DEF Claimed
  <2>6. SettledIsPast' /\ OccurrenceHasOneFate'
    BY <1>0, <2>1, <2>3, <2>5 DEF SettledIsPast, OccurrenceHasOneFate
  <2>7. ClaimIsExclusive'
    BY <1>0, <2>1, <2>3, <2>5 DEF ClaimIsExclusive, Unserved
  <2> QED
    BY <2>4, <2>6, <2>7 DEF ScheduleInv
<1>6. ASSUME NEW w \in Workers, Claim(w) PROVE ScheduleInv'
  <2> DEFINE d == worker[w]
  <2>1. d \in Dispatches /\ d.pc = "claim" /\ d.now <= clock /\ d.due <= d.now
    BY <1>0, <1>6, <1>a DEF ClocksAgree, Claim
  <2>2. CASE ~Claims(d)
    <3>1. worker' = [worker EXCEPT ![w] = Off] /\ UNCHANGED <<rowVars, worldVars, fired, skipped>>
      BY <1>6, <2>2 DEF Claim, Done
    <3>2. worker'[w] = Off
      BY <1>a, <3>1
    <3>3. MovesOn(w) /\ \A h \in Hosts : ~Unserved(w, h)'
      BY <1>a, <3>1, <3>2, OffTyped DEF MovesOn, Claimed, Unserved, Off
    <3> QED
      BY <3>1, <3>3, MovesOnKeeps
  <2>3. CASE Claims(d)
    <3>1. cron # Never /\ due = d.due /\ UNCHANGED <<cron, worldVars, fired>>
          /\ due' = NextRecurrence(d.cron, d.now)
      BY <1>6, <2>3 DEF Claim, Claims, NextOf
    <3>2. d.cron \in Crons /\ d.now \in 0 .. MaxTime /\ d.due \in Times /\ d.last \in Times
      BY <2>1 DEF Dispatches
    <3>3. due' \in Times /\ due' > d.now /\ due' > due
      BY <1>a, <2>1, <3>1, <3>2, RecurrenceIsLater
    <3>4. /\ lastRun' \in {lastRun, d.now}
          /\ \/ worker' = [worker EXCEPT ![w] = Off] /\ skipped' = skipped \cup {d.due}
             \/ worker' = [worker EXCEPT ![w].pc = "targets"] /\ skipped' = skipped
      BY <1>0, <1>6, <2>1, <2>3, <3>1 DEF Claim, Done, Goto, CopyIsFresh
    <3>5. /\ \A x \in Workers \ {w} : worker'[x] = worker[x]
          /\ \/ worker'[w] = Off /\ skipped' = skipped \cup {d.due}
             \/ worker'[w] = [d EXCEPT !.pc = "targets"] /\ skipped' = skipped
      BY <1>a, <3>4
    <3>6. worker'[w] \in Dispatches /\ worker' \in [Workers -> Dispatches]
      <4>1. [d EXCEPT !.pc = "targets"] \in Dispatches
        BY <2>1 DEF Dispatches, WorkerPcs
      <4>2. worker'[w] \in Dispatches
        BY <3>5, <4>1, OffTyped
      <4>3. worker' = [worker EXCEPT ![w] = worker'[w]]
        BY <1>a, <3>4
      <4> QED
        BY <1>a, <4>2, <4>3
    <3>7. worker'[w].pc \in {"idle", "targets"} /\ worker'[w].now <= clock /\ worker'[w].due <= worker'[w].now
      BY <1>a, <2>1, <3>5 DEF Off, Dispatches
    <3>8. Claimed(w)' => worker'[w].due = due /\ skipped' = skipped
      BY <2>1, <3>1, <3>5 DEF Claimed, Off, Dispatches
    <3>9. \A x \in Workers \ {w} : /\ Claimed(x)' => Claimed(x) /\ worker[x].due < due
                                   /\ \A h \in Hosts : Unserved(x, h)' => Unserved(x, h)
      BY <1>0, <3>1, <3>5 DEF Claimed, Unserved, SettledIsPast
    <3>10. RowsTyped'
      BY <1>0, <1>a, <3>1, <3>2, <3>3, <3>4, <3>6 DEF RowsTyped
    <3>11. ClocksAgree'
      BY <1>0, <1>a, <2>1, <3>1, <3>2, <3>3, <3>4, <3>5, <3>7 DEF ClocksAgree
    <3>12. SettledIsPast'
      <4>1. \A x \in Workers : Claimed(x)' => worker'[x].due < due'
        <5>1. \A x \in Workers : worker[x].due \in Nat
          BY <1>a DEF Dispatches
        <5> QED
          BY <1>a, <3>3, <3>5, <3>8, <3>9, <5>1
      <4>2. \A o \in skipped' : o <= clock /\ o < due'
        <5>1. skipped \subseteq Nat
          BY <1>0, <1>a DEF RowsTyped
        <5> QED
          BY <1>0, <1>a, <2>1, <3>1, <3>2, <3>3, <3>4, <5>1 DEF SettledIsPast
      <4>3. \A p \in Hosts \X Times : fired[p] # 0 => p[2] <= clock /\ p[2] < due'
        <5>1. \A p \in Hosts \X Times : p[2] \in Nat
          BY <1>a
        <5> QED
          BY <1>0, <1>a, <3>1, <3>3, <5>1 DEF SettledIsPast
      <4> QED
        BY <3>1, <4>1, <4>2, <4>3 DEF SettledIsPast
    <3>13. CopyIsFresh'
      <4>1. ASSUME NEW x \in Workers, worker'[x].pc = "claim" PROVE worker'[x].due < due'
        <5>1. x # w /\ worker'[x] = worker[x]
          BY <3>5, <3>7, <4>1
        <5>2. worker[x].due <= due /\ worker[x].due \in Nat
          BY <1>0, <1>a, <3>1, <4>1, <5>1 DEF CopyIsFresh, Dispatches
        <5> QED
          BY <1>a, <3>3, <5>1, <5>2
      <4>2. \A x \in Workers : worker'[x].due \in Nat
        BY <1>a, <3>6 DEF Dispatches
      <4> QED
        BY <1>a, <3>3, <4>1, <4>2 DEF CopyIsFresh
    <3>14. \A h \in Hosts : fired[<<h, due>>] = 0
      BY <1>0, <1>a, <3>1 DEF SettledIsPast
    <3>15. due \notin skipped
      BY <1>0, <1>a, <3>1 DEF SettledIsPast
    <3>16. \A x \in Workers : worker[x].due \in Nat
      BY <1>a DEF Dispatches
    <3>17. ClaimIsExclusive'
      <4>1. \A x \in Workers : Claimed(x)' => worker'[x].due \notin skipped'
        BY <1>0, <1>a, <3>1, <3>4, <3>5, <3>8, <3>9, <3>15, <3>16 DEF ClaimIsExclusive
      <4>2. \A x, y \in Workers : x # y /\ Claimed(x)' /\ Claimed(y)' => worker'[x].due # worker'[y].due
        BY <1>0, <1>a, <3>5, <3>8, <3>9, <3>16 DEF ClaimIsExclusive
      <4>3. \A x \in Workers, h \in Hosts :
              Claimed(x)' /\ Unserved(x, h)' => fired'[<<h, worker'[x].due>>] = 0
        BY <1>0, <3>1, <3>5, <3>8, <3>9, <3>14 DEF ClaimIsExclusive
      <4> QED
        BY <4>1, <4>2, <4>3 DEF ClaimIsExclusive
    <3>18. OccurrenceHasOneFate'
      <4>1. \A h \in Hosts : fired[<<h, d.due>>] = 0
        BY <3>1, <3>14
      <4>2. \A p \in Hosts \X Times : p[2] = d.due => fired[p] = 0
        BY <4>1
      <4> QED
        BY <1>0, <3>1, <3>4, <4>2 DEF OccurrenceHasOneFate
    <3> QED
      BY <3>10, <3>11, <3>12, <3>13, <3>17, <3>18 DEF ScheduleInv
  <2> QED
    BY <2>2, <2>3
<1>7. ASSUME NEW w \in Workers, CreateRun(w), HostFree(First(worker[w])) PROVE ScheduleInv'
  <2> DEFINE d == worker[w]
             h0 == First(d)
  <2>1. d \in Dispatches /\ d.pc = "start" /\ h0 \in d.todo /\ h0 \in Hosts /\ d.due \in Times
    BY <1>7, <1>a DEF CreateRun, First, Dispatches
  <2>2. /\ fired' = [fired EXCEPT ![<<h0, d.due>>] = IF @ < 2 THEN @ + 1 ELSE @]
        /\ worker' = [worker EXCEPT ![w].pc = "enqueue"]
        /\ UNCHANGED <<rowVars, worldVars, skipped>>
    BY <1>7 DEF CreateRun, Goto
  <2>3. fired[<<h0, d.due>>] = 0 /\ d.due \notin skipped /\ Claimed(w)
        /\ \A x \in Workers \ {w} : Claimed(x) => worker[x].due # d.due
    BY <1>0, <2>1 DEF ClaimIsExclusive, Claimed, Unserved
  <2>4. worker'[w] = [d EXCEPT !.pc = "enqueue"] /\ \A x \in Workers \ {w} : worker'[x] = worker[x]
    BY <1>a, <2>2
  <2>5. /\ worker'[w] \in Dispatches /\ worker'[w].due = d.due /\ worker'[w].now = d.now
        /\ worker'[w].todo = d.todo /\ worker'[w].pc = "enqueue"
    BY <2>1, <2>4 DEF Dispatches, WorkerPcs
  <2>6. fired \in [Hosts \X Times -> 0 .. 2] /\ <<h0, d.due>> \in Hosts \X Times
    BY <1>0, <2>1 DEF RowsTyped
  <2> HIDE DEF d, h0
  <2>7. fired'[<<h0, d.due>>] = 1 /\ \A p \in Hosts \X Times : p # <<h0, d.due>> => fired'[p] = fired[p]
    BY <2>2, <2>3, <2>6
  <2>8. worker' \in [Workers -> Dispatches] /\ fired' \in [Hosts \X Times -> 0 .. 2]
    <3>1. worker' \in [Workers -> Dispatches]
      <4>1. worker' = [worker EXCEPT ![w] = worker'[w]]
        BY <1>a, <2>2
      <4> QED
        BY <1>a, <2>5, <4>1
    <3> QED
      BY <2>2, <2>6, <3>1
  <2>9. \A x \in Workers : Claimed(x)' => Claimed(x) /\ worker'[x].due = worker[x].due
    BY <2>3, <2>4, <2>5 DEF Claimed, d
  <2>10. RowsTyped' /\ ClocksAgree' /\ CopyIsFresh'
    BY <1>0, <2>2, <2>4, <2>5, <2>8 DEF RowsTyped, ClocksAgree, CopyIsFresh, d
  <2>11. SettledIsPast'
    <3>1. d.due <= clock /\ (cron # Never => d.due < due)
      BY <1>0, <1>a, <2>1, <2>3 DEF SettledIsPast, ClocksAgree, Dispatches, d
    <3> QED
      BY <1>0, <2>2, <2>6, <2>7, <2>9, <3>1 DEF SettledIsPast
  <2>12. ClaimIsExclusive'
    <3>1. \A x \in Workers \ {w}, h \in Hosts : Unserved(x, h)' => Unserved(x, h)
      BY <2>4 DEF Unserved
    <3>2. ASSUME NEW h \in Hosts, Unserved(w, h)' PROVE Unserved(w, h) /\ h # h0
      BY <2>1, <2>5, <3>2 DEF Unserved, First, d, h0
    <3>3. ASSUME NEW x \in Workers, NEW h \in Hosts, Claimed(x)', Unserved(x, h)'
          PROVE  fired'[<<h, worker'[x].due>>] = 0
      <4>1. <<h, worker'[x].due>> # <<h0, d.due>>
        BY <2>3, <2>9, <3>2, <3>3
      <4>2. Unserved(x, h) /\ Claimed(x) /\ worker'[x].due = worker[x].due
        BY <2>9, <3>1, <3>2, <3>3
      <4>3. <<h, worker'[x].due>> \in Hosts \X Times /\ fired[<<h, worker'[x].due>>] = 0
        BY <1>0, <1>a, <4>2 DEF ClaimIsExclusive, Dispatches
      <4> QED
        BY <2>7, <4>1, <4>3
    <3> QED
      BY <1>0, <2>2, <2>9, <3>3 DEF ClaimIsExclusive
  <2>13. OccurrenceHasOneFate'
    BY <1>0, <2>2, <2>3, <2>6, <2>7 DEF OccurrenceHasOneFate
  <2> QED
    BY <2>10, <2>11, <2>12, <2>13 DEF ScheduleInv
<1>8. ASSUME NEW w \in Workers, TargetHosts(w) PROVE ScheduleInv'
  <2>1. worker' = [worker EXCEPT ![w].pc = "start", ![w].todo = target] /\ worker[w].pc = "targets"
        /\ UNCHANGED <<rowVars, worldVars, fired, skipped>>
    BY <1>8 DEF TargetHosts
  <2>2. worker'[w] = [worker[w] EXCEPT !.pc = "start", !.todo = target] /\ target \subseteq Hosts
    BY <1>0, <1>a, <2>1 DEF RowsTyped
  <2>3. MovesOn(w) /\ \A h \in Hosts : Unserved(w, h)' => Unserved(w, h)
    BY <1>0, <1>a, <2>1, <2>2 DEF MovesOn, Claimed, Unserved, Dispatches, WorkerPcs, ClocksAgree
  <2> QED
    BY <2>1, <2>3, MovesOnKeeps
\* The steps after which a dispatch has done with its first host.
<1>c. ASSUME NEW w \in Workers, worker[w].pc \in {"start", "enqueue", "cancel"},
             worker' = [worker EXCEPT ![w] = AfterFirst(worker[w], "start")],
             UNCHANGED <<rowVars, worldVars, fired, skipped>>
      PROVE  ScheduleInv'
  <2>1. worker'[w] = [worker[w] EXCEPT !.pc = "start", !.todo = @ \ {First(worker[w])}]
    BY <1>a, <1>c DEF AfterFirst
  <2>2. /\ worker'[w].pc = "start" /\ worker'[w].todo = worker[w].todo \ {First(worker[w])}
        /\ worker'[w].due = worker[w].due /\ worker'[w].now = worker[w].now
        /\ worker'[w] \in Dispatches
    BY <1>a, <2>1 DEF Dispatches, WorkerPcs
  <2>3. worker' = [worker EXCEPT ![w] = worker'[w]]
    BY <1>a, <1>c
  <2>4. MovesOn(w)
    BY <1>0, <1>c, <2>2, <2>3 DEF MovesOn, Claimed, ClocksAgree
  <2>5. \A h \in Hosts : Unserved(w, h)' => Unserved(w, h)
    BY <1>c, <2>2 DEF Unserved
  <2> QED
    BY <1>c, <2>4, <2>5, MovesOnKeeps
<1>9. ASSUME NEW w \in Workers, CreateRun(w), ~HostFree(First(worker[w])) PROVE ScheduleInv'
  BY <1>9, <1>c DEF CreateRun
<1>10. ASSUME NEW w \in Workers, Enqueue(w) \/ Cancel(w) PROVE ScheduleInv'
  BY <1>10, <1>c DEF Enqueue, Cancel
<1>11. ASSUME NEW w \in Workers, EnqueueFails(w) PROVE ScheduleInv'
  <2>1. worker' = [worker EXCEPT ![w].pc = "cancel"] /\ worker[w].pc = "enqueue"
        /\ UNCHANGED <<rowVars, worldVars, fired, skipped>>
    BY <1>11 DEF EnqueueFails, Goto
  <2>2. worker'[w] = [worker[w] EXCEPT !.pc = "cancel"]
    BY <1>a, <2>1
  <2>3. MovesOn(w)
    BY <1>0, <1>a, <2>1, <2>2 DEF MovesOn, Claimed, Dispatches, WorkerPcs, ClocksAgree
  <2>4. worker'[w].todo = worker[w].todo /\ worker'[w].pc = "cancel"
    BY <1>a, <2>2 DEF Dispatches
  <2>5. ASSUME NEW h \in Hosts, Unserved(w, h)' PROVE Unserved(w, h)
    <3>1. First(worker'[w]) = First(worker[w])
      BY <2>4 DEF First
    <3> QED
      BY <2>1, <2>4, <2>5, <3>1 DEF Unserved
  <2> QED
    BY <2>1, <2>3, <2>5, MovesOnKeeps
<1>12. ASSUME NEW w \in Workers, Dispatched(w) \/ Crash(w) PROVE ScheduleInv'
  <2>1. worker' = [worker EXCEPT ![w] = Off] /\ UNCHANGED <<rowVars, worldVars, fired, skipped>>
    BY <1>12 DEF Dispatched, Crash, Done
  <2>2. worker'[w] = Off
    BY <1>a, <2>1
  <2>3. MovesOn(w) /\ \A h \in Hosts : ~Unserved(w, h)'
    BY <1>a, <2>1, <2>2, OffTyped DEF MovesOn, Claimed, Unserved, Off
  <2> QED
    BY <2>1, <2>3, MovesOnKeeps
<1>13. CASE UNCHANGED schedVars
  BY <1>0, <1>13, <1>b DEF schedVars, RowsTyped
<1> QED
  BY <1>1, <1>2, <1>3, <1>4, <1>5, <1>6, <1>7, <1>8, <1>9, <1>10, <1>11, <1>12, <1>13
  DEF ScheduleNext, Dispatch

LEMMA ScheduleInvariant == ScheduleSpec => []ScheduleInv
BY InitHolds, ScheduleStep, PTL DEF ScheduleSpec

\* An occurrence is fired by one dispatch or skipped by one, however dispatches overlap and
\* whatever is saved in between: ClaimPatchPolicyRecurrence's compare-and-swap.
THEOREM OccurrencesHaveOneFate == ScheduleSpec => []OccurrenceHasOneFate
<1>1. ScheduleInv => OccurrenceHasOneFate
  BY DEF ScheduleInv
<1> QED
  BY <1>1, ScheduleInvariant, PTL

\* recurrence_last_run_at never goes back: a dispatch that claims a missed occurrence writes
\* the value it read, and only if nobody wrote since.
THEOREM LastRunNeverGoesBack == ScheduleSpec => LastRunIsKept
<1>1. ScheduleInv /\ [ScheduleNext]_schedVars => [lastRun' >= lastRun]_schedVars
  <2> SUFFICES ASSUME ScheduleInv, ScheduleNext PROVE lastRun' >= lastRun
    OBVIOUS
  <2>0. lastRun \in Nat /\ worker \in [Workers -> Dispatches] /\ ClocksAgree /\ CopyIsFresh
    BY ScheduleAssumption DEF ScheduleInv, RowsTyped, Times
  <2>1. ASSUME NEW w \in Workers, Claim(w) PROVE lastRun' >= lastRun
    <3>1. worker[w].now \in Nat /\ worker[w].due \in Nat /\ worker[w].due <= worker[w].now
      BY <2>0, ScheduleAssumption DEF Dispatches, Times, ClocksAgree
    <3>2. CASE Claims(worker[w])
      <4>1. lastRun < worker[w].due /\ worker[w].last = lastRun
        BY <2>0, <2>1, <3>2 DEF Claim, Claims, ClocksAgree, CopyIsFresh
      <4> QED
        BY <2>0, <2>1, <3>1, <3>2, <4>1 DEF Claim
    <3>3. CASE ~Claims(worker[w])
      BY <2>0, <2>1, <3>3 DEF Claim
    <3> QED
      BY <3>2, <3>3
  <2>2. (\A w \in Workers : ~Claim(w)) => lastRun' = lastRun
    BY DEF ScheduleNext, Dispatch, Tick, Retarget, Save, OtherRun, RunEnds, ListDue, TargetHosts,
       CreateRun, Enqueue, Cancel, Dispatched, EnqueueFails, Crash, rowVars
  <2> QED
    BY <2>0, <2>1, <2>2
<1> QED
  BY <1>1, ScheduleInvariant, PTL DEF ScheduleSpec, LastRunIsKept

\* A created run has a dispatch that will enqueue or cancel it, unless a crash took that
\* dispatch or its cancellation failed: the branches after Enqueue.
THEOREM CreatedRunsAreServed == ScheduleSpec => []NoOrphanedRun
<1> DEFINE RunTyped == run \in [Hosts -> RunStates]
<1>1. ScheduleInit => RunTyped /\ NoOrphanedRun
  BY DEF ScheduleInit, NoOrphanedRun, RunStates
<1>2. RunTyped /\ [ScheduleNext]_schedVars => RunTyped'
  BY DEF ScheduleNext, Dispatch, Tick, Retarget, Save, OtherRun, RunEnds, ListDue, Claim, TargetHosts,
     CreateRun, Enqueue, Cancel, CancelOrphan, Dispatched, EnqueueFails, Crash, schedVars, histVars,
     RunStates
<1>3. ScheduleInv /\ RunTyped /\ NoOrphanedRun /\ [ScheduleNext]_schedVars => NoOrphanedRun'
  <2> SUFFICES ASSUME ScheduleInv, RunTyped, NoOrphanedRun, [ScheduleNext]_schedVars,
                      NEW h \in Hosts \ orphans', run'[h] = "created"
               PROVE  \E w \in Workers : Holds(w)' /\ First(worker'[w]) = h
    BY DEF NoOrphanedRun
  <2> DEFINE Holder(w) == Holds(w) /\ First(worker[w]) = h
  <2>0. worker \in [Workers -> Dispatches]
    BY DEF ScheduleInv, RowsTyped
  <2>a. ASSUME h \notin orphans, run[h] = "created" PROVE \E w \in Workers : Holder(w)
    BY <2>a DEF NoOrphanedRun
  <2> HIDE DEF Holder
  <2>b. ASSUME NEW w \in Workers, Holder(w), worker'[w] = worker[w]
        PROVE  \E x \in Workers : Holds(x)' /\ First(worker'[x]) = h
    BY <2>b DEF Holder, Holds
  <2>1. CASE \E w \in Workers : CreateRun(w) /\ First(worker[w]) = h /\ HostFree(h)
    <3>1. PICK w \in Workers : CreateRun(w) /\ First(worker[w]) = h /\ HostFree(h)
      BY <2>1
    <3>2. worker' = [worker EXCEPT ![w].pc = "enqueue"]
      BY <3>1 DEF CreateRun, Goto
    <3>3. worker'[w].pc = "enqueue" /\ worker'[w].todo = worker[w].todo
      BY <2>0, <3>2 DEF Dispatches
    <3> QED
      BY <3>1, <3>3 DEF Holds, First
  <2>2. ASSUME NEW w \in Workers, EnqueueFails(w)
        PROVE  \E x \in Workers : Holds(x)' /\ First(worker'[x]) = h
    <3>1. worker' = [worker EXCEPT ![w].pc = "cancel"] /\ UNCHANGED <<run, orphans>>
      BY <2>2 DEF EnqueueFails, Goto
    <3>2. worker'[w].pc = "cancel" /\ worker'[w].todo = worker[w].todo
          /\ \A x \in Workers \ {w} : worker'[x] = worker[x]
      BY <2>0, <3>1 DEF Dispatches
    <3>3. PICK x \in Workers : Holder(x)
      BY <2>a, <3>1
    <3>4. CASE x = w
      BY <3>2, <3>3, <3>4 DEF Holder, Holds, First
    <3>5. CASE x # w
      BY <2>b, <3>2, <3>3, <3>5
    <3> QED
      BY <3>4, <3>5
  <2> DEFINE Passes(w) ==
        \/ ListDue(w) \/ Claim(w) \/ TargetHosts(w) \/ Enqueue(w) \/ Cancel(w) \/ Dispatched(w)
        \/ Crash(w)
        \/ CreateRun(w) /\ ~(First(worker[w]) = h /\ HostFree(h))
  <2>3. ASSUME NEW w \in Workers, Passes(w)
        PROVE  \E x \in Workers : Holds(x)' /\ First(worker'[x]) = h
    <3>1. \A x \in Workers \ {w} : worker'[x] = worker[x]
      BY <2>0, <2>3 DEF ListDue, Claim, TargetHosts, Enqueue, Cancel, Dispatched, Crash, CreateRun, Goto, Done
    <3>2. h \notin orphans
      BY <2>3 DEF ListDue, Claim, TargetHosts, Enqueue, Cancel, Dispatched, Crash, CreateRun, histVars
    <3>3. run \in [Hosts -> RunStates]
      OBVIOUS
    <3>4. run[h] = "created" /\ ~Holder(w)
      <4>1. CASE Enqueue(w) \/ Cancel(w)
        <5>1. \/ \E s \in {"queued", "over"} : run' = [run EXCEPT ![First(worker[w])] = s]
              \/ UNCHANGED run /\ orphans' = orphans \cup {First(worker[w])}
          BY <4>1 DEF Enqueue, Cancel, CancelOrphan
        <5>2. First(worker[w]) # h
          BY <3>3, <5>1
        <5> QED
          BY <3>3, <5>1, <5>2 DEF Holder
      <4>2. CASE CreateRun(w)
        <5>1. \/ UNCHANGED run
              \/ run' = [run EXCEPT ![First(worker[w])] = "created"] /\ HostFree(First(worker[w]))
          BY <4>2 DEF CreateRun
        <5>2. worker[w].pc = "start"
          BY <4>2 DEF CreateRun
        <5>3. First(worker[w]) = h /\ HostFree(h) => run[h] # "created"
          BY DEF HostFree
        <5>4. CASE UNCHANGED run
          BY <5>2, <5>4 DEF Holder, Holds
        <5>5. CASE run' = [run EXCEPT ![First(worker[w])] = "created"] /\ HostFree(First(worker[w]))
          <6>1. First(worker[w]) # h
            <7>1. ~(First(worker[w]) = h /\ HostFree(h)) \/ worker[w].pc # "start" \/ worker[w].todo = {}
                  \/ worker' = [worker EXCEPT ![w] = Off]
              BY <2>3 DEF ListDue, Claim, TargetHosts, Enqueue, Cancel, Dispatched, Crash, Done
            <7>2. worker[w].pc = "start" /\ worker[w].todo # {} /\ worker'[w].pc = "enqueue"
              BY <2>0, <4>2, <5>5 DEF CreateRun, Goto, Dispatches
            <7> QED
              BY <2>0, <5>5, <7>1, <7>2 DEF Off
          <6> QED
            BY <3>3, <5>2, <5>5, <6>1 DEF Holder, Holds
        <5> QED
          BY <5>1, <5>4, <5>5
      <4>3. CASE Crash(w)
        BY <4>3 DEF Crash, Holder
      <4>4. CASE ListDue(w) \/ Claim(w) \/ TargetHosts(w) \/ Dispatched(w)
        BY <4>4 DEF ListDue, Claim, TargetHosts, Dispatched, Holder, Holds, histVars
      <4> QED
        BY <2>3, <4>1, <4>2, <4>3, <4>4
    <3> QED
      BY <2>a, <2>b, <3>1, <3>2, <3>4
  <2>4. ASSUME worker' = worker, orphans' = orphans, run[h] = "created"
        PROVE  \E x \in Workers : Holds(x)' /\ First(worker'[x]) = h
    BY <2>4, <2>a, <2>b
  <2>5. ASSUME NEW g \in Hosts, OtherRun(g) \/ RunEnds(g)
        PROVE  \E x \in Workers : Holds(x)' /\ First(worker'[x]) = h
    <3>1. run[h] = "created" /\ UNCHANGED <<worker, orphans>>
      BY <2>5 DEF OtherRun, RunEnds, histVars
    <3> QED
      BY <2>4, <3>1
  <2>6. CASE Tick \/ Retarget \/ (\E c \in Crons \cup {Never} : Save(c)) \/ UNCHANGED schedVars
    <3>1. UNCHANGED <<worker, orphans, run>>
      BY <2>6 DEF Tick, Retarget, Save, schedVars, histVars
    <3> QED
      BY <2>4, <3>1
  <2>7. ASSUME NEW w \in Workers, Dispatch(w) \/ EnqueueFails(w) \/ Crash(w)
        PROVE  \E x \in Workers : Holds(x)' /\ First(worker'[x]) = h
    <3>1. CASE CreateRun(w) /\ First(worker[w]) = h /\ HostFree(h)
      BY <2>1, <3>1
    <3>2. CASE EnqueueFails(w)
      BY <2>2, <3>2
    <3>3. CASE Passes(w)
      <4> HIDE DEF Passes
      <4> QED
        BY <2>3, <3>3
    <3> QED
      BY <2>7, <3>1, <3>2, <3>3 DEF Dispatch
  <2> QED
    BY <2>5, <2>6, <2>7 DEF ScheduleNext
<1> QED
  BY <1>1, <1>2, <1>3, ScheduleInvariant, PTL DEF ScheduleSpec

\* The rest of the types: a dispatch that holds a created run knows its host.
HolderHasHost == \A w \in Workers : Holds(w) => worker[w].todo # {}

WorldTyped ==
  /\ run \in [Hosts -> RunStates] /\ orphans \subseteq Hosts
  /\ saves \in 0 .. MaxSaves /\ faults \in 0 .. MaxFaults /\ HolderHasHost

LEMMA WorldStep == ScheduleInv /\ WorldTyped /\ [ScheduleNext]_schedVars => WorldTyped'
<1> SUFFICES ASSUME ScheduleInv, WorldTyped, [ScheduleNext]_schedVars PROVE WorldTyped'
  OBVIOUS
<1>1. worker \in [Workers -> Dispatches]
  BY DEF ScheduleInv, RowsTyped
<1>2. ASSUME NEW w \in Workers, Holds(w) PROVE First(worker[w]) \in Hosts
  BY <1>1, <1>2 DEF WorldTyped, HolderHasHost, First, Dispatches
<1>3. run' \in [Hosts -> RunStates]
  BY DEF WorldTyped, ScheduleNext, Dispatch, Tick, Retarget, Save, OtherRun, RunEnds, ListDue, Claim,
     TargetHosts, CreateRun, Enqueue, Cancel, CancelOrphan, Dispatched, EnqueueFails, Crash, schedVars,
     histVars, RunStates
<1>4. orphans' \subseteq Hosts /\ saves' \in 0 .. MaxSaves /\ faults' \in 0 .. MaxFaults
  <2>0. /\ MaxSaves \in Nat /\ MaxFaults \in Nat
        /\ orphans \subseteq Hosts /\ saves \in 0 .. MaxSaves /\ faults \in 0 .. MaxFaults
    BY ScheduleAssumption DEF WorldTyped
  <2>1. ASSUME NEW c \in Crons \cup {Never}, Save(c)
        PROVE  saves < MaxSaves /\ saves' = saves + 1 /\ UNCHANGED <<orphans, faults>>
    BY <2>1 DEF Save, histVars
  <2>2. ASSUME NEW w \in Workers, EnqueueFails(w)
        PROVE  faults < MaxFaults /\ faults' = faults + 1 /\ UNCHANGED <<orphans, saves>>
    BY <2>2 DEF EnqueueFails, worldVars
  <2>3. ASSUME NEW w \in Workers, Crash(w)
        PROVE  faults < MaxFaults /\ faults' = faults + 1 /\ orphans' \subseteq Hosts /\ UNCHANGED saves
    BY <1>2, <2>0, <2>3 DEF Crash, worldVars
  <2>4. ASSUME NEW w \in Workers, Dispatch(w) PROVE orphans' \subseteq Hosts /\ UNCHANGED <<saves, faults>>
    <3>1. CASE Cancel(w)
      BY <1>2, <2>0, <3>1 DEF Cancel, Holds, worldVars
    <3>2. CASE ~Cancel(w)
      BY <2>0, <2>4, <3>2 DEF Dispatch, ListDue, Claim, TargetHosts, CreateRun, Enqueue, Dispatched,
         worldVars, histVars
    <3> QED
      BY <3>1, <3>2
  <2>5. ASSUME Tick \/ Retarget \/ (\E h \in Hosts : OtherRun(h) \/ RunEnds(h)) \/ UNCHANGED schedVars
        PROVE  UNCHANGED <<orphans, saves, faults>>
    BY <2>5 DEF Tick, Retarget, OtherRun, RunEnds, schedVars, worldVars, histVars
  <2>6. \/ orphans' \subseteq Hosts /\ UNCHANGED <<saves, faults>>
        \/ saves < MaxSaves /\ saves' = saves + 1 /\ UNCHANGED <<orphans, faults>>
        \/ faults < MaxFaults /\ faults' = faults + 1 /\ orphans' \subseteq Hosts /\ UNCHANGED saves
    BY <2>0, <2>1, <2>2, <2>3, <2>4, <2>5 DEF ScheduleNext
  <2> QED
    BY <2>0, <2>6
<1>5. HolderHasHost'
  <2> SUFFICES ASSUME NEW x \in Workers, Holds(x)' PROVE worker'[x].todo # {}
    BY DEF HolderHasHost
  <2>1. CASE worker'[x] = worker[x]
    BY <2>1 DEF WorldTyped, HolderHasHost, Holds
  <2>2. ASSUME NEW w \in Workers, Dispatch(w) \/ EnqueueFails(w) \/ Crash(w), w # x
        PROVE  worker'[x] = worker[x]
    <3>1. CASE ListDue(w) \/ Claim(w) \/ TargetHosts(w) \/ Dispatched(w) \/ Crash(w)
      BY <1>1, <2>2, <3>1 DEF ListDue, Claim, TargetHosts, Dispatched, Crash, Goto, Done
    <3>2. CASE CreateRun(w) \/ Enqueue(w) \/ Cancel(w) \/ EnqueueFails(w)
      BY <1>1, <2>2, <3>2 DEF CreateRun, Enqueue, Cancel, EnqueueFails, Goto
    <3> QED
      BY <2>2, <3>1, <3>2 DEF Dispatch
  <2>3. CASE CreateRun(x) \/ EnqueueFails(x)
    <3>1. worker[x].todo # {}
      BY <2>3 DEF CreateRun, EnqueueFails, WorldTyped, HolderHasHost, Holds
    <3>2. worker' = [worker EXCEPT ![x].pc = "enqueue"] \/ worker' = [worker EXCEPT ![x].pc = "cancel"]
          \/ worker' = [worker EXCEPT ![x] = AfterFirst(worker[x], "start")]
      BY <2>3 DEF CreateRun, EnqueueFails, Goto
    <3>3. CASE worker' = [worker EXCEPT ![x].pc = "enqueue"] \/ worker' = [worker EXCEPT ![x].pc = "cancel"]
      BY <1>1, <3>1, <3>3 DEF Dispatches
    <3>4. CASE worker' = [worker EXCEPT ![x] = AfterFirst(worker[x], "start")]
      <4>1. worker'[x].pc = "start"
        BY <1>1, <3>4 DEF AfterFirst, Dispatches
      <4> QED
        BY <4>1 DEF Holds
    <3> QED
      BY <3>2, <3>3, <3>4
  <2>4. CASE ListDue(x) \/ Claim(x) \/ TargetHosts(x) \/ Enqueue(x) \/ Cancel(x) \/ Dispatched(x) \/ Crash(x)
    <3>1. CASE ListDue(x) \/ TargetHosts(x) \/ Dispatched(x) \/ Crash(x)
      <4>1. worker'[x].pc \in {"claim", "start", "idle"}
        BY <1>1, <3>1 DEF ListDue, TargetHosts, Dispatched, Crash, Done, Off, Dispatches
      <4> QED
        BY <4>1 DEF Holds
    <3>2. CASE Claim(x)
      <4>1. worker'[x].pc \in {"targets", "idle"}
        BY <1>1, <3>2 DEF Claim, Goto, Done, Off, Dispatches
      <4> QED
        BY <4>1 DEF Holds
    <3>3. CASE Enqueue(x) \/ Cancel(x)
      <4>1. worker'[x].pc = "start"
        BY <1>1, <3>3 DEF Enqueue, Cancel, AfterFirst, Dispatches
      <4> QED
        BY <4>1 DEF Holds
    <3> QED
      BY <2>4, <3>1, <3>2, <3>3
  <2>5. CASE worker' = worker
    BY <2>1, <2>5
  <2>6. \/ worker' = worker
        \/ \E w \in Workers : Dispatch(w) \/ EnqueueFails(w) \/ Crash(w)
    BY DEF ScheduleNext, Tick, Retarget, Save, OtherRun, RunEnds, schedVars
  <2> QED
    BY <2>1, <2>2, <2>3, <2>4, <2>5, <2>6 DEF Dispatch
<1> QED
  BY <1>3, <1>4, <1>5 DEF WorldTyped

\* The state of a policy's schedule has its type, whatever the sets, the period and the bounds.
THEOREM ScheduleIsTyped == ScheduleSpec => []ScheduleTyped
<1>1. ScheduleInit => WorldTyped
  <2> SUFFICES ASSUME ScheduleInit PROVE WorldTyped
    OBVIOUS
  <2>1. HolderHasHost
    BY DEF ScheduleInit, HolderHasHost, Holds, Off
  <2>2. run \in [Hosts -> RunStates] /\ orphans = {} /\ saves = 0 /\ faults = 0
    BY DEF ScheduleInit, RunStates
  <2> QED
    BY <2>1, <2>2, ScheduleAssumption DEF WorldTyped
<1>2. ScheduleInv /\ WorldTyped => ScheduleTyped
  <2> SUFFICES ASSUME ScheduleInv, WorldTyped PROVE ScheduleTyped
    OBVIOUS
  <2>1. RowsTyped /\ ClocksAgree
    BY DEF ScheduleInv
  <2>2. ASSUME NEW w \in Workers
        PROVE  /\ worker[w].pc \in WorkerPcs /\ worker[w].todo \subseteq Hosts
               /\ worker[w].now \in 0 .. clock /\ worker[w].due <= worker[w].now
    BY <2>1, ScheduleAssumption DEF RowsTyped, ClocksAgree, Dispatches
  <2> QED
    BY <2>1, <2>2 DEF ScheduleTyped, RowsTyped, WorldTyped
<1> QED
  BY <1>1, <1>2, WorldStep, ScheduleInvariant, PTL DEF ScheduleSpec
=============================================================================
