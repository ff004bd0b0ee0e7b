-------------------------- MODULE HostAlertsProofs --------------------------
(***************************************************************************)
(* The host_down alert of a host, for every number of flips of its         *)
(* connection, of delivery tasks and of lost notifications.                *)
(*                                                                         *)
(* The argument: with a delay, a notification that is going to be          *)
(* delivered belongs to the outage the pending marker names, and a claim   *)
(* replaces a marker only when its outage is recovered.                    *)
(***************************************************************************)
EXTENDS HostAlertsRefinement, TLAPS, FiniteSetTheorems

\* The sweep's emission is one of its own steps.
SweepAlone == emitter[Sweeper].pc # "idle" => sweep = "emitting"

\* What still is to be delivered belongs to the pending outage, and there is one of it.
OfPending ==
  /\ \A i \in LiveNotices : pending # 0 /\ notice[i].at = pending
  /\ \A e \in LiveEmitters : pending # 0 /\ emitter[e].at = pending

Alone ==
  /\ \A i, j \in LiveNotices : i = j
  /\ \A e, f \in LiveEmitters : e = f
  /\ LiveNotices = {} \/ LiveEmitters = {}

OneLive == delayed => OfPending /\ Alone

\* A clock that was read is in the past; before the last connect when there was one.
Past(t) == t <= Clock /\ (Connected => t < Clock)

InThePast ==
  /\ Past(pending)
  /\ \A e \in Emitters : emitter[e].pc # "idle" => Past(emitter[e].at)

GreetedHere == greeting # "idle" => Connected

\* The last recovery that OnConnect recorded is on record.
Recorded == delayed => greeted <= cancel

RecoveryInv == InThePast /\ GreetedHere /\ Recorded

-----------------------------------------------------------------------------
(* Types.                                                                  *)
LEMMA ConnectFlips == \A n \in Nat : n % 2 # 0 => (n + 1) % 2 = 0
OBVIOUS

EmitterType == [pc : EmitSteps, at : Times, gen : Times]
NoticeType  == [pc : NoticePcs, at : Times]

LEMMA ClockTyped ==
  ASSUME AlertsTyped
  PROVE  /\ flips \in Nat /\ Clock \in Times /\ Clock \in Nat /\ Clock = 2 * flips + 1
         /\ pending \in Nat /\ cancel \in Nat /\ greeted \in Nat /\ 0 \in Times
         /\ \A e \in Emitters : emitter[e].at \in Times /\ emitter[e].gen \in Times /\ emitter[e].at \in Nat
         /\ \A i \in Notices : notice[i].at \in Times /\ notice[i].at \in Nat
         /\ Sweeper \in Emitters
BY AlertsAssumption DEF AlertsTyped, Clock, Times, Emitters, Sweeper

\* What each step makes of a callback's record.
LEMMA EmitterUpdated ==
  ASSUME AlertsTyped, NEW e \in Emitters, NEW pc \in EmitSteps, NEW t \in Times
  PROVE  /\ [emitter EXCEPT ![e] = Idle] \in [Emitters -> EmitterType]
         /\ [emitter EXCEPT ![e].pc = pc] \in [Emitters -> EmitterType]
         /\ [emitter EXCEPT ![e].at = t] \in [Emitters -> EmitterType]
         /\ [emitter EXCEPT ![e] = [Idle EXCEPT !.pc = pc, !.at = t]] \in [Emitters -> EmitterType]
         /\ [emitter EXCEPT ![e].pc = pc, ![e].gen = t] \in [Emitters -> EmitterType]
<1>1. emitter \in [Emitters -> EmitterType] /\ 0 \in Times
  BY ClockTyped DEF AlertsTyped, EmitterType
<1>2. Idle \in EmitterType /\ [Idle EXCEPT !.pc = pc, !.at = t] \in EmitterType
  BY <1>1 DEF Idle, EmitterType, EmitSteps
<1>3. [emitter[e] EXCEPT !.pc = pc] \in EmitterType /\ [emitter[e] EXCEPT !.at = t] \in EmitterType
  BY <1>1 DEF EmitterType
<1>4. [emitter EXCEPT ![e].pc = pc, ![e].gen = t] = [emitter EXCEPT ![e] = [@ EXCEPT !.pc = pc, !.gen = t]]
  BY <1>1 DEF EmitterType
<1>5. [emitter[e] EXCEPT !.pc = pc, !.gen = t] \in EmitterType
  BY <1>1 DEF EmitterType
<1> QED
  BY <1>1, <1>2, <1>3, <1>4, <1>5

LEMMA CallbackTyped ==
  ASSUME AlertsTyped, NEW e \in Emitters
  PROVE  /\ EmitOver(e) => emitter' \in [Emitters -> EmitterType]
         /\ \A pc \in EmitSteps : Goes(e, pc) => emitter' \in [Emitters -> EmitterType]
<1>1. 0 \in Times /\ "idle" \in EmitSteps
  BY ClockTyped DEF EmitSteps
<1>2. [emitter EXCEPT ![e] = Idle] \in [Emitters -> EmitterType]
  BY <1>1, EmitterUpdated
<1>3. \A pc \in EmitSteps : [emitter EXCEPT ![e].pc = pc] \in [Emitters -> EmitterType]
  BY <1>1, EmitterUpdated
<1> QED
  BY <1>2, <1>3 DEF EmitOver, Goes

LEMMA RecoveryTyped ==
  ASSUME AlertsTyped, NEW t \in Times, NEW force \in BOOLEAN, RecordRecovery(t, force)
  PROVE  pending' \in Times /\ cancel' \in Times /\ dedup' \subseteq Times
BY ClockTyped DEF RecordRecovery, redisVars, AlertsTyped

LEMMA StepTyped == AlertsTyped /\ AlertsNext => AlertsTyped'
<1> SUFFICES ASSUME AlertsTyped, AlertsNext PROVE AlertsTyped'
  OBVIOUS
<1>0. /\ flips \in Nat /\ Clock \in Times /\ 0 \in Times /\ Sweeper \in Emitters
      /\ \A e \in Emitters : emitter[e].at \in Times /\ emitter[e].gen \in Times
      /\ \A i \in Notices : notice[i].at \in Times
  BY ClockTyped
<1> USE DEF redisVars, queueVars, hookVars, hostVars, pastVars
<1>a. /\ delayed \in BOOLEAN /\ flips \in 0 .. MaxFlips /\ overdue \in BOOLEAN
      /\ emitter \in [Emitters -> EmitterType] /\ pending \in Times /\ cancel \in Times
      /\ notice \in [Notices -> NoticeType] /\ alerts \subseteq Notices /\ dedup \subseteq Times
  BY DEF AlertsTyped, EmitterType, NoticeType
\* The parts of the state a step may change.
<1>b. ASSUME UNCHANGED <<hostVars, greeting, saw, queueVars, pastVars>>,
             emitter' \in [Emitters -> EmitterType], pending' \in Times, cancel' \in Times,
             dedup' \subseteq Times,
             sweep' \in {"idle", "decide", "emitting", "resolve", "announce", "cancel"}
      PROVE  AlertsTyped'
  BY <1>b DEF AlertsTyped, EmitterType
<1>c. ASSUME UNCHANGED <<hostVars, hookVars, redisVars, greeted>>, notice' \in [Notices -> NoticeType],
             alerts' \subseteq Notices, missed' \in BOOLEAN, misses' \in 0 .. MaxMisses
      PROVE  AlertsTyped'
  BY <1>c DEF AlertsTyped, NoticeType
<1>d. /\ sweep \in {"idle", "decide", "emitting", "resolve", "announce", "cancel"}
      /\ missed \in BOOLEAN /\ misses \in 0 .. MaxMisses
  BY DEF AlertsTyped
<1>e. ASSUME misses < MaxMisses, misses' = misses + 1, missed' = (missed \/ delayed)
      PROVE  missed' \in BOOLEAN /\ misses' \in 0 .. MaxMisses
  BY <1>a, <1>d, <1>e, AlertsAssumption
<1>1. CASE Disconnect
  <2>1. flips + 1 \in 0 .. MaxFlips /\ 2 * (flips + 1) \in Times
    BY <1>1, <1>a, AlertsAssumption DEF Disconnect, Times
  <2>2. emitter' \in [Emitters -> EmitterType]
    <3>1. CASE flips + 1 \in Emitters
      BY <1>1, <2>1, <3>1, EmitterUpdated DEF Disconnect, EmitSteps
    <3>2. CASE flips + 1 \notin Emitters
      BY <1>1, <1>a, <3>2 DEF Disconnect
    <3> QED
      BY <3>1, <3>2
  <2> QED
    BY <1>1, <2>1, <2>2 DEF Disconnect, AlertsTyped, EmitterType
<1>2. CASE Connect
  <2>1. flips' \in 0 .. MaxFlips
    BY <1>2, <1>a, AlertsAssumption DEF Connect
  <2> QED
    BY <1>2, <2>1 DEF Connect, AlertsTyped
<1>3. CASE ThresholdPasses
  BY <1>3 DEF ThresholdPasses, AlertsTyped
<1>4. CASE BucketPasses \/ AutoResolve
  BY <1>0, <1>4 DEF BucketPasses, AutoResolve, AlertsTyped
<1>5. ASSUME NEW e \in Emitters, Recheck(e) \/ ReadAlerts(e) \/ ReadGeneration(e) \/ ClaimPending(e)
      PROVE  AlertsTyped'
  <2>1. EmitFirst \in EmitSteps /\ {"read", "claim", "dedup"} \subseteq EmitSteps
    BY DEF EmitFirst, EmitSteps
  <2>2. emitter' \in [Emitters -> EmitterType]
    <3>1. CASE Recheck(e) \/ ReadAlerts(e) \/ ClaimPending(e)
      <4>1. EmitOver(e) \/ \E pc \in EmitSteps : Goes(e, pc)
        BY <2>1, <3>1 DEF Recheck, ReadAlerts, ClaimPending
      <4> QED
        BY <4>1, CallbackTyped
    <3>2. CASE ReadGeneration(e)
      BY <1>a, <2>1, <3>2, EmitterUpdated DEF ReadGeneration
    <3> QED
      BY <1>5, <3>1, <3>2
  <2>3. pending' \in Times
    BY <1>0, <1>5, <1>a DEF Recheck, ReadAlerts, ReadGeneration, ClaimPending, Claimed
  <2>4. sweep' \in {sweep, "idle"}
    BY <1>5 DEF Recheck, ReadAlerts, ReadGeneration, ClaimPending, EmitOver
  <2> QED
    BY <1>5, <1>a, <1>b, <1>d, <2>2, <2>3, <2>4 DEF Recheck, ReadAlerts, ReadGeneration, ClaimPending
<1>6. ASSUME NEW e \in Emitters, TryDedup(e) PROVE AlertsTyped'
  <2>1. emitter' \in [Emitters -> EmitterType]
    <3>1. "enqueue" \in EmitSteps /\ (EmitOver(e) \/ Goes(e, "enqueue"))
      BY <1>6 DEF TryDedup, EmitSteps
    <3> QED
      BY <3>1, CallbackTyped
  <2>2. sweep' \in {sweep, "idle"} /\ missed' \in BOOLEAN /\ dedup' \subseteq Times
    BY <1>0, <1>6, <1>a, <1>d DEF TryDedup, EmitOver
  <2> QED
    BY <1>6, <1>d, <2>1, <2>2 DEF TryDedup, AlertsTyped, EmitterType
<1>7. ASSUME NEW e \in Emitters, Enqueue(e) PROVE AlertsTyped'
  <2>1. emitter' \in [Emitters -> EmitterType]
    BY <1>7, <1>a, EmitterUpdated DEF Enqueue, EmitOver, EmitSteps
  <2>2. Queued(emitter[e].at) \in NoticeType
    BY <1>0 DEF Queued, NoticeType, NoticePcs
  <2>3. notice' \in [Notices -> NoticeType]
    BY <1>7, <1>a, <2>2 DEF Enqueue
  <2>4. sweep' \in {sweep, "idle"}
    BY <1>7 DEF Enqueue, EmitOver
  <2> QED
    BY <1>7, <1>d, <2>1, <2>3, <2>4 DEF Enqueue, AlertsTyped, EmitterType, NoticeType
<1>8. ASSUME NEW e \in Emitters, NotEnqueued(e) PROVE AlertsTyped'
  <2>1. emitter' \in [Emitters -> EmitterType]
    BY <1>8, <1>a, EmitterUpdated DEF NotEnqueued, EmitOver, EmitSteps
  <2>2. sweep' \in {sweep, "idle"} /\ missed' \in BOOLEAN /\ misses' \in 0 .. MaxMisses /\ dedup' \subseteq Times
    BY <1>8, <1>a, <1>e DEF NotEnqueued, EmitOver
  <2> QED
    BY <1>8, <1>d, <2>1, <2>2 DEF NotEnqueued, AlertsTyped, EmitterType
<1>9. CASE ConnectHook
  <2>1. CASE Greet
    BY <1>0, <2>1, RecoveryTyped DEF Greet, RecordConnect, AlertsTyped
  <2>2. CASE ResolveOnConnect
    BY <2>2 DEF ResolveOnConnect, AlertsTyped
  <2>3. CASE AnnounceConnect
    BY <1>0, <2>3, RecoveryTyped DEF AnnounceConnect, AlertsTyped
  <2> QED
    BY <1>9, <2>1, <2>2, <2>3 DEF ConnectHook
<1>10. CASE Sweep
  <2>1. CASE SweepRead
    BY <2>1 DEF SweepRead, AlertsTyped
  <2>2. CASE SweepDecide
    <3>1. EmitFirst \in EmitSteps
      BY DEF EmitFirst, EmitSteps
    <3>2. emitter' \in [Emitters -> EmitterType]
      <4>1. \/ emitter' = emitter \/ emitter' = [emitter EXCEPT ![Sweeper].at = Clock]
            \/ emitter' = [emitter EXCEPT ![Sweeper] = [Idle EXCEPT !.pc = EmitFirst, !.at = Clock]]
        BY <2>2 DEF SweepDecide
      <4>2. [emitter EXCEPT ![Sweeper].at = Clock] \in [Emitters -> EmitterType]
        BY <1>0, <3>1, EmitterUpdated
      <4>3. [emitter EXCEPT ![Sweeper] = [Idle EXCEPT !.pc = EmitFirst, !.at = Clock]] \in [Emitters -> EmitterType]
        BY <1>0, <3>1, EmitterUpdated
      <4> QED
        BY <1>a, <4>1, <4>2, <4>3
    <3> QED
      BY <1>a, <1>b, <2>2, <3>2 DEF SweepDecide
  <2>3. CASE SweepResolve
    BY <2>3 DEF SweepResolve, AfterSweep, AlertsTyped
  <2>4. CASE SweepAnnounce \/ SweepCancel
    <3>1. \E t \in Times : RecordRecovery(t, FALSE)
      BY <1>0, <2>4 DEF SweepAnnounce, SweepCancel
    <3>2. pending' \in Times /\ cancel' \in Times /\ dedup' \subseteq Times
      BY <3>1, RecoveryTyped
    <3>3. emitter' \in [Emitters -> EmitterType]
      <4>1. "idle" \in EmitSteps /\ emitter' = [emitter EXCEPT ![Sweeper] = Idle]
        BY <2>4 DEF SweepAnnounce, SweepCancel, SweepEnds, EmitSteps
      <4> QED
        BY <1>0, <4>1, EmitterUpdated
    <3> QED
      BY <1>b, <2>4, <3>2, <3>3 DEF SweepAnnounce, SweepCancel, SweepEnds
  <2> QED
    BY <1>10, <2>1, <2>2, <2>3, <2>4 DEF Sweep
<1>11. ASSUME NEW i \in Notices, Deliver(i) \/ GiveUp(i) PROVE AlertsTyped'
  <2>1. NoTask \in NoticeType /\ [notice[i] EXCEPT !.pc = "checked"] \in NoticeType
        /\ [notice[i] EXCEPT !.pc = "inserting"] \in NoticeType
    BY <1>0, <1>a DEF NoTask, NoticeType, NoticePcs
  <2>2. notice' \in [Notices -> NoticeType]
    BY <1>11, <1>a, <2>1 DEF Deliver, CheckNotice, MatchAlert, CreateAlert, GiveUp
  <2>3. alerts' \subseteq Notices
    BY <1>11, <1>a DEF Deliver, CheckNotice, MatchAlert, CreateAlert, GiveUp
  <2>4. missed' \in BOOLEAN /\ misses' \in 0 .. MaxMisses /\ UNCHANGED <<hostVars, hookVars, redisVars, greeted>>
    BY <1>11, <1>d, <1>e DEF Deliver, CheckNotice, MatchAlert, CreateAlert, GiveUp
  <2> QED
    BY <1>c, <2>2, <2>3, <2>4
<1> QED
  BY <1>1, <1>2, <1>3, <1>4, <1>5, <1>6, <1>7, <1>8, <1>9, <1>10, <1>11 DEF AlertsNext, Callback, Emit

\* AlertsTyped: every time, marker, record, dedup key and task is one the code has.
THEOREM AlertsAreTyped == AlertsSpec => []AlertsTyped
<1>1. AlertsInit => AlertsTyped
  <2>1. Idle \in EmitterType /\ NoTask \in NoticeType /\ 0 \in Times
    BY AlertsAssumption DEF Idle, NoTask, EmitterType, NoticeType, EmitSteps, NoticePcs, Times
  <2> SUFFICES ASSUME AlertsInit PROVE AlertsTyped
    OBVIOUS
  <2>2. emitter \in [Emitters -> EmitterType] /\ notice \in [Notices -> NoticeType]
    BY <2>1 DEF AlertsInit
  <2>3. 0 \in 0 .. MaxFlips /\ 0 \in 0 .. MaxMisses
    BY AlertsAssumption
  <2>4. /\ delayed \in BOOLEAN /\ kept \in BOOLEAN /\ lifted \in BOOLEAN
        /\ flips \in 0 .. MaxFlips /\ overdue \in BOOLEAN
        /\ greeting \in {"idle", "record", "resolve", "announce"}
        /\ sweep \in {"idle", "decide", "emitting", "resolve", "announce", "cancel"}
        /\ saw \in Notices \cup {NoNotice}
    BY <2>3 DEF AlertsInit
  <2>5. /\ pending \in Times /\ cancel \in Times /\ dedup \subseteq Times /\ alerts \subseteq Notices
        /\ greeted \in Times /\ missed \in BOOLEAN /\ misses \in 0 .. MaxMisses
    BY <2>1, <2>3 DEF AlertsInit
  <2> QED
    BY <2>2, <2>4, <2>5 DEF AlertsTyped, EmitterType, NoticeType
<1>2. AlertsTyped /\ UNCHANGED alertVars => AlertsTyped'
  BY DEF AlertsTyped, alertVars, redisVars, queueVars, hookVars, hostVars, pastVars
<1> QED
  BY <1>1, <1>2, StepTyped, PTL DEF AlertsSpec

-----------------------------------------------------------------------------
(* The sweep.                                                              *)
LEMMA SweepStaysAlone == AlertsTyped /\ SweepAlone /\ [AlertsNext]_alertVars => SweepAlone'
<1> SUFFICES ASSUME AlertsTyped, SweepAlone, [AlertsNext]_alertVars PROVE SweepAlone'
  OBVIOUS
<1> USE DEF redisVars, queueVars, hookVars, hostVars, pastVars
<1>0. Sweeper \in Emitters /\ emitter \in [Emitters -> EmitterType] /\ flips \in Nat /\ flips + 1 # Sweeper
  BY ClockTyped DEF AlertsTyped, EmitterType, Sweeper
<1>a. UNCHANGED <<emitter, sweep>> => SweepAlone'
  BY DEF SweepAlone
<1>b. ASSUME NEW e \in Emitters, emitter[e].pc # "idle", EmitOver(e) \/ \E pc \in EmitSteps : Goes(e, pc) /\ sweep' = sweep
      PROVE  SweepAlone'
  <2>1. CASE e = Sweeper
    <3>1. sweep = "emitting"
      BY <1>b, <2>1 DEF SweepAlone
    <3>2. EmitOver(e) => emitter'[e].pc = "idle"
      BY <1>0 DEF EmitOver, Idle
    <3> QED
      BY <1>b, <2>1, <3>1, <3>2 DEF SweepAlone, EmitOver
  <2>2. CASE e # Sweeper
    <3>1. emitter'[Sweeper] = emitter[Sweeper] /\ sweep' = sweep
      BY <1>0, <1>b, <2>2 DEF EmitOver, Goes
    <3> QED
      BY <3>1 DEF SweepAlone
  <2> QED
    BY <2>1, <2>2
<1>1. CASE Disconnect
  BY <1>0, <1>1 DEF Disconnect, SweepAlone
<1>2. ASSUME NEW e \in Emitters, Callback(e) \/ NotEnqueued(e) PROVE SweepAlone'
  <2>1. emitter[e].pc # "idle"
    BY <1>2 DEF Callback, Emit, Recheck, ReadAlerts, ReadGeneration, ClaimPending, TryDedup, Enqueue, NotEnqueued, At
  <2>2. CASE ReadGeneration(e)
    <3>1. sweep' = sweep
      BY <2>2 DEF ReadGeneration
    <3>2. e = Sweeper \/ emitter'[Sweeper] = emitter[Sweeper]
      BY <1>0, <2>2 DEF ReadGeneration
    <3> QED
      BY <2>1, <3>1, <3>2 DEF SweepAlone
  <2>3. CASE ~ReadGeneration(e)
    <3>1. EmitFirst \in EmitSteps /\ {"read", "dedup", "enqueue"} \subseteq EmitSteps
      BY DEF EmitFirst, EmitSteps
    <3>2. EmitOver(e) \/ \E pc \in EmitSteps : Goes(e, pc) /\ sweep' = sweep
      BY <1>2, <2>3, <3>1 DEF Callback, Emit, Recheck, ReadAlerts, ClaimPending, TryDedup, Enqueue, NotEnqueued
    <3> QED
      BY <1>b, <2>1, <3>2
  <2> QED
    BY <2>2, <2>3
<1>3. CASE Sweep
  <2>1. CASE SweepDecide
    <3>1. sweep = "decide" /\ emitter[Sweeper].pc = "idle"
      BY <2>1 DEF SweepDecide, SweepAlone
    <3>2. emitter' = [emitter EXCEPT ![Sweeper].at = Clock] => emitter'[Sweeper].pc = emitter[Sweeper].pc
      BY <1>0 DEF EmitterType
    <3> QED
      BY <2>1, <3>1, <3>2 DEF SweepDecide, SweepAlone
  <2>2. CASE SweepAnnounce \/ SweepCancel
    <3>1. emitter' = [emitter EXCEPT ![Sweeper] = Idle]
      BY <2>2 DEF SweepAnnounce, SweepCancel, SweepEnds
    <3>2. emitter'[Sweeper] = Idle
      BY <1>0, <3>1
    <3> QED
      BY <3>2 DEF SweepAlone, Idle
  <2>3. CASE SweepRead \/ SweepResolve
    BY <2>3 DEF SweepRead, SweepResolve, SweepAlone
  <2> QED
    BY <1>3, <2>1, <2>2, <2>3 DEF Sweep
<1>4. CASE Connect \/ ThresholdPasses \/ BucketPasses \/ AutoResolve \/ ConnectHook \/ UNCHANGED alertVars
  BY <1>4, <1>a DEF Connect, ThresholdPasses, BucketPasses, AutoResolve, ConnectHook, Greet, ResolveOnConnect, AnnounceConnect, alertVars
<1>5. ASSUME NEW i \in Notices, Deliver(i) \/ GiveUp(i) PROVE SweepAlone'
  BY <1>5, <1>a DEF Deliver, CheckNotice, MatchAlert, CreateAlert, GiveUp
<1> QED
  BY <1>1, <1>2, <1>3, <1>4, <1>5 DEF AlertsNext

LEMMA SweepIsAlone == AlertsSpec => []SweepAlone
<1>1. AlertsInit => SweepAlone
  BY DEF AlertsInit, SweepAlone, Idle, Emitters
<1> QED
  BY <1>1, SweepStaysAlone, AlertsAreTyped, PTL DEF AlertsSpec

-----------------------------------------------------------------------------
(* One notice for an outage.                                               *)
\* Nothing new is to be delivered.
LEMMA FewerLive ==
  ASSUME OfPending, Alone, pending' = pending,
         \A i \in LiveNotices' : i \in LiveNotices /\ notice'[i].at = notice[i].at,
         \A e \in LiveEmitters' : e \in LiveEmitters /\ emitter'[e].at = emitter[e].at
  PROVE  OfPending' /\ Alone'
BY DEF OfPending, Alone

\* A recovery that is recorded ends what was to be delivered: its outage is the pending one.
LEMMA RecoveryClears ==
  ASSUME AlertsTyped, delayed, delayed' = delayed, OfPending, Alone,
         NEW t \in Times, NEW force \in BOOLEAN, RecordRecovery(t, force), notice' = notice,
         \A e \in Emitters : emitter'[e] = emitter[e] \/ emitter'[e].pc = "idle"
  PROVE  OfPending' /\ Alone'
<1>0. /\ pending \in Nat /\ cancel \in Nat /\ t \in Nat
      /\ \A e \in Emitters : emitter[e].at \in Nat
      /\ \A i \in Notices : notice[i].at \in Nat
  BY ClockTyped DEF Times
<1>1. CASE UNCHANGED redisVars
  <2>1. \A i \in LiveNotices' : i \in LiveNotices /\ notice'[i].at = notice[i].at
    BY <1>1 DEF LiveNotices, Cancelled, redisVars
  <2>2. \A e \in LiveEmitters' : e \in LiveEmitters /\ emitter'[e].at = emitter[e].at
    BY <1>1 DEF LiveEmitters, Cancelled, redisVars
  <2> QED
    BY <1>1, <2>1, <2>2, FewerLive DEF redisVars
<1>2. CASE cancel' = t /\ pending' = 0 /\ t > cancel /\ (pending # 0 => t > pending)
  <2>1. LiveNotices' = {}
    <3> SUFFICES ASSUME NEW i \in LiveNotices' PROVE FALSE
      OBVIOUS
    <3>1. i \in Notices /\ notice[i].pc = "queued" /\ ~(t > notice[i].at)
      BY <1>2 DEF LiveNotices, Cancelled
    <3>2. i \in LiveNotices
      BY <1>0, <1>2, <3>1 DEF LiveNotices, Cancelled
    <3>3. pending # 0 /\ notice[i].at = pending
      BY <3>2 DEF OfPending
    <3> QED
      BY <1>0, <1>2, <3>1, <3>3
  <2>2. LiveEmitters' = {}
    <3> SUFFICES ASSUME NEW e \in LiveEmitters' PROVE FALSE
      OBVIOUS
    <3>1. e \in Emitters /\ emitter[e].pc \in {"dedup", "enqueue"} /\ ~(t > emitter[e].at)
      BY <1>2 DEF LiveEmitters, Cancelled
    <3>2. e \in LiveEmitters
      BY <1>0, <1>2, <3>1 DEF LiveEmitters, Cancelled
    <3>3. pending # 0 /\ emitter[e].at = pending
      BY <3>2 DEF OfPending
    <3> QED
      BY <1>0, <1>2, <3>1, <3>3
  <2> QED
    BY <2>1, <2>2 DEF OfPending, Alone
<1> QED
  BY <1>1, <1>2 DEF RecordRecovery

\* A claim is refused while the notice of the pending outage can still be delivered.
LEMMA ClaimIsAlone ==
  ASSUME AlertsTyped, delayed, delayed' = delayed, OfPending, NEW e \in Emitters, ClaimPending(e)
  PROVE  Alone => OfPending' /\ Alone'
<1> SUFFICES ASSUME Alone PROVE OfPending' /\ Alone'
  OBVIOUS
<1>0. /\ pending \in Nat /\ cancel \in Nat /\ emitter \in [Emitters -> EmitterType]
      /\ \A f \in Emitters : emitter[f].at \in Nat
  BY ClockTyped DEF AlertsTyped, EmitterType
<1>1. At(e, "claim") /\ notice' = notice /\ cancel' = cancel
  BY DEF ClaimPending, queueVars
<1>2. CASE Claimed(emitter[e].at) = 0
  <2>1. pending' = pending /\ emitter' = [emitter EXCEPT ![e] = Idle]
    BY <1>2 DEF ClaimPending, EmitOver
  <2>2. \A f \in LiveEmitters' : f \in LiveEmitters /\ emitter'[f].at = emitter[f].at
    BY <1>0, <1>1, <2>1 DEF LiveEmitters, Cancelled, Idle
  <2>3. \A i \in LiveNotices' : i \in LiveNotices /\ notice'[i].at = notice[i].at
    BY <1>1 DEF LiveNotices, Cancelled
  <2> QED
    BY <2>1, <2>2, <2>3, FewerLive
<1>3. CASE Claimed(emitter[e].at) # 0
  <2>1. /\ pending' = emitter[e].at /\ emitter[e].at # 0 /\ Goes(e, "dedup")
        /\ cancel <= emitter[e].at /\ (pending = 0 \/ cancel > pending)
    BY <1>0, <1>3 DEF ClaimPending, Claimed
  <2>2. LiveNotices = {} /\ LiveEmitters = {}
    BY <1>0, <2>1 DEF OfPending, LiveNotices, LiveEmitters, Cancelled
  <2>3. LiveNotices' = {}
    BY <1>1, <2>2 DEF LiveNotices, Cancelled
  <2>4. emitter'[e].at = emitter[e].at /\ \A f \in Emitters \ {e} : emitter'[f] = emitter[f]
    BY <1>0, <2>1 DEF Goes, EmitterType
  <2>5. LiveEmitters' \subseteq {e}
    BY <1>1, <2>2, <2>4 DEF LiveEmitters, Cancelled
  <2> QED
    BY <2>1, <2>3, <2>4, <2>5 DEF OfPending, Alone
<1> QED
  BY <1>2, <1>3

LEMMA StepOneLive == AlertsTyped /\ SweepAlone /\ OneLive /\ [AlertsNext]_alertVars => OneLive'
<1> SUFFICES ASSUME AlertsTyped, SweepAlone, delayed, delayed' = delayed, OfPending, Alone, [AlertsNext]_alertVars
             PROVE  OfPending' /\ Alone'
  <2>1. [AlertsNext]_alertVars => delayed' = delayed
    BY DEF AlertsNext, Disconnect, Connect, ThresholdPasses, BucketPasses, AutoResolve, Callback, Emit, Recheck, ReadAlerts,
       ReadGeneration, ClaimPending, TryDedup, Enqueue, NotEnqueued, ConnectHook, Greet, ResolveOnConnect,
       AnnounceConnect, Sweep, SweepRead, SweepDecide, SweepResolve, SweepAnnounce, SweepCancel, Deliver,
       CheckNotice, MatchAlert, CreateAlert, GiveUp, hostVars, alertVars
  <2> QED
    BY <2>1 DEF OneLive
<1> USE DEF redisVars, queueVars, hookVars, hostVars, pastVars
<1>0. /\ Sweeper \in Emitters /\ emitter \in [Emitters -> EmitterType] /\ notice \in [Notices -> NoticeType]
      /\ flips \in Nat /\ Clock \in Times /\ \A e \in Emitters : emitter[e].at \in Times
  BY ClockTyped DEF AlertsTyped, EmitterType, NoticeType
<1>a. ASSUME UNCHANGED <<pending, cancel>>,
             \A i \in Notices : notice'[i].pc = "queued" => notice'[i] = notice[i],
             \A e \in Emitters : emitter'[e].pc \in {"dedup", "enqueue"}
               => emitter[e].pc \in {"dedup", "enqueue"} /\ emitter'[e].at = emitter[e].at
      PROVE  OfPending' /\ Alone'
  <2>1. \A i \in LiveNotices' : i \in LiveNotices /\ notice'[i].at = notice[i].at
    BY <1>a DEF LiveNotices, Cancelled
  <2>2. \A e \in LiveEmitters' : e \in LiveEmitters /\ emitter'[e].at = emitter[e].at
    BY <1>a DEF LiveEmitters, Cancelled
  <2> QED
    BY <1>a, <2>1, <2>2, FewerLive
<1>b. \A e \in Emitters : EmitOver(e) => \A f \in Emitters : emitter'[f] = emitter[f] \/ emitter'[f].pc = "idle"
  BY <1>0 DEF EmitOver, Idle
<1>c. ASSUME NEW e \in Emitters, NEW pc \in EmitSteps, Goes(e, pc)
      PROVE  /\ emitter'[e].pc = pc /\ emitter'[e].at = emitter[e].at
             /\ \A f \in Emitters \ {e} : emitter'[f] = emitter[f]
  BY <1>0, <1>c DEF Goes, EmitterType
<1>1. CASE Disconnect
  <2>1. \A e \in Emitters : emitter'[e] = emitter[e] \/ emitter'[e].pc = "recheck"
    BY <1>0, <1>1 DEF Disconnect, Idle
  <2> QED
    BY <1>1, <1>a, <2>1 DEF Disconnect
<1>2. CASE Connect \/ ThresholdPasses \/ BucketPasses \/ AutoResolve \/ ResolveOnConnect \/ UNCHANGED alertVars
  BY <1>2, <1>a DEF Connect, ThresholdPasses, BucketPasses, AutoResolve, ResolveOnConnect, alertVars
<1>3. ASSUME NEW e \in Emitters, Recheck(e) \/ ReadAlerts(e) PROVE OfPending' /\ Alone'
  <2>1. EmitOver(e) \/ Goes(e, "read") \/ Goes(e, "generation")
    BY <1>3 DEF Recheck, ReadAlerts, EmitFirst
  <2>2. {"read", "generation"} \subseteq EmitSteps
    BY DEF EmitSteps
  <2>3. \A f \in Emitters : emitter'[f] = emitter[f] \/ emitter'[f].pc \in {"idle", "read", "generation"}
    BY <1>b, <1>c, <2>1, <2>2
  <2> QED
    BY <1>3, <1>a, <2>3 DEF Recheck, ReadAlerts
<1>4. ASSUME NEW e \in Emitters, ReadGeneration(e) PROVE OfPending' /\ Alone'
  <2>1. \A f \in Emitters : emitter'[f] = emitter[f] \/ emitter'[f].pc = "claim"
    BY <1>0, <1>4 DEF ReadGeneration, EmitterType
  <2> QED
    BY <1>4, <1>a, <2>1 DEF ReadGeneration
<1>5. ASSUME NEW e \in Emitters, ClaimPending(e) PROVE OfPending' /\ Alone'
  BY <1>5, ClaimIsAlone
<1>6. ASSUME NEW e \in Emitters, TryDedup(e) PROVE OfPending' /\ Alone'
  <2>1. emitter[e].pc = "dedup" /\ (EmitOver(e) \/ Goes(e, "enqueue")) /\ "enqueue" \in EmitSteps
    BY <1>6 DEF TryDedup, At, EmitSteps
  <2>2. \A f \in Emitters : emitter'[f].pc \in {"dedup", "enqueue"}
          => emitter[f].pc \in {"dedup", "enqueue"} /\ emitter'[f].at = emitter[f].at
    BY <1>b, <1>c, <2>1
  <2> QED
    BY <1>6, <1>a, <2>2 DEF TryDedup
<1>7. ASSUME NEW e \in Emitters, NotEnqueued(e) PROVE OfPending' /\ Alone'
  <2>1. \A f \in Emitters : emitter'[f] = emitter[f] \/ emitter'[f].pc = "idle"
    BY <1>7, <1>b DEF NotEnqueued
  <2> QED
    BY <1>7, <1>a, <2>1 DEF NotEnqueued
\* The emitter's notice takes its place.
<1>8. ASSUME NEW e \in Emitters, Enqueue(e) PROVE OfPending' /\ Alone'
  <2>1. PICK i \in Free : notice' = [notice EXCEPT ![i] = Queued(emitter[e].at)]
    BY <1>8 DEF Enqueue
  <2>2. /\ emitter' = [emitter EXCEPT ![e] = Idle] /\ emitter[e].pc = "enqueue"
        /\ pending' = pending /\ cancel' = cancel
    BY <1>8 DEF Enqueue, EmitOver, At
  <2>3. i \in Notices /\ notice'[i] = Queued(emitter[e].at) /\ \A j \in Notices \ {i} : notice'[j] = notice[j]
    BY <1>0, <2>1 DEF Free
  <2>4. notice'[i].pc = "queued" /\ notice'[i].at = emitter[e].at
    BY <2>3 DEF Queued
  <2>5. \A f \in LiveEmitters' : f # e /\ f \in LiveEmitters /\ emitter'[f].at = emitter[f].at
    BY <1>0, <2>2 DEF LiveEmitters, Cancelled, Idle
  <2>6. \A j \in LiveNotices' : j # i => j \in LiveNotices /\ notice'[j].at = notice[j].at
    BY <2>2, <2>3 DEF LiveNotices, Cancelled
  <2>7. i \in LiveNotices' => e \in LiveEmitters
    BY <2>2, <2>4 DEF LiveNotices, LiveEmitters, Cancelled
  <2>8. CASE i \in LiveNotices'
    <3>1. LiveEmitters' = {} /\ LiveNotices' = {i}
      BY <2>5, <2>6, <2>7, <2>8 DEF Alone
    <3>2. pending' # 0 /\ notice'[i].at = pending'
      BY <2>2, <2>4, <2>7, <2>8 DEF OfPending
    <3> QED
      BY <3>1, <3>2 DEF OfPending, Alone
  <2>9. CASE i \notin LiveNotices'
    BY <2>2, <2>5, <2>6, <2>9, FewerLive
  <2> QED
    BY <2>8, <2>9
<1>9. CASE Greet \/ AnnounceConnect
  <2>1. \E force \in BOOLEAN : RecordRecovery(Clock, force)
    BY <1>9 DEF Greet, RecordConnect, AnnounceConnect
  <2>2. UNCHANGED <<notice, emitter>>
    BY <1>9 DEF Greet, AnnounceConnect
  <2> QED
    BY <1>0, <2>1, <2>2, RecoveryClears
<1>10. CASE Sweep
  <2>1. CASE SweepRead \/ SweepResolve
    BY <1>a, <2>1 DEF SweepRead, SweepResolve
  <2>2. CASE SweepDecide
    <3>1. emitter[Sweeper].pc = "idle"
      BY <2>2 DEF SweepDecide, SweepAlone
    <3>2. emitter' = emitter \/ (emitter'[Sweeper].pc \in {"idle", "generation"}
                                 /\ \A f \in Emitters \ {Sweeper} : emitter'[f] = emitter[f])
      <4>1. CASE emitter' = [emitter EXCEPT ![Sweeper] = [Idle EXCEPT !.pc = EmitFirst, !.at = Clock]]
        BY <1>0, <4>1 DEF Idle, EmitFirst
      <4>2. CASE emitter' = [emitter EXCEPT ![Sweeper].at = Clock]
        BY <1>0, <3>1, <4>2 DEF EmitterType
      <4> QED
        BY <2>2, <4>1, <4>2 DEF SweepDecide
    <3> QED
      BY <1>a, <2>2, <3>1, <3>2 DEF SweepDecide
  <2>3. CASE SweepAnnounce \/ SweepCancel
    <3>1. \E t \in Times : RecordRecovery(t, FALSE)
      BY <1>0, <2>3 DEF SweepAnnounce, SweepCancel
    <3>2. notice' = notice /\ emitter' = [emitter EXCEPT ![Sweeper] = Idle]
      BY <2>3 DEF SweepAnnounce, SweepCancel, SweepEnds
    <3>3. \A f \in Emitters : emitter'[f] = emitter[f] \/ emitter'[f].pc = "idle"
      BY <1>0, <3>2 DEF Idle
    <3> QED
      BY <3>1, <3>2, <3>3, RecoveryClears
  <2> QED
    BY <1>10, <2>1, <2>2, <2>3 DEF Sweep
<1>11. ASSUME NEW i \in Notices, Deliver(i) \/ GiveUp(i) PROVE OfPending' /\ Alone'
  <2>1. \A j \in Notices : notice'[j].pc = "queued" => notice'[j] = notice[j]
    BY <1>0, <1>11 DEF Deliver, CheckNotice, MatchAlert, CreateAlert, GiveUp, NoTask, NoticeType
  <2> QED
    BY <1>11, <1>a, <2>1 DEF Deliver, CheckNotice, MatchAlert, CreateAlert, GiveUp
<1> QED
  BY <1>1, <1>2, <1>3, <1>4, <1>5, <1>6, <1>7, <1>8, <1>9, <1>10, <1>11
     DEF AlertsNext, Callback, Emit, ConnectHook

LEMMA OnlyOneIsLive == AlertsSpec => []OneLive
<1>1. AlertsInit => OneLive
  <2> SUFFICES ASSUME AlertsInit PROVE LiveNotices = {} /\ LiveEmitters = {}
    BY DEF OneLive, OfPending, Alone
  <2> QED
    BY DEF AlertsInit, LiveNotices, LiveEmitters, NoTask, Idle
<1> QED
  BY <1>1, StepOneLive, AlertsAreTyped, SweepIsAlone, PTL DEF AlertsSpec

\* OneNoticePerOutage: with a delay, two notices of one outage are never both going to be delivered.
THEOREM NoticesAreOnePerOutage == AlertsSpec => []OneNoticePerOutage
<1>1. OneLive => OneNoticePerOutage
  <2> SUFFICES ASSUME Alone PROVE Cardinality(LiveNotices) + Cardinality(LiveEmitters) <= 1
    BY DEF OneLive, OneNoticePerOutage, LiveNotices, LiveEmitters
  <2>1. /\ LiveNotices = {} \/ \E i \in LiveNotices : LiveNotices = {i}
        /\ LiveEmitters = {} \/ \E e \in LiveEmitters : LiveEmitters = {e}
    BY DEF Alone
  <2>2. Cardinality({}) = 0 /\ \A x : Cardinality({x}) = 1
    BY FS_EmptySet, FS_Singleton
  <2>3. Cardinality(LiveNotices) \in {0, 1} /\ (LiveNotices = {} => Cardinality(LiveNotices) = 0)
    BY <2>1, <2>2
  <2>4. Cardinality(LiveEmitters) \in {0, 1} /\ (LiveEmitters = {} => Cardinality(LiveEmitters) = 0)
    BY <2>1, <2>2
  <2> QED
    BY <2>3, <2>4 DEF Alone
<1> QED
  BY <1>1, OnlyOneIsLive, PTL

-----------------------------------------------------------------------------
(* A recovery on record.                                                   *)
LEMMA RecoveryGrows ==
  ASSUME AlertsTyped, NEW t \in Times, NEW force \in BOOLEAN, RecordRecovery(t, force)
  PROVE  /\ cancel <= cancel' /\ pending' \in {pending, 0}
         /\ force => t <= cancel' \/ (pending # 0 /\ t <= pending)
BY ClockTyped DEF RecordRecovery, redisVars, Times

LEMMA StepRecovery == AlertsTyped /\ SweepAlone /\ RecoveryInv /\ [AlertsNext]_alertVars => RecoveryInv'
<1> SUFFICES ASSUME AlertsTyped, SweepAlone, RecoveryInv, [AlertsNext]_alertVars PROVE RecoveryInv'
  OBVIOUS
<1> USE DEF redisVars, queueVars, hookVars, hostVars, pastVars
<1>0. /\ Sweeper \in Emitters /\ emitter \in [Emitters -> EmitterType] /\ 0 \in Times
      /\ flips \in Nat /\ Clock \in Times /\ Clock = 2 * flips + 1 /\ Clock \in Nat
      /\ pending \in Nat /\ cancel \in Nat /\ greeted \in Nat
      /\ \A e \in Emitters : emitter[e].at \in Nat
  BY ClockTyped DEF AlertsTyped, EmitterType
\* The connection did not flip.
<1>a. ASSUME UNCHANGED <<flips, delayed>>, greeting' # "idle" => greeting # "idle",
             pending' \in {pending, 0} \/ (\E e \in Emitters : emitter[e].pc # "idle" /\ pending' = emitter[e].at),
             \A e \in Emitters : emitter'[e].pc # "idle"
               => (emitter[e].pc # "idle" /\ emitter'[e].at = emitter[e].at) \/ Past(emitter'[e].at),
             Recorded'
      PROVE  RecoveryInv'
  <2>1. Connected' = Connected /\ Clock' = Clock
    BY <1>a DEF Connected, Clock
  <2>2. Past(pending')
    <3>1. Past(0) /\ Past(pending)
      BY <1>0 DEF Past, RecoveryInv, InThePast
    <3> QED
      BY <1>a, <3>1 DEF RecoveryInv, InThePast
  <2>3. \A e \in Emitters : emitter'[e].pc # "idle" => Past(emitter'[e].at)
    BY <1>a DEF RecoveryInv, InThePast
  <2>4. InThePast'
    BY <2>1, <2>2, <2>3 DEF InThePast, Past
  <2> QED
    BY <1>a, <2>1, <2>4 DEF RecoveryInv, GreetedHere
<1>b. ASSUME UNCHANGED <<delayed, cancel, greeted>> PROVE Recorded'
  BY <1>b DEF RecoveryInv, Recorded
\* The connection flips: what was in the past still is.
<1>c. ASSUME flips' = flips + 1, pending' = pending
      PROVE  /\ Past(pending)' /\ Clock' = Clock + 2
             /\ \A t \in Nat : t <= Clock + 1 => t < Clock'
  <2>1. Clock' = Clock + 2
    BY <1>0, <1>c DEF Clock
  <2>2. pending <= Clock
    BY DEF RecoveryInv, InThePast, Past
  <2> QED
    BY <1>0, <1>c, <2>1, <2>2 DEF Past
<1>d. ASSUME NEW e \in Emitters, EmitOver(e) \/ \E pc \in EmitSteps : Goes(e, pc), emitter[e].pc # "idle"
      PROVE  \A f \in Emitters : emitter'[f].pc # "idle" => emitter[f].pc # "idle" /\ emitter'[f].at = emitter[f].at
  <2>1. EmitOver(e) => emitter'[e].pc = "idle" /\ \A f \in Emitters \ {e} : emitter'[f] = emitter[f]
    BY <1>0 DEF EmitOver, Idle
  <2>2. (\E pc \in EmitSteps : Goes(e, pc)) => emitter'[e].at = emitter[e].at /\ \A f \in Emitters \ {e} : emitter'[f] = emitter[f]
    BY <1>0 DEF Goes, EmitterType
  <2> QED
    BY <1>d, <2>1, <2>2
<1>1. CASE Disconnect
  <2>1. /\ flips' = flips + 1 /\ pending' = pending /\ greeting' = "idle"
        /\ UNCHANGED <<delayed, cancel, greeted>>
        /\ emitter' = [emitter EXCEPT ![flips + 1] = [Idle EXCEPT !.pc = "recheck", !.at = 2 * (flips + 1)]]
    BY <1>1 DEF Disconnect
  <2>2. ASSUME NEW e \in Emitters, emitter'[e].pc # "idle" PROVE emitter'[e].at < Clock'
    <3>1. emitter'[e] = emitter[e] \/ emitter'[e].at = 2 * (flips + 1)
      BY <1>0, <2>1 DEF Idle
    <3>2. emitter'[e] = emitter[e] => emitter'[e].at <= Clock /\ emitter'[e].at \in Nat
      BY <1>0, <2>2 DEF RecoveryInv, InThePast, Past
    <3>3. 2 * (flips + 1) \in Nat /\ 2 * (flips + 1) <= Clock + 1
      BY <1>0
    <3>4. emitter'[e].at \in Nat /\ emitter'[e].at <= Clock + 1
      BY <1>0, <3>1, <3>2, <3>3
    <3> QED
      BY <1>c, <2>1, <3>4
  <2>3. \A e \in Emitters : emitter'[e].at \in Nat
    <3>1. \A e \in Emitters : emitter'[e] = emitter[e] \/ emitter'[e].at = 2 * (flips + 1)
      BY <1>0, <2>1 DEF Idle
    <3> QED
      BY <1>0, <3>1
  <2>4. Clock' \in Nat
    BY <1>0, <1>c, <2>1
  <2>5. InThePast'
    BY <1>c, <2>1, <2>2, <2>3, <2>4 DEF InThePast, Past
  <2> QED
    BY <1>b, <2>1, <2>5 DEF RecoveryInv, GreetedHere
<1>2. CASE Connect
  <2>1. /\ flips' = flips + 1 /\ flips % 2 # 0 /\ UNCHANGED <<delayed, cancel, greeted, pending, emitter>>
    BY <1>2 DEF Connect, Connected
  <2>2. Connected'
    BY <1>0, <2>1, ConnectFlips DEF Connected
  <2>3. \A e \in Emitters : emitter[e].pc # "idle" => emitter[e].at <= Clock
    BY DEF RecoveryInv, InThePast, Past
  <2>4. \A e \in Emitters : emitter[e].pc # "idle" => emitter[e].at < Clock' /\ emitter[e].at <= Clock'
    BY <1>0, <1>c, <2>1, <2>3
  <2>5. InThePast'
    BY <1>c, <2>1, <2>4 DEF InThePast, Past
  <2> QED
    BY <1>b, <2>1, <2>2, <2>5 DEF RecoveryInv, GreetedHere
<1>3. CASE ThresholdPasses \/ BucketPasses \/ AutoResolve \/ ResolveOnConnect \/ UNCHANGED alertVars
  BY <1>3, <1>a, <1>b DEF ThresholdPasses, BucketPasses, AutoResolve, ResolveOnConnect, alertVars
<1>4. ASSUME NEW e \in Emitters, Recheck(e) \/ ReadAlerts(e) \/ TryDedup(e) \/ Enqueue(e) \/ NotEnqueued(e)
      PROVE  RecoveryInv'
  <2>1. {"read", "enqueue"} \subseteq EmitSteps /\ EmitFirst \in EmitSteps
    BY DEF EmitSteps, EmitFirst
  <2>2. (EmitOver(e) \/ \E pc \in EmitSteps : Goes(e, pc)) /\ emitter[e].pc # "idle"
    BY <1>4, <2>1 DEF Recheck, ReadAlerts, TryDedup, Enqueue, NotEnqueued, At
  <2>3. UNCHANGED <<flips, delayed, greeting, pending, cancel, greeted>>
    BY <1>4 DEF Recheck, ReadAlerts, TryDedup, Enqueue, NotEnqueued
  <2> QED
    BY <1>a, <1>b, <1>d, <2>2, <2>3
<1>5. ASSUME NEW e \in Emitters, ReadGeneration(e) PROVE RecoveryInv'
  <2>1. \A f \in Emitters : emitter'[f] = emitter[f] \/ (f = e /\ emitter'[f].at = emitter[f].at)
    BY <1>0, <1>5 DEF ReadGeneration, EmitterType
  <2>2. emitter[e].pc # "idle" /\ UNCHANGED <<flips, delayed, greeting, pending, cancel, greeted>>
    BY <1>5 DEF ReadGeneration, At
  <2> QED
    BY <1>a, <1>b, <2>1, <2>2
<1>6. ASSUME NEW e \in Emitters, ClaimPending(e) PROVE RecoveryInv'
  <2>1. (EmitOver(e) \/ \E pc \in EmitSteps : Goes(e, pc)) /\ emitter[e].pc # "idle"
    BY <1>6 DEF ClaimPending, At, EmitSteps
  <2>2. pending' = pending \/ pending' = emitter[e].at
    BY <1>6 DEF ClaimPending, Claimed
  <2>3. UNCHANGED <<flips, delayed, greeting, cancel, greeted>>
    BY <1>6 DEF ClaimPending
  <2> QED
    BY <1>a, <1>b, <1>d, <2>1, <2>2, <2>3
\* With a delay the recovery is recorded: a marker of a claim is older than this connect.
<1>7. CASE Greet
  <2>1. RecordRecovery(Clock, delayed) /\ greeted' = Clock /\ greeting # "idle"
        /\ UNCHANGED <<flips, delayed, emitter>>
    BY <1>7 DEF Greet, RecordConnect
  <2>2. pending < Clock
    BY <2>1 DEF RecoveryInv, GreetedHere, InThePast, Past
  <2>3. delayed \in BOOLEAN
    BY DEF AlertsTyped
  <2>4. pending' \in {pending, 0} /\ (delayed => Clock <= cancel')
    BY <1>0, <2>1, <2>2, <2>3, RecoveryGrows
  <2>5. Recorded'
    BY <2>1, <2>4 DEF Recorded
  <2> QED
    BY <1>a, <2>1, <2>4, <2>5
<1>8. ASSUME NEW t \in Times, RecordRecovery(t, FALSE), UNCHANGED <<flips, delayed, greeted>>,
             greeting' # "idle" => greeting # "idle",
             \A e \in Emitters : emitter'[e].pc # "idle" => emitter[e].pc # "idle" /\ emitter'[e].at = emitter[e].at
      PROVE  RecoveryInv'
  <2>1. cancel <= cancel' /\ pending' \in {pending, 0} /\ cancel' \in Times
    BY <1>8, RecoveryGrows, RecoveryTyped
  <2>2. cancel' \in Nat
    BY <2>1 DEF Times
  <2>3. Recorded'
    BY <1>0, <1>8, <2>1, <2>2 DEF RecoveryInv, Recorded
  <2> QED
    BY <1>8, <1>a, <2>1, <2>3
<1>9. CASE AnnounceConnect
  BY <1>0, <1>8, <1>9 DEF AnnounceConnect
<1>10. CASE Sweep
  <2>1. CASE SweepRead \/ SweepResolve
    BY <1>a, <1>b, <2>1 DEF SweepRead, SweepResolve
  <2>2. CASE SweepDecide
    <3>1. emitter[Sweeper].pc = "idle" /\ UNCHANGED <<flips, delayed, greeting, pending, cancel, greeted>>
      BY <2>2 DEF SweepDecide, SweepAlone
    <3>2. CASE ~Connected /\ emitter' = [emitter EXCEPT ![Sweeper] = [Idle EXCEPT !.pc = EmitFirst, !.at = Clock]]
      <4>1. emitter'[Sweeper].at = Clock /\ \A f \in Emitters \ {Sweeper} : emitter'[f] = emitter[f]
        BY <1>0, <3>2 DEF Idle
      <4>2. Past(Clock)
        BY <1>0, <3>2 DEF Past
      <4> QED
        BY <1>a, <1>b, <3>1, <4>1, <4>2
    <3>3. CASE emitter' = [emitter EXCEPT ![Sweeper].at = Clock]
      <4>1. emitter'[Sweeper].pc = "idle" /\ \A f \in Emitters \ {Sweeper} : emitter'[f] = emitter[f]
        BY <1>0, <3>1, <3>3 DEF EmitterType
      <4> QED
        BY <1>a, <1>b, <3>1, <4>1
    <3>4. CASE emitter' = emitter
      BY <1>a, <1>b, <3>1, <3>4
    <3> QED
      BY <2>2, <3>2, <3>3, <3>4 DEF SweepDecide
  <2>3. CASE SweepAnnounce \/ SweepCancel
    <3>1. \E t \in Times : RecordRecovery(t, FALSE)
      BY <2>3, ClockTyped DEF SweepAnnounce, SweepCancel
    <3>2. emitter' = [emitter EXCEPT ![Sweeper] = Idle] /\ UNCHANGED <<flips, delayed, greeted, greeting>>
      BY <2>3 DEF SweepAnnounce, SweepCancel, SweepEnds
    <3>3. \A e \in Emitters : emitter'[e].pc # "idle" => emitter[e].pc # "idle" /\ emitter'[e].at = emitter[e].at
      BY <1>0, <3>2 DEF Idle
    <3> QED
      BY <1>8, <3>1, <3>2, <3>3
  <2> QED
    BY <1>10, <2>1, <2>2, <2>3 DEF Sweep
<1>11. ASSUME NEW i \in Notices, Deliver(i) \/ GiveUp(i) PROVE RecoveryInv'
  BY <1>11, <1>a, <1>b DEF Deliver, CheckNotice, MatchAlert, CreateAlert, GiveUp
<1> QED
  BY <1>1, <1>2, <1>3, <1>4, <1>5, <1>6, <1>7, <1>9, <1>10, <1>11
     DEF AlertsNext, Callback, Emit, ConnectHook

\* FlapIsQuiet: a delayed notice whose host was greeted after its emission is not delivered.
THEOREM FlapsAreQuiet == AlertsSpec => FlapIsQuiet
<1>1. AlertsInit => RecoveryInv
  BY AlertsAssumption
     DEF AlertsInit, RecoveryInv, InThePast, GreetedHere, Recorded, Past, Idle, Clock, Connected
<1> DEFINE Delivered(i) == delayed /\ notice[i].pc = "queued" /\ notice'[i].pc = "checked"
<1>2. AlertsTyped /\ RecoveryInv /\ AlertsNext
        => \A i \in Notices : Delivered(i) => greeted <= notice[i].at
  <2> SUFFICES ASSUME AlertsTyped, RecoveryInv, AlertsNext, NEW i \in Notices, Delivered(i)
               PROVE  greeted <= notice[i].at
    OBVIOUS
  <2>0. notice \in [Notices -> NoticeType]
    BY DEF AlertsTyped, NoticeType
  <2>1. notice' # notice
    OBVIOUS
  <2>2. ~ \E e \in Emitters : Enqueue(e)
    <3> SUFFICES ASSUME NEW e \in Emitters, Enqueue(e) PROVE FALSE
      OBVIOUS
    <3>1. notice'[i] \in {notice[i], Queued(emitter[e].at)}
      BY <2>0 DEF Enqueue
    <3> QED
      BY <3>1 DEF Queued
  <2>3. PICK j \in Notices : Deliver(j) \/ GiveUp(j)
    BY <2>1, <2>2 DEF AlertsNext, Disconnect, Connect, ThresholdPasses, BucketPasses, AutoResolve, Callback, Emit, Recheck, ReadAlerts,
       ReadGeneration, ClaimPending, TryDedup, NotEnqueued, ConnectHook, Greet, ResolveOnConnect,
       AnnounceConnect, Sweep, SweepRead, SweepDecide, SweepResolve, SweepAnnounce, SweepCancel, queueVars
  <2>4. ~Cancelled(notice[i].at)
    BY <2>0, <2>3 DEF Deliver, CheckNotice, MatchAlert, CreateAlert, GiveUp, NoTask, NoticeType
  <2>5. cancel <= notice[i].at /\ greeted <= cancel
    BY <2>4, ClockTyped DEF Cancelled, RecoveryInv, Recorded
  <2> QED
    BY <2>5, ClockTyped
<1>3. AlertsTyped /\ RecoveryInv /\ [AlertsNext]_alertVars
        => [\A i \in Notices : delayed /\ notice[i].pc = "queued" /\ notice'[i].pc = "checked"
              => greeted <= notice[i].at]_alertVars
  BY <1>2
<1> QED
  BY <1>1, <1>3, StepRecovery, AlertsAreTyped, SweepIsAlone, PTL DEF AlertsSpec, FlapIsQuiet

-----------------------------------------------------------------------------
(* The abstract life of an outage's notice.                                *)
\* Nothing new is on its way.
LEMMA NoticeShrinks ==
  ASSUME UNCHANGED <<delayed, pending, cancel>>, PassedMap' = PassedMap,
         LiveNotices' \subseteq LiveNotices, LiveEmitters' \subseteq LiveEmitters
  PROVE  Notice!Miss \/ UNCHANGED Notice!noticeVars
<1>1. Marked' <=> Marked
  BY DEF Marked
<1>2. OutageMap' = OutageMap \/ (OutageMap = "announced" /\ OutageMap' = "settled")
  BY <1>1 DEF OutageMap
<1> QED
  BY <1>2 DEF Notice!Miss, Notice!noticeVars

LEMMA NoticeRecovers ==
  ASSUME AlertsTyped, delayed' = delayed, notice' = notice,
         NEW t \in Times, NEW force \in BOOLEAN, RecordRecovery(t, force),
         \A e \in Emitters : emitter'[e] = emitter[e] \/ emitter'[e].pc = "idle"
  PROVE  [Notice!NoticeNext]_Notice!noticeVars
<1>1. PassedMap' = PassedMap
  BY DEF PassedMap
<1>2. CASE UNCHANGED redisVars
  <2>1. LiveNotices' \subseteq LiveNotices /\ LiveEmitters' \subseteq LiveEmitters
    BY <1>2 DEF LiveNotices, LiveEmitters, Cancelled, redisVars
  <2> QED
    BY <1>1, <1>2, <2>1, NoticeShrinks DEF redisVars, Notice!NoticeNext
<1>3. CASE pending' = 0
  <2>1. OutageMap' = "quiet"
    BY <1>3 DEF OutageMap, Marked
  <2> QED
    BY <1>1, <2>1 DEF Notice!NoticeNext, Notice!Recover, Notice!noticeVars
<1> QED
  BY <1>2, <1>3 DEF RecordRecovery

LEMMA NoticeClaimed ==
  ASSUME AlertsTyped, delayed, delayed' = delayed, NEW e \in Emitters, ClaimPending(e)
  PROVE  [Notice!NoticeNext]_Notice!noticeVars
<1>0. /\ pending \in Nat /\ cancel \in Nat /\ emitter \in [Emitters -> EmitterType]
      /\ emitter[e].at \in Nat
  BY ClockTyped DEF AlertsTyped, EmitterType
<1>1. notice' = notice /\ cancel' = cancel /\ PassedMap' = PassedMap
  BY DEF ClaimPending, queueVars, PassedMap
<1>2. CASE Claimed(emitter[e].at) = 0
  <2>1. pending' = pending /\ emitter' = [emitter EXCEPT ![e] = Idle]
    BY <1>2 DEF ClaimPending, EmitOver
  <2>2. LiveNotices' \subseteq LiveNotices /\ LiveEmitters' \subseteq LiveEmitters
    BY <1>0, <1>1, <2>1 DEF LiveNotices, LiveEmitters, Cancelled, Idle
  <2> QED
    BY <1>1, <2>1, <2>2, NoticeShrinks DEF Notice!NoticeNext
<1>3. CASE Claimed(emitter[e].at) # 0
  <2>1. /\ pending' = emitter[e].at /\ emitter[e].at # 0 /\ Goes(e, "dedup")
        /\ cancel <= emitter[e].at /\ (pending = 0 \/ cancel > pending)
    BY <1>0, <1>3 DEF ClaimPending, Claimed
  <2>2. OutageMap = "quiet"
    BY <1>0, <2>1 DEF OutageMap, Marked
  <2>3. emitter'[e].at = emitter[e].at /\ emitter'[e].pc = "dedup"
    BY <1>0, <2>1 DEF Goes, EmitterType
  <2>4. e \in LiveEmitters' /\ Marked'
    BY <1>0, <1>1, <2>1, <2>3 DEF LiveEmitters, Cancelled, Marked
  <2>5. OutageMap' = "announced"
    BY <2>4 DEF OutageMap
  <2> QED
    BY <1>1, <2>2, <2>5 DEF Notice!NoticeNext, Notice!Announce
<1> QED
  BY <1>2, <1>3

\* The worker: a notice that is not cancelled is the pending outage's only one.
LEMMA NoticeDelivered ==
  ASSUME AlertsTyped, delayed, delayed' = delayed, OfPending, Alone, NEW i \in Notices,
         Deliver(i) \/ GiveUp(i)
  PROVE  [Notice!NoticeNext]_Notice!noticeVars
<1>0. /\ notice \in [Notices -> NoticeType] /\ notice[i].at \in Nat /\ pending \in Nat /\ cancel \in Nat
  BY ClockTyped DEF AlertsTyped, NoticeType
<1>1. UNCHANGED <<pending, cancel, emitter>>
  BY DEF Deliver, CheckNotice, MatchAlert, CreateAlert, GiveUp, redisVars, hookVars
<1>2. LiveEmitters' = LiveEmitters
  BY <1>1 DEF LiveEmitters, Cancelled
<1>3. CASE CheckNotice(i) /\ Cancelled(notice[i].at)
  <2>1. notice[i].pc = "queued" /\ notice' = [notice EXCEPT ![i] = NoTask]
    BY <1>3 DEF CheckNotice
  <2>2. notice'[i].pc = "none" /\ \A j \in Notices \ {i} : notice'[j] = notice[j]
    BY <1>0, <2>1 DEF NoTask
  <2>3. PassedMap' = PassedMap
    BY <2>1, <2>2 DEF PassedMap
  <2>4. LiveNotices' \subseteq LiveNotices
    BY <1>1, <2>2 DEF LiveNotices, Cancelled
  <2> QED
    BY <1>1, <1>2, <2>3, <2>4, NoticeShrinks DEF Notice!NoticeNext
<1>4. CASE CheckNotice(i) /\ ~Cancelled(notice[i].at)
  <2>1. notice[i].pc = "queued" /\ notice' = [notice EXCEPT ![i] = [@ EXCEPT !.pc = "checked"]]
    BY <1>4 DEF CheckNotice
  <2>2. notice'[i].pc = "checked" /\ \A j \in Notices \ {i} : notice'[j] = notice[j]
    BY <1>0, <2>1 DEF NoticeType
  <2>3. i \in LiveNotices
    BY <1>4, <2>1 DEF LiveNotices
  <2>4. LiveNotices = {i} /\ LiveEmitters = {} /\ pending # 0 /\ notice[i].at = pending
    BY <2>3 DEF OfPending, Alone
  <2>5. Marked
    BY <1>0, <2>3, <2>4 DEF Marked, LiveNotices, Cancelled
  <2>6. LiveNotices' = {} /\ Marked'
    BY <1>1, <2>2, <2>4, <2>5 DEF LiveNotices, Marked, Cancelled
  <2>7. OutageMap = "announced" /\ OutageMap' = "settled"
    BY <1>2, <2>4, <2>5, <2>6 DEF OutageMap
  <2>8. i \notin PassedMap /\ PassedMap' = PassedMap \cup {i}
    BY <2>1, <2>2 DEF PassedMap
  <2> QED
    BY <2>7, <2>8 DEF Notice!NoticeNext, Notice!Pass
<1>5. CASE MatchAlert(i) \/ CreateAlert(i) \/ GiveUp(i)
  <2>1. /\ notice[i].pc \in {"checked", "inserting"} /\ notice'[i].pc \in {"none", "inserting"}
        /\ \A j \in Notices \ {i} : notice'[j] = notice[j]
    BY <1>0, <1>5 DEF MatchAlert, CreateAlert, GiveUp, NoTask, NoticeType
  <2>2. LiveNotices' = LiveNotices
    BY <1>1, <2>1 DEF LiveNotices, Cancelled
  <2>3. OutageMap' = OutageMap
    BY <1>1, <1>2, <2>2 DEF OutageMap, Marked
  <2>4. i \in PassedMap
    BY <2>1 DEF PassedMap
  <2>5. PassedMap' = PassedMap \/ PassedMap' = PassedMap \ {i}
    <3>1. CASE notice'[i].pc = "none"
      BY <2>1, <3>1 DEF PassedMap
    <3>2. CASE notice'[i].pc = "inserting"
      BY <2>1, <3>2 DEF PassedMap
    <3> QED
      BY <2>1, <3>1, <3>2
  <2> QED
    BY <2>3, <2>4, <2>5 DEF Notice!NoticeNext, Notice!Finish, Notice!noticeVars
<1> QED
  BY <1>3, <1>4, <1>5 DEF Deliver

\* The emitter's steps after its claim: its notice takes its place, or is lost.
LEMMA NoticeEmitted ==
  ASSUME AlertsTyped, delayed' = delayed, NEW e \in Emitters,
         TryDedup(e) \/ Enqueue(e) \/ NotEnqueued(e)
  PROVE  [Notice!NoticeNext]_Notice!noticeVars
<1>0. notice \in [Notices -> NoticeType] /\ emitter \in [Emitters -> EmitterType]
  BY DEF AlertsTyped, EmitterType, NoticeType
<1>1. UNCHANGED <<pending, cancel>>
  BY DEF TryDedup, Enqueue, NotEnqueued, redisVars
<1>2. CASE TryDedup(e)
  <2>1. notice' = notice /\ emitter[e].pc = "dedup"
        /\ (emitter' = [emitter EXCEPT ![e] = Idle] \/ emitter' = [emitter EXCEPT ![e].pc = "enqueue"])
    BY <1>2 DEF TryDedup, queueVars, At, Goes, EmitOver
  <2>2. LiveNotices' \subseteq LiveNotices /\ PassedMap' = PassedMap
    BY <1>1, <2>1 DEF LiveNotices, PassedMap, Cancelled
  <2>3. LiveEmitters' \subseteq LiveEmitters
    <3>1. \A f \in Emitters : \/ emitter'[f].pc = "idle"
                              \/ emitter'[f].at = emitter[f].at
                                 /\ (emitter'[f].pc \in {"dedup", "enqueue"} => emitter[f].pc \in {"dedup", "enqueue"})
      BY <1>0, <2>1 DEF EmitterType, Idle
    <3> QED
      BY <1>1, <3>1 DEF LiveEmitters, Cancelled
  <2> QED
    BY <1>1, <2>2, <2>3, NoticeShrinks DEF Notice!NoticeNext
<1>3. CASE NotEnqueued(e)
  <2>1. notice' = notice /\ emitter' = [emitter EXCEPT ![e] = Idle]
    BY <1>3 DEF NotEnqueued, EmitOver, queueVars
  <2>2. /\ LiveNotices' \subseteq LiveNotices /\ PassedMap' = PassedMap
        /\ LiveEmitters' \subseteq LiveEmitters
    BY <1>0, <1>1, <2>1 DEF LiveNotices, LiveEmitters, PassedMap, Cancelled, Idle
  <2> QED
    BY <1>1, <2>2, NoticeShrinks DEF Notice!NoticeNext
<1>4. CASE Enqueue(e)
  <2>1. PICK i \in Free : notice' = [notice EXCEPT ![i] = Queued(emitter[e].at)]
    BY <1>4 DEF Enqueue
  <2>2. emitter' = [emitter EXCEPT ![e] = Idle] /\ emitter[e].pc = "enqueue"
    BY <1>4 DEF Enqueue, EmitOver, At
  <2>3. /\ i \in Notices /\ notice[i].pc = "none"
        /\ notice'[i].pc = "queued" /\ notice'[i].at = emitter[e].at
        /\ \A j \in Notices \ {i} : notice'[j] = notice[j]
    BY <1>0, <2>1 DEF Free, Backlog, Queued
  <2>4. PassedMap' = PassedMap
    BY <2>3 DEF PassedMap
  <2>5. LiveEmitters' = LiveEmitters \ {e}
    BY <1>0, <1>1, <2>2 DEF LiveEmitters, Cancelled, Idle
  <2>6. LiveNotices' = IF e \in LiveEmitters THEN LiveNotices \cup {i} ELSE LiveNotices
    BY <1>1, <2>2, <2>3 DEF LiveNotices, LiveEmitters, Cancelled
  <2>7. LiveNotices' = {} /\ LiveEmitters' = {} <=> LiveNotices = {} /\ LiveEmitters = {}
    BY <2>5, <2>6
  <2>8. OutageMap' = OutageMap
    BY <1>1, <2>7 DEF OutageMap, Marked
  <2> QED
    BY <2>4, <2>8 DEF Notice!noticeVars
<1> QED
  BY <1>2, <1>3, <1>4

LEMMA NoticeStep ==
  AlertsTyped /\ SweepAlone /\ OneLive /\ [AlertsNext]_alertVars
    => [Notice!NoticeNext]_Notice!noticeVars
<1> SUFFICES ASSUME AlertsTyped, SweepAlone, OneLive, [AlertsNext]_alertVars
             PROVE  [Notice!NoticeNext]_Notice!noticeVars
  OBVIOUS
<1>0. delayed' = delayed
  BY DEF AlertsNext, Disconnect, Connect, ThresholdPasses, BucketPasses, AutoResolve, Callback, Emit, Recheck, ReadAlerts,
     ReadGeneration, ClaimPending, TryDedup, Enqueue, NotEnqueued, ConnectHook, Greet, ResolveOnConnect,
     AnnounceConnect, Sweep, SweepRead, SweepDecide, SweepResolve, SweepAnnounce, SweepCancel, Deliver,
     CheckNotice, MatchAlert, CreateAlert, GiveUp, hostVars, alertVars
<1>1. CASE ~delayed
  <2>1. OutageMap = "quiet" /\ OutageMap' = "quiet" /\ PassedMap = {} /\ PassedMap' = {}
    BY <1>0, <1>1 DEF OutageMap, Marked, PassedMap
  <2> QED
    BY <2>1 DEF Notice!noticeVars
<1>2. CASE delayed
  <2>0. OfPending /\ Alone
    BY <1>2 DEF OneLive
  <2> USE DEF redisVars, queueVars, hookVars, hostVars, pastVars
  <2>1. /\ Sweeper \in Emitters /\ emitter \in [Emitters -> EmitterType]
        /\ flips \in Nat /\ Clock \in Times /\ \A e \in Emitters : emitter[e].at \in Times
    BY ClockTyped DEF AlertsTyped, EmitterType
  \* No notice moves, and no emitter is past its claim that was not.
  <2>a. ASSUME UNCHANGED <<pending, cancel, notice>>,
               \A e \in Emitters : emitter'[e] = emitter[e] \/ emitter'[e].pc \notin {"dedup", "enqueue"}
        PROVE  [Notice!NoticeNext]_Notice!noticeVars
    <3>1. /\ PassedMap' = PassedMap /\ LiveNotices' \subseteq LiveNotices
          /\ LiveEmitters' \subseteq LiveEmitters
      BY <1>0, <2>a DEF PassedMap, LiveNotices, LiveEmitters, Cancelled
    <3> QED
      BY <1>0, <2>a, <3>1, NoticeShrinks DEF Notice!NoticeNext
  <2>2. CASE Disconnect
    <3>1. \A e \in Emitters : emitter'[e] = emitter[e] \/ emitter'[e].pc = "recheck"
      BY <2>1, <2>2 DEF Disconnect, Idle
    <3> QED
      BY <2>2, <2>a, <3>1 DEF Disconnect
  <2>3. CASE Connect \/ ThresholdPasses \/ BucketPasses \/ AutoResolve \/ ResolveOnConnect \/ UNCHANGED alertVars
    BY <2>3, <2>a DEF Connect, ThresholdPasses, BucketPasses, AutoResolve, ResolveOnConnect, alertVars
  <2>4. ASSUME NEW e \in Emitters, Recheck(e) \/ ReadAlerts(e) \/ ReadGeneration(e)
        PROVE  [Notice!NoticeNext]_Notice!noticeVars
    <3>1. CASE Recheck(e) \/ ReadAlerts(e)
      <4>1. EmitOver(e) \/ Goes(e, "read") \/ Goes(e, "generation")
        BY <1>2, <3>1 DEF Recheck, ReadAlerts, EmitFirst
      <4>2. \A f \in Emitters : emitter'[f] = emitter[f] \/ emitter'[f].pc \in {"idle", "read", "generation"}
        BY <2>1, <4>1 DEF EmitOver, Goes, EmitterType, Idle
      <4> QED
        BY <2>a, <3>1, <4>2 DEF Recheck, ReadAlerts
    <3>2. CASE ReadGeneration(e)
      <4>1. \A f \in Emitters : emitter'[f] = emitter[f] \/ emitter'[f].pc = "claim"
        BY <2>1, <3>2 DEF ReadGeneration, EmitterType
      <4> QED
        BY <2>a, <3>2, <4>1 DEF ReadGeneration
    <3> QED
      BY <2>4, <3>1, <3>2
  <2>5. ASSUME NEW e \in Emitters, ClaimPending(e) PROVE [Notice!NoticeNext]_Notice!noticeVars
    BY <1>0, <1>2, <2>5, NoticeClaimed
  <2>6. ASSUME NEW e \in Emitters, TryDedup(e) \/ Enqueue(e) \/ NotEnqueued(e)
        PROVE  [Notice!NoticeNext]_Notice!noticeVars
    BY <1>0, <2>6, NoticeEmitted
  <2>7. CASE Greet \/ AnnounceConnect
    <3>1. \E force \in BOOLEAN : RecordRecovery(Clock, force)
      BY <1>2, <2>7 DEF Greet, RecordConnect, AnnounceConnect
    <3>2. UNCHANGED <<notice, emitter>>
      BY <2>7 DEF Greet, AnnounceConnect
    <3> QED
      BY <1>0, <2>1, <3>1, <3>2, NoticeRecovers
  <2>8. CASE SweepRead \/ SweepResolve \/ SweepDecide
    <3>1. UNCHANGED <<pending, cancel, notice>>
      BY <2>8 DEF SweepRead, SweepResolve, SweepDecide
    <3>2. ASSUME SweepDecide, emitter' # emitter
          PROVE  /\ emitter'[Sweeper].pc \in {"idle", "generation"}
                 /\ \A f \in Emitters \ {Sweeper} : emitter'[f] = emitter[f]
      <4>1. emitter[Sweeper].pc = "idle"
        BY <3>2 DEF SweepDecide, SweepAlone
      <4>2. CASE emitter' = [emitter EXCEPT ![Sweeper] = [Idle EXCEPT !.pc = EmitFirst, !.at = Clock]]
        BY <1>2, <2>1, <4>2 DEF Idle, EmitFirst
      <4>3. CASE emitter' = [emitter EXCEPT ![Sweeper].at = Clock]
        BY <2>1, <4>1, <4>3 DEF EmitterType
      <4> QED
        BY <3>2, <4>2, <4>3 DEF SweepDecide
    <3>3. \A e \in Emitters : emitter'[e] = emitter[e] \/ emitter'[e].pc \notin {"dedup", "enqueue"}
      BY <2>8, <3>2 DEF SweepRead, SweepResolve
    <3> QED
      BY <2>a, <3>1, <3>3
  <2>9. CASE SweepAnnounce \/ SweepCancel
    <3>1. \E t \in Times : RecordRecovery(t, FALSE)
      BY <2>1, <2>9 DEF SweepAnnounce, SweepCancel
    <3>2. notice' = notice /\ emitter' = [emitter EXCEPT ![Sweeper] = Idle]
      BY <2>9 DEF SweepAnnounce, SweepCancel, SweepEnds
    <3>3. \A f \in Emitters : emitter'[f] = emitter[f] \/ emitter'[f].pc = "idle"
      BY <2>1, <3>2 DEF Idle
    <3> QED
      BY <1>0, <3>1, <3>2, <3>3, NoticeRecovers
  <2>10. ASSUME NEW i \in Notices, Deliver(i) \/ GiveUp(i) PROVE [Notice!NoticeNext]_Notice!noticeVars
    BY <1>0, <1>2, <2>0, <2>10, NoticeDelivered
  <2> QED
    BY <2>2, <2>3, <2>4, <2>5, <2>6, <2>7, <2>8, <2>9, <2>10
       DEF AlertsNext, Callback, Emit, ConnectHook, Sweep
<1> QED
  BY <1>1, <1>2

\* ImplementsNotice: between two recoveries on record, one notice at most passes the worker's
\* check, and none of an outage that is recovered.
THEOREM AlertsImplementNotice == AlertsSpec => ImplementsNotice
<1>1. AlertsInit => Notice!NoticeInit
  BY DEF AlertsInit, Notice!NoticeInit, OutageMap, Marked, PassedMap, NoTask
<1> QED
  BY <1>1, NoticeStep, OnlyOneIsLive, AlertsAreTyped, SweepIsAlone, PTL
     DEF AlertsSpec, ImplementsNotice, Notice!NoticeSpec

=============================================================================
