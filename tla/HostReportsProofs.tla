------------------------- MODULE HostReportsProofs -------------------------
(***************************************************************************)
(* What HostReports promises for every interval of forced reports and every*)
(* number of changes, patch runs and failures: the types, and that a stored*)
(* hash never vouches for rows the server does not have.                   *)
(*                                                                         *)
(* Inductive with them: what the host can be, that hashes is a function,   *)
(* and that a payload which leaves the Windows updates out carries none,   *)
(* in every goroutine and every request that is still on its way.          *)
(***************************************************************************)
EXTENDS HostReports, TLAPS

Jobs     == [pc : Pcs, payload : Payloads, sections : SUBSET MainSections, docker : BOOLEAN]
Messages == [payload : Payloads, sections : SUBSET MainSections]

CarriesNone(p) == p.omitted => p.of["updates"] = 0

(* What is installed: packages and containers are never none. *)
HostOK ==
  /\ host \in Contents
  /\ host["packages"] \in {1, 2} /\ host["docker"] \in {1, 2}
  /\ host["updates"] \in {0, 1} /\ host["repos"] \in {0, 1}

\* No payload that omits the Windows updates carries any.
OmittedAreEmpty ==
  /\ \A g \in Goroutines : CarriesNone(job[g].payload)
  /\ \A r \in late : CarriesNone(r.payload)

JobsOK == job \in [Goroutines -> Jobs] /\ \A g \in Goroutines : CarriesNone(job[g].payload)

LateOK ==
  /\ late \subseteq Messages /\ \A r \in late : CarriesNone(r.payload)
  /\ lateFlag \in BOOLEAN

CountsOK ==
  /\ seen \in (0 .. 2) \cup {None} /\ tick \in 0 .. ForceEvery - 1
  /\ changes \in 0 .. MaxChanges /\ runs \in 0 .. MaxRuns /\ faults \in 0 .. MaxFaults

AgentOK == JobsOK /\ LateOK /\ CountsOK

ServerOK ==
  /\ rows \in Contents /\ awaiting \in BOOLEAN
  /\ hashes = [s \in Sections |-> hashes[s]]
  /\ \A s \in Sections : hashes[s] \in [PartsOf(s) -> 0 .. 2] \cup {None}
  /\ HashTellsRows

IInv == HostOK /\ AgentOK /\ ServerOK

USE DEF Goroutines, Parts, MainSections, Sections

LEMMA PartsOfSections ==
  /\ PartsOf("packages") = {"packages", "updates"}
  /\ PartsOf("repos") = {"repos"} /\ PartsOf("docker") = {"docker"}
BY DEF PartsOf

LEMMA HashTyped ==
  ASSUME NEW c \in Contents, NEW s \in Sections
  PROVE  Hash(c, s) \in [PartsOf(s) -> 0 .. 2]
BY PartsOfSections DEF Hash, Contents

LEMMA NothingTyped == Nothing \in Payloads /\ CarriesNone(Nothing) /\ Idle \in Jobs
BY DEF Nothing, Payloads, Contents, CarriesNone, Idle, Jobs, Pcs

LEMMA NextTickTyped == ASSUME NEW t \in 0 .. ForceEvery - 1 PROVE NextTick(t) \in 0 .. ForceEvery - 1
BY ReportsAssumption DEF NextTick

-----------------------------------------------------------------------------
(* A collection is a typed payload that carries no updates it leaves out.  *)
LEMMA CollectedTyped ==
  ASSUME HostOK, AgentOK, NEW p \in Collected, Collect(p)
  PROVE  /\ p \in Payloads /\ CarriesNone(p)
         /\ seen' \in (0 .. 2) \cup {None} /\ faults' \in 0 .. MaxFaults
<1>1. p = Whole \/ (p = Cached /\ seen # None) \/ (p = Omitted /\ (Held \/ faults < MaxFaults))
  BY DEF Collected
<1>2. Whole \in Payloads /\ CarriesNone(Whole)
  BY DEF Whole, Payloads, CarriesNone, HostOK
<1>3. seen # None => Cached \in Payloads /\ CarriesNone(Cached)
  BY DEF Cached, Payloads, CarriesNone, HostOK, AgentOK, CountsOK, Contents
<1>4. Omitted \in Payloads /\ CarriesNone(Omitted)
  BY DEF Omitted, Payloads, CarriesNone, HostOK, Contents
<1>5. host["updates"] \in 0 .. 2
  BY DEF HostOK, Contents
<1>6. seen' \in (0 .. 2) \cup {None}
  BY <1>5 DEF Collect, AgentOK, CountsOK
<1>7. ~Held /\ p.omitted => faults < MaxFaults
  BY <1>1 DEF Whole, Cached, Collected
<1>8. faults' \in 0 .. MaxFaults
  BY <1>7, ReportsAssumption DEF Collect, AgentOK, CountsOK
<1> QED
  BY <1>1, <1>2, <1>3, <1>4, <1>6, <1>8

(* The transaction of a report: the hash of a section is stored with the   *)
(* rows it is the hash of.                                                 *)
LEMMA ProcessReportKeeps ==
  ASSUME ServerOK, NEW p \in Payloads, CarriesNone(p),
         NEW sections \in SUBSET MainSections, ProcessReport(p, sections)
  PROVE  ServerOK'
<1> DEFINE c == Claimed(sections)
<1>1. c \in SUBSET MainSections
  BY DEF Claimed
<1>2. p.of \in Contents /\ p.omitted \in BOOLEAN
  BY DEF Payloads
<1>3. hashes' = [s \in Sections |-> IF s \in c THEN Hash(p.of, s) ELSE hashes[s]]
  BY DEF ProcessReport, HashesAfter
<1>4. \A s \in Sections : hashes'[s] \in [PartsOf(s) -> 0 .. 2] \cup {None}
  BY <1>2, <1>3, HashTyped DEF ServerOK
<1>5. rows' \in Contents
  BY <1>2 DEF ProcessReport, RowsAfter, ServerOK, Contents
<1>6. hashes' = [s \in Sections |-> hashes'[s]]
  BY <1>3
<1>7. hashes'["packages"] # None =>
        /\ hashes'["packages"]["packages"] = rows'["packages"]
        /\ hashes'["packages"]["updates"] \in {0, rows'["updates"]}
  <2>1. CASE "packages" \in c
    <3>1. hashes'["packages"] = [q \in {"packages", "updates"} |-> p.of[q]]
      BY <1>3, <2>1, PartsOfSections DEF Hash
    <3>2. rows'["packages"] = p.of["packages"]
      BY <2>1 DEF ProcessReport, RowsAfter
    <3>3. ~p.omitted => rows'["updates"] = p.of["updates"]
      BY <2>1 DEF ProcessReport, RowsAfter
    <3> QED
      BY <3>1, <3>2, <3>3 DEF CarriesNone
  <2>2. CASE "packages" \notin c
    <3>1. hashes'["packages"] = hashes["packages"]
      BY <1>3, <2>2
    <3>2. rows'["packages"] = rows["packages"] /\ rows'["updates"] = rows["updates"]
      BY <2>2 DEF ProcessReport, RowsAfter
    <3> QED
      BY <3>1, <3>2 DEF ServerOK, HashTellsRows
  <2> QED
    BY <2>1, <2>2
<1>8. hashes'["repos"] # None => hashes'["repos"]["repos"] \in {0, rows'["repos"]}
  <2>1. CASE "repos" \in c
    <3>1. hashes'["repos"] = [q \in {"repos"} |-> p.of[q]]
      BY <1>3, <2>1, PartsOfSections DEF Hash
    <3>2. p.of["repos"] # 0 => rows'["repos"] = p.of["repos"]
      BY <2>1 DEF ProcessReport, RowsAfter
    <3> QED
      BY <3>1, <3>2
  <2>2. CASE "repos" \notin c
    <3>1. hashes'["repos"] = hashes["repos"]
      BY <1>3, <2>2
    <3>2. rows'["repos"] = rows["repos"]
      BY <2>2 DEF ProcessReport, RowsAfter
    <3> QED
      BY <3>1, <3>2 DEF ServerOK, HashTellsRows
  <2> QED
    BY <2>1, <2>2
<1> QED
  BY <1>4, <1>5, <1>6, <1>7, <1>8 DEF ServerOK, HashTellsRows, ProcessReport, AwaitingAfter

-----------------------------------------------------------------------------
LEMMA InitIInv == ReportsInit => IInv
<1> SUFFICES ASSUME ReportsInit PROVE IInv
  OBVIOUS
<1> USE DEF ReportsInit
<1>1. HostOK
  BY DEF HostOK, Contents
<1>2. [Idle EXCEPT !.pc = "collect"] \in Jobs /\ Idle \in Jobs
  BY NothingTyped DEF Jobs, Pcs
<1>3. \A g \in Goroutines : job[g] \in Jobs /\ job[g].payload = Nothing
  BY <1>2 DEF Idle
<1>4. AgentOK
  <2>1. job \in [Goroutines -> Jobs]
    BY <1>2
  <2>2. \A g \in Goroutines : CarriesNone(job[g].payload)
    BY <1>3, NothingTyped
  <2>3. tick \in 0 .. ForceEvery - 1 /\ changes \in 0 .. MaxChanges /\ runs \in 0 .. MaxRuns
        /\ faults \in 0 .. MaxFaults
    BY ReportsAssumption
  <2>4. seen = None /\ late = {} /\ lateFlag \in BOOLEAN
    OBVIOUS
  <2> HIDE DEF ReportsInit
  <2> QED
    BY <2>1, <2>2, <2>3, <2>4 DEF AgentOK, JobsOK, LateOK, CountsOK
<1>5. ServerOK
  <2>1. \A s \in Sections : hashes[s] = None
    OBVIOUS
  <2>2. hashes = [s \in Sections |-> hashes[s]]
    OBVIOUS
  <2>3. rows \in Contents
    BY DEF Contents
  <2> QED
    BY <2>1, <2>2, <2>3 DEF ServerOK, HashTellsRows
<1> QED
  BY <1>1, <1>4, <1>5 DEF IInv

(* Only Install and Change touch the host. *)
LEMMA HostStep == HostOK /\ [ReportsNext]_reportVars => HostOK'
<1> SUFFICES ASSUME HostOK, [ReportsNext]_reportVars PROVE HostOK'
  OBVIOUS
<1>1. CASE UNCHANGED host
  BY <1>1 DEF HostOK
<1>2. CASE Install
  BY <1>2 DEF Install, HostOK, Contents
<1>3. CASE Change
  BY <1>3 DEF Change, HostOK, Contents
<1>4. CASE Tick \/ Ping \/ PingFails \/ LateReport \/ RefreshDocker \/ BeginRun
  BY <1>1, <1>4 DEF Tick, Ping, PingFails, LateReport, RefreshDocker, BeginRun
<1>5. ASSUME NEW g \in Goroutines,
             SendReport(g) \/ Deliver(g) \/ UpdateFails(g) \/ AnswerLost(g) \/ DockerFails(g)
      PROVE  UNCHANGED host
  BY <1>5 DEF SendReport, Deliver, SendUpdate, ReceiveDockerData, UpdateDockerHash, UpdateFails,
     AnswerLost, DockerFails
<1>6. CASE ReleaseUpdates \/ PostFinal \/ SetAwaitingPostPatchReport \/ FinalFails \/ FinalRetried
           \/ LateFlag \/ AgentRestart
  BY <1>1, <1>6 DEF ReleaseUpdates, PostFinal, SetAwaitingPostPatchReport, FinalFails, FinalRetried,
     LateFlag, AgentRestart
<1>7. CASE UNCHANGED reportVars
  BY <1>1, <1>7 DEF reportVars
<1> QED
  BY <1>1, <1>2, <1>3, <1>4, <1>5, <1>6, <1>7 DEF ReportsNext, RunSteps

(* The server's copy changes with a report, a Docker upload and its hash,  *)
(* and the flag of the report after a run.                                 *)
LEMMA ServerStep == IInv /\ [ReportsNext]_reportVars => ServerOK'
<1> SUFFICES ASSUME IInv, [ReportsNext]_reportVars PROVE ServerOK'
  OBVIOUS
<1> USE DEF IInv
<1>1. CASE UNCHANGED serverVars
  BY <1>1 DEF serverVars, ServerOK, HashTellsRows
<1>2. ASSUME NEW g \in Goroutines, SendUpdate(g) PROVE ServerOK'
  <2>1. job[g] \in Jobs /\ CarriesNone(job[g].payload)
    BY DEF AgentOK, JobsOK
  <2>2. job[g].payload \in Payloads /\ job[g].sections \in SUBSET MainSections
    BY <2>1 DEF Jobs
  <2> QED
    BY <1>2, <2>1, <2>2, ProcessReportKeeps DEF SendUpdate
<1>3. CASE LateReport
  <2>1. PICK r \in late : ProcessReport(r.payload, r.sections) \/ UNCHANGED serverVars
    BY <1>3 DEF LateReport
  <2>2. r.payload \in Payloads /\ r.sections \in SUBSET MainSections /\ CarriesNone(r.payload)
    BY DEF AgentOK, LateOK, Messages
  <2> QED
    BY <1>1, <2>1, <2>2, ProcessReportKeeps
<1>4. ASSUME NEW g \in Goroutines, ReceiveDockerData(g) PROVE ServerOK'
  <2>1. job[g].payload.of["docker"] \in 0 .. 2
    BY DEF AgentOK, JobsOK, Jobs, Payloads, Contents
  <2> QED
    BY <1>4, <2>1 DEF ReceiveDockerData, ServerOK, HashTellsRows, Contents
<1>5. ASSUME NEW g \in Goroutines, UpdateDockerHash(g) PROVE ServerOK'
  <2>1. Hash(job[g].payload.of, "docker") \in [PartsOf("docker") -> 0 .. 2]
    BY HashTyped DEF AgentOK, JobsOK, Jobs, Payloads
  <2>2. hashes' = [hashes EXCEPT !["docker"] = Hash(job[g].payload.of, "docker")]
        /\ UNCHANGED <<rows, awaiting>>
    BY <1>5 DEF UpdateDockerHash, DockerHashAfter
  <2>3. \A s \in Sections : hashes'[s] = IF s = "docker" THEN Hash(job[g].payload.of, "docker")
                                          ELSE hashes[s]
    BY <2>2 DEF ServerOK
  <2>4. hashes' = [s \in Sections |-> hashes'[s]]
    BY <2>2 DEF ServerOK
  <2> QED
    BY <2>1, <2>2, <2>3, <2>4 DEF ServerOK, HashTellsRows
<1>6. CASE SetAwaitingPostPatchReport \/ LateFlag
  BY <1>6 DEF SetAwaitingPostPatchReport, LateFlag, ServerOK, HashTellsRows
<1>7. CASE Tick \/ Ping \/ PingFails \/ RefreshDocker \/ BeginRun
  BY <1>1, <1>7 DEF Tick, Ping, PingFails, RefreshDocker, BeginRun
<1>8. ASSUME NEW g \in Goroutines, SendReport(g) \/ UpdateFails(g) \/ AnswerLost(g) \/ DockerFails(g)
      PROVE  UNCHANGED serverVars
  BY <1>8 DEF SendReport, UpdateFails, AnswerLost, DockerFails
<1>9. CASE Install \/ ReleaseUpdates \/ PostFinal \/ FinalFails \/ FinalRetried \/ Change \/ AgentRestart
  BY <1>1, <1>9 DEF Install, ReleaseUpdates, PostFinal, FinalFails, FinalRetried, Change,
     AgentRestart, serverVars
<1>10. CASE UNCHANGED reportVars
  BY <1>1, <1>10 DEF reportVars
<1> QED
  BY <1>1, <1>2, <1>3, <1>4, <1>5, <1>6, <1>7, <1>8, <1>9, <1>10 DEF ReportsNext, RunSteps, Deliver

-----------------------------------------------------------------------------
(* One goroutine goes on with a payload that is honest.                    *)
LEMMA JobStep ==
  ASSUME JobsOK, NEW g \in Goroutines, NEW x \in Jobs, CarriesNone(x.payload),
         job' = [job EXCEPT ![g] = x]
  PROVE  JobsOK'
BY DEF JobsOK

LEMMA JobAt ==
  ASSUME JobsOK, NEW g \in Goroutines
  PROVE  /\ job[g].pc \in Pcs /\ job[g].payload \in Payloads /\ CarriesNone(job[g].payload)
         /\ job[g].sections \in SUBSET MainSections /\ job[g].docker \in BOOLEAN
BY DEF JobsOK, Jobs

(* A goroutine that only moves on keeps what it delivers.                  *)
LEMMA PcStep ==
  ASSUME JobsOK, NEW g \in Goroutines, NEW pc \in Pcs, job' = [job EXCEPT ![g].pc = pc]
  PROVE  JobsOK'
BY JobAt DEF JobsOK, Jobs

(* A goroutine begins to deliver a payload.                                *)
LEMMA FreshStep ==
  ASSUME JobsOK, NEW g \in Goroutines, NEW pc \in Pcs, NEW p \in Payloads, CarriesNone(p),
         job' = [job EXCEPT ![g] = [Idle EXCEPT !.pc = pc, !.payload = p]]
  PROVE  JobsOK'
<1>1. /\ [Idle EXCEPT !.pc = pc, !.payload = p] \in Jobs
      /\ [Idle EXCEPT !.pc = pc, !.payload = p].payload = p
  BY DEF Idle, Jobs
<1> QED
  BY <1>1, JobStep

(* A new collection of Docker.                                             *)
LEMMA DockerJob ==
  ASSUME HostOK
  PROVE  /\ [Idle EXCEPT !.pc = "docker", !.payload.of = host] \in Jobs
         /\ CarriesNone([Idle EXCEPT !.pc = "docker", !.payload.of = host].payload)
BY DEF Idle, Nothing, Jobs, Pcs, Payloads, CarriesNone, HostOK

LEMMA AnsweredKeeps ==
  ASSUME HostOK, JobsOK, NEW g \in Goroutines, Answered(g)
  PROVE  JobsOK'
<1>1. CASE job[g].sections = {}
  BY <1>1, DockerJob, JobStep DEF Answered
<1>2. CASE job[g].sections # {} /\ job[g].docker
  <2>1. job' = [job EXCEPT ![g] = [Idle EXCEPT !.pc = "docker", !.payload = job[g].payload]]
    BY <1>2 DEF Answered
  <2> QED
    BY <2>1, JobAt, FreshStep DEF Pcs
<1>3. CASE job[g].sections # {} /\ ~job[g].docker
  BY <1>3, NothingTyped, JobStep DEF Answered, Idle
<1> QED
  BY <1>1, <1>2, <1>3, JobAt

LEMMA RefusedKeeps ==
  ASSUME JobsOK, NEW g \in Goroutines, Refused(g)
  PROVE  JobsOK'
<1>1. CASE job[g].sections = {}
  BY <1>1, NothingTyped, JobStep DEF Refused, Idle
<1>2. CASE job[g].sections # {}
  <2>1. job' = [job EXCEPT ![g] = [Idle EXCEPT !.pc = "update", !.payload = job[g].payload]]
    BY <1>2 DEF Refused
  <2> QED
    BY <2>1, JobAt, FreshStep DEF Pcs
<1> QED
  BY <1>1, <1>2

(* A fault keeps the counter within its bound.                             *)
LEMMA FaultCounted ==
  ASSUME CountsOK, Fault, UNCHANGED <<changes, runs>>,
         seen' \in (0 .. 2) \cup {None}, tick' \in 0 .. ForceEvery - 1
  PROVE  CountsOK'
BY ReportsAssumption DEF CountsOK, Fault

LEMMA AgentStep == IInv /\ [ReportsNext]_reportVars => AgentOK'
<1> SUFFICES ASSUME HostOK, JobsOK, LateOK, CountsOK, [ReportsNext]_reportVars
             PROVE  JobsOK' /\ LateOK' /\ CountsOK'
  BY DEF IInv, AgentOK
<1>0. AgentOK
  BY DEF AgentOK
<1>a. UNCHANGED lostVars => LateOK'
  BY DEF LateOK, lostVars
<1>b. UNCHANGED <<seen, tick, countVars>> => CountsOK'
  BY DEF CountsOK, countVars
<1>c. Fault /\ UNCHANGED <<seen, tick, changes, runs>> => CountsOK'
  BY FaultCounted DEF CountsOK
<1>d. UNCHANGED job => JobsOK'
  BY DEF JobsOK
<1>1. CASE Tick
  <2>1. PICK p \in Collected :
          /\ Collect(p)
          /\ job' = [job EXCEPT !["loop"] =
                       [Idle EXCEPT !.pc = IF Forced(NextTick(tick)) THEN "update" ELSE "ping",
                                    !.payload = p]]
    BY <1>1 DEF Tick
  <2>2. p \in Payloads /\ CarriesNone(p) /\ seen' \in (0 .. 2) \cup {None} /\ faults' \in 0 .. MaxFaults
    BY <1>0, <2>1, CollectedTyped
  <2>3. JobsOK'
    <3>1. (IF Forced(NextTick(tick)) THEN "update" ELSE "ping") \in Pcs
      BY DEF Pcs
    <3> QED
      BY <2>1, <2>2, <3>1, FreshStep
  <2>4. CountsOK'
    BY <1>1, <2>2, NextTickTyped DEF Tick, CountsOK
  <2> QED
    BY <1>1, <1>a, <2>3, <2>4 DEF Tick
<1>2. CASE Ping
  <2> DEFINE want == Stale(job["loop"].payload.of)
             main == AsksMain(want)
             next == IF main # {} THEN "update" ELSE IF want # {} THEN "docker" ELSE "idle"
  <2>0. next \in Pcs /\ main \in SUBSET MainSections /\ ("docker" \in want) \in BOOLEAN
    BY DEF Pcs, AsksMain
  <2>a. job' = [job EXCEPT !["loop"].pc = next, !["loop"].sections = main,
                           !["loop"].docker = "docker" \in want]
    BY <1>2 DEF Ping
  <2> HIDE DEF want, main, next
  <2>1. PICK pc \in Pcs, sections \in SUBSET MainSections, docker \in BOOLEAN :
          job' = [job EXCEPT !["loop"].pc = pc, !["loop"].sections = sections,
                             !["loop"].docker = docker]
    BY <2>0, <2>a
  <2>2. JobsOK'
    BY <2>1, JobAt DEF JobsOK, Jobs
  <2> QED
    BY <1>2, <1>a, <1>b, <2>2 DEF Ping
<1>3. CASE PingFails
  BY <1>3, <1>a, <1>c, NothingTyped, JobStep DEF PingFails, Idle
<1>4. ASSUME NEW g \in Goroutines, SendReport(g) PROVE JobsOK' /\ LateOK' /\ CountsOK'
  <2>1. PICK p \in Collected :
          /\ Collect(p)
          /\ job' = [job EXCEPT ![g] = [Idle EXCEPT !.pc = "update", !.payload = p]]
    BY <1>4 DEF SendReport
  <2>2. p \in Payloads /\ CarriesNone(p) /\ seen' \in (0 .. 2) \cup {None} /\ faults' \in 0 .. MaxFaults
    BY <1>0, <2>1, CollectedTyped
  <2>3. JobsOK'
    BY <2>1, <2>2, FreshStep DEF Pcs
  <2>4. CountsOK'
    BY <1>4, <2>2 DEF SendReport, CountsOK
  <2> QED
    BY <1>4, <1>a, <2>3, <2>4 DEF SendReport
<1>5. ASSUME NEW g \in Goroutines, SendUpdate(g) PROVE JobsOK' /\ LateOK' /\ CountsOK'
  BY <1>5, <1>a, <1>b, AnsweredKeeps DEF SendUpdate
<1>6. ASSUME NEW g \in Goroutines, UpdateFails(g) PROVE JobsOK' /\ LateOK' /\ CountsOK'
  BY <1>6, <1>a, <1>c, RefusedKeeps DEF UpdateFails
<1>7. ASSUME NEW g \in Goroutines, AnswerLost(g) PROVE JobsOK' /\ LateOK' /\ CountsOK'
  <2>1. JobsOK'
    BY <1>7, <1>d, RefusedKeeps DEF AnswerLost
  <2>2. Request(g) \in Messages /\ CarriesNone(Request(g).payload)
    BY JobAt DEF Request, Messages
  <2>3. LateOK'
    BY <1>7, <2>2 DEF AnswerLost, LateOK
  <2> QED
    BY <1>7, <1>c, <2>1, <2>3 DEF AnswerLost
<1>8. CASE LateReport
  BY <1>8, <1>b, <1>d DEF LateReport, LateOK, agentVars
<1>9. CASE RefreshDocker
  BY <1>9, <1>a, <1>b, DockerJob, JobStep DEF RefreshDocker
<1>10. ASSUME NEW g \in Goroutines, ReceiveDockerData(g) PROVE JobsOK' /\ LateOK' /\ CountsOK'
  BY <1>10, <1>a, <1>b, PcStep DEF ReceiveDockerData, Pcs
<1>11. ASSUME NEW g \in Goroutines, UpdateDockerHash(g) PROVE JobsOK' /\ LateOK' /\ CountsOK'
  BY <1>11, <1>a, <1>b, NothingTyped, JobStep DEF UpdateDockerHash, Idle
<1>12. ASSUME NEW g \in Goroutines, DockerFails(g) PROVE JobsOK' /\ LateOK' /\ CountsOK'
  BY <1>12, <1>a, <1>c, NothingTyped, JobStep DEF DockerFails, Idle
<1>13. CASE BeginRun
  <2>1. CountsOK'
    BY <1>13, ReportsAssumption DEF BeginRun, CountsOK
  <2> QED
    BY <1>13, <1>a, <2>1, PcStep DEF BeginRun, Pcs
<1>14. CASE Install
  BY <1>14, <1>a, <1>b, PcStep DEF Install, Pcs
<1>15. CASE ReleaseUpdates
  <2>1. CountsOK'
    BY <1>15 DEF ReleaseUpdates, CountsOK, countVars
  <2> QED
    BY <1>15, <1>a, <2>1, PcStep DEF ReleaseUpdates, Pcs
<1>16. CASE PostFinal
  BY <1>16, <1>a, <1>b, PcStep DEF PostFinal, Pcs
<1>17. CASE FinalFails
  BY <1>17, <1>a, <1>c, PcStep DEF FinalFails, Pcs
<1>18. CASE SetAwaitingPostPatchReport
  BY <1>18, <1>a, <1>b, PcStep DEF SetAwaitingPostPatchReport, Pcs
<1>19. CASE FinalRetried
  <2>1. LateOK'
    BY <1>19 DEF FinalRetried, LateOK
  <2> QED
    BY <1>19, <1>c, <2>1, PcStep DEF FinalRetried, Pcs
<1>20. CASE LateFlag
  BY <1>20, <1>b, <1>d DEF LateFlag, LateOK, agentVars
<1>21. CASE Change
  <2>1. CountsOK'
    BY <1>21, ReportsAssumption DEF Change, CountsOK, agentVars
  <2> QED
    BY <1>21, <1>a, <1>d, <2>1 DEF Change, agentVars
<1>22. CASE AgentRestart
  <2>1. JobsOK'
    <3>1. [Idle EXCEPT !.pc = "collect"] \in Jobs /\ [Idle EXCEPT !.pc = "collect"].payload = Nothing
      BY NothingTyped DEF Jobs, Pcs, Idle
    <3> QED
      BY <1>22, <3>1, NothingTyped DEF AgentRestart, JobsOK, Idle
  <2>2. LateOK'
    BY <1>22 DEF AgentRestart, LateOK
  <2>3. CountsOK'
    BY <1>22, FaultCounted, ReportsAssumption DEF AgentRestart
  <2> QED
    BY <2>1, <2>2, <2>3
<1>23. CASE UNCHANGED reportVars
  BY <1>23, <1>a, <1>b, <1>d DEF reportVars, agentVars
<1> QED
  BY <1>1, <1>2, <1>3, <1>4, <1>5, <1>6, <1>7, <1>8, <1>9, <1>10, <1>11, <1>12, <1>13, <1>14,
     <1>15, <1>16, <1>17, <1>18, <1>19, <1>20, <1>21, <1>22, <1>23
     DEF ReportsNext, RunSteps, Deliver

LEMMA StepIInv == IInv /\ [ReportsNext]_reportVars => IInv'
BY HostStep, AgentStep, ServerStep DEF IInv

-----------------------------------------------------------------------------
LEMMA ReportsInvariant == ReportsSpec => []IInv
BY InitIInv, StepIInv, PTL DEF ReportsSpec

(* Every state of the agent, the server and what is on its way between     *)
(* them has its type, and no payload that omits the Windows updates, in a  *)
(* goroutine or on its way, carries any: the server, which keeps its rows  *)
(* for such a payload, never drops a number it was sent.                   *)
THEOREM ReportsAreTyped == ReportsSpec => [](ReportsTyped /\ OmittedAreEmpty)
<1>1. IInv => ReportsTyped /\ OmittedAreEmpty
  BY DEF IInv, HostOK, AgentOK, JobsOK, LateOK, CountsOK, ServerOK, ReportsTyped, Jobs, Messages,
         OmittedAreEmpty
<1> QED
  BY <1>1, ReportsInvariant, PTL

(* A stored hash of packages or repositories never vouches for rows the    *)
(* server does not have, whatever reports were partial, lost, retried or   *)
(* late: store/report.go's one transaction.                                *)
THEOREM HashesTellRows == ReportsSpec => []HashTellsRows
<1>1. IInv => HashTellsRows
  BY DEF IInv, ServerOK
<1> QED
  BY <1>1, ReportsInvariant, PTL
=============================================================================
