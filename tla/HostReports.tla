---------------------------- MODULE HostReports ----------------------------
(***************************************************************************)
(* The inventory of one host and the server's copy of it.  On every tick   *)
(* the agent's service loop pings with a hash per section; the server      *)
(* compares them with the hashes it stored and asks for the sections that  *)
(* differ.  Every ForceEvery-th tick sends everything without asking.      *)
(* Besides the loop, another goroutine reports too: the one that starts    *)
(* the service, refreshes the Docker inventory, or ends a patch run.       *)
(* Interfaces and hostname are delivered as packages are, without the      *)
(* Windows updates.                                                        *)
(***************************************************************************)
EXTENDS Naturals

CONSTANTS
  None,        \* NULL, or no list
  ForceEvery,  \* forcedFullReportInterval
  MaxChanges,  \* bound: changes of the host
  MaxRuns,     \* bound: patch runs
  MaxFaults    \* bound: failed or lost requests, failed searches, restarts

ASSUME ReportsAssumption ==
  /\ ForceEvery \in Nat \ {0} /\ MaxChanges \in Nat /\ MaxRuns \in Nat
  /\ MaxFaults \in Nat /\ None \notin 0 .. 2

VARIABLES
  host,     \* what is installed on the host
  seen,     \* lastWindowsUpdates
  tick,     \* tickCount, modulo ForceEvery
  job,      \* what each goroutine of the agent is delivering
  rows,     \* the server's copy: host_packages, host_repositories, docker_*
  hashes,   \* hosts.packages_hash, repos_hash, docker_hash
  awaiting, \* hosts.awaiting_post_patch_report_run_id is set
  late,     \* reports whose client has given up or retried, not yet processed
  lateFlag, \* a handler that ended a run for such a client, before its last write
  changes, runs, faults

agentVars  == <<seen, tick, job>>
serverVars == <<rows, hashes, awaiting>>
lostVars   == <<late, lateFlag>>
countVars  == <<changes, runs, faults>>
reportVars == <<host, agentVars, serverVars, lostVars, countVars>>

Goroutines   == {"loop", "side"}
Parts        == {"packages", "updates", "repos", "docker"}
MainSections == {"packages", "repos"}
Sections     == MainSections \cup {"docker"}

\* What a section consists of: Windows updates are packages of a category.
PartsOf(s) == IF s = "packages" THEN {"packages", "updates"} ELSE {s}

\* 0 is an empty list, 1 and 2 two different ones.
Contents == [Parts -> 0 .. 2]
Payloads == [of : Contents, omitted : BOOLEAN]

\* The canonical hash of a section tells any two lists apart.
Hash(c, s) == [p \in PartsOf(s) |-> c[p]]

Pcs == {"idle", "ping", "update", "docker", "hash", "run", "installed", "final",
        "flag", "collect"}

Nothing == [of |-> [p \in Parts |-> 0], omitted |-> FALSE]

\* No sections in a request mean a full report.
Idle == [pc |-> "idle", payload |-> Nothing, sections |-> {}, docker |-> FALSE]

ReportsTyped ==
  /\ host \in Contents /\ rows \in Contents
  /\ seen \in (0 .. 2) \cup {None} /\ tick \in 0 .. ForceEvery - 1
  /\ job \in [Goroutines -> [pc : Pcs, payload : Payloads,
                             sections : SUBSET MainSections, docker : BOOLEAN]]
  /\ \A s \in Sections : hashes[s] \in [PartsOf(s) -> 0 .. 2] \cup {None}
  /\ awaiting \in BOOLEAN /\ lateFlag \in BOOLEAN
  /\ late \subseteq [payload : Payloads, sections : SUBSET MainSections]
  /\ changes \in 0 .. MaxChanges /\ runs \in 0 .. MaxRuns /\ faults \in 0 .. MaxFaults

\* An enrolled host whose service starts: the startup report is about to be made.
ReportsInit ==
  /\ \E u, r \in 0 .. 1 :
       host = [p \in Parts |-> CASE p = "updates" -> u [] p = "repos" -> r [] OTHER -> 1]
  /\ seen = None /\ tick = 0
  /\ job = [g \in Goroutines |-> IF g = "side" THEN [Idle EXCEPT !.pc = "collect"] ELSE Idle]
  /\ rows = [p \in Parts |-> 0] /\ hashes = [s \in Sections |-> None]
  /\ awaiting = FALSE /\ late = {} /\ lateFlag = FALSE
  /\ changes = 0 /\ runs = 0 /\ faults = 0

Fault == faults < MaxFaults /\ faults' = faults + 1

----------------------------------------------------------------------------
(* Collecting.  A patch run holds Windows Update until it ends.            *)

Held == job["side"].pc \in {"run", "installed"}

Whole   == [of |-> host, omitted |-> FALSE]
Cached  == [of |-> [host EXCEPT !["updates"] = seen], omitted |-> FALSE]
Omitted == [of |-> [host EXCEPT !["updates"] = 0], omitted |-> TRUE]

\* What a collection may find: the last list stands in for a search that is not possible,
\* and without one, or when a search fails, the Windows updates are left out.
Collected ==
  IF Held THEN {IF seen # None THEN Cached ELSE Omitted}
  ELSE {Whole} \cup (IF faults < MaxFaults THEN {Omitted} ELSE {})

Collect(p) ==
  /\ seen' = IF Held \/ p.omitted THEN seen ELSE host["updates"]
  /\ faults' = IF ~Held /\ p.omitted THEN faults + 1 ELSE faults

\* Mutant of Forced: every check-in trusts the hashes.
ForcedNever(t) == FALSE

Forced(t) == t = 0

----------------------------------------------------------------------------
(* The server.                                                             *)

\* computeRequestFull
Stale(c) == {s \in Sections : hashes[s] # Hash(c, s)}

Claimed(sections) == IF sections = {} THEN MainSections ELSE sections

\* An empty list of repositories deletes the rows only when the section is named.
RowsAfter(p, sections) ==
  [part \in Parts |->
     IF \/ part = "packages" /\ "packages" \in Claimed(sections)
        \/ part = "updates" /\ "packages" \in Claimed(sections) /\ ~p.omitted
        \/ part = "repos" /\ "repos" \in Claimed(sections)
           /\ (sections # {} \/ p.of["repos"] # 0)
     THEN p.of[part] ELSE rows[part]]

\* Mutant of HashesAfter: the hashes in the request are stored, whatever it delivers.
HashesOfRequest(p, sections) ==
  [s \in Sections |-> IF s \in MainSections THEN Hash(p.of, s) ELSE hashes[s]]

\* Mutant of HashesAfter: an empty list of repositories leaves no hash.
HashesOfContent(p, sections) ==
  [s \in Sections |->
     IF s = "repos" /\ p.of["repos"] = 0 THEN None
     ELSE IF s \in Claimed(sections) THEN Hash(p.of, s) ELSE hashes[s]]

HashesAfter(p, sections) ==
  [s \in Sections |-> IF s \in Claimed(sections) THEN Hash(p.of, s) ELSE hashes[s]]

\* Mutant of AwaitingAfter: a full report leaves the flag to the partial ones.
AwaitingAfterPartial(sections) == awaiting /\ sections = {}

AwaitingAfter(sections) == FALSE

\* One transaction.
ProcessReport(p, sections) ==
  /\ rows' = RowsAfter(p, sections)
  /\ hashes' = HashesAfter(p, sections)
  /\ awaiting' = AwaitingAfter(sections)

----------------------------------------------------------------------------
(* The service loop's ticks.                                               *)

NextTick(t) == (t + 1) % ForceEvery

Tick ==
  /\ job["loop"].pc = "idle"
  /\ tick' = NextTick(tick)
  /\ \E p \in Collected :
       /\ Collect(p)
       /\ job' = [job EXCEPT !["loop"] =
                    [Idle EXCEPT !.pc = IF Forced(NextTick(tick)) THEN "update" ELSE "ping",
                                 !.payload = p]]
  /\ UNCHANGED <<host, serverVars, lostVars, changes, runs>>

AsksMain(want) == want \cap MainSections

\* The server's comparison, and what the loop makes of the answer.
Ping ==
  /\ job["loop"].pc = "ping"
  /\ LET want == Stale(job["loop"].payload.of)
         main == AsksMain(want)
     IN job' = [job EXCEPT !["loop"].pc = IF main # {} THEN "update"
                                          ELSE IF want # {} THEN "docker" ELSE "idle",
                           !["loop"].sections = main,
                           !["loop"].docker = "docker" \in want]
  /\ UNCHANGED <<host, seen, tick, serverVars, lostVars, countVars>>

PingFails ==
  /\ job["loop"].pc = "ping" /\ Fault
  /\ job' = [job EXCEPT !["loop"] = Idle]
  /\ UNCHANGED <<host, seen, tick, serverVars, lostVars, changes, runs>>

----------------------------------------------------------------------------
(* Reports.                                                                *)

\* sendReport: the command report_now on the loop; at start or after a run beside it.
SendReport(g) ==
  /\ job[g].pc = IF g = "loop" THEN "idle" ELSE "collect"
  /\ \E p \in Collected :
       /\ Collect(p)
       /\ job' = [job EXCEPT ![g] = [Idle EXCEPT !.pc = "update", !.payload = p]]
  /\ UNCHANGED <<host, tick, serverVars, lostVars, changes, runs>>

\* A full report is followed by a new collection of Docker, a partial one by the tick's.
Answered(g) ==
  job' = [job EXCEPT ![g] =
            IF job[g].sections = {}
            THEN [Idle EXCEPT !.pc = "docker", !.payload.of = host]
            ELSE IF job[g].docker THEN [Idle EXCEPT !.pc = "docker", !.payload = job[g].payload]
            ELSE Idle]

\* A partial report that fails is sent again as a full one, a full one is given up.
Refused(g) ==
  job' = [job EXCEPT ![g] =
            IF job[g].sections = {} THEN Idle
            ELSE [Idle EXCEPT !.pc = "update", !.payload = job[g].payload]]

Request(g) == [payload |-> job[g].payload, sections |-> job[g].sections]

SendUpdate(g) ==
  /\ job[g].pc = "update"
  /\ ProcessReport(job[g].payload, job[g].sections)
  /\ Answered(g)
  /\ UNCHANGED <<host, seen, tick, lostVars, countVars>>

UpdateFails(g) ==
  /\ job[g].pc = "update" /\ Fault
  /\ Refused(g)
  /\ UNCHANGED <<host, seen, tick, serverVars, lostVars, changes, runs>>

\* The connection breaks, and the client retries or gives up; the server may still have it.
AnswerLost(g) ==
  /\ job[g].pc = "update" /\ Fault
  /\ late' = late \cup {Request(g)}
  /\ Refused(g) \/ UNCHANGED job
  /\ UNCHANGED <<host, seen, tick, serverVars, lateFlag, changes, runs>>

LateReport ==
  /\ \E r \in late :
       /\ late' = late \ {r}
       /\ ProcessReport(r.payload, r.sections) \/ UNCHANGED serverVars
  /\ UNCHANGED <<host, agentVars, lateFlag, countVars>>

RefreshDocker ==
  /\ job["side"].pc = "idle"
  /\ job' = [job EXCEPT !["side"] = [Idle EXCEPT !.pc = "docker", !.payload.of = host]]
  /\ UNCHANGED <<host, seen, tick, serverVars, lostVars, countVars>>

\* The inventory in one transaction, and its hash after it.
ReceiveDockerData(g) ==
  /\ job[g].pc = "docker"
  /\ rows' = [rows EXCEPT !["docker"] = job[g].payload.of["docker"]]
  /\ job' = [job EXCEPT ![g].pc = "hash"]
  /\ UNCHANGED <<host, seen, tick, hashes, awaiting, lostVars, countVars>>

\* Mutant of DockerHashAfter: only the data is stored.
DockerHashBefore(p) == hashes["docker"]

DockerHashAfter(p) == Hash(p.of, "docker")

UpdateDockerHash(g) ==
  /\ job[g].pc = "hash"
  /\ hashes' = [hashes EXCEPT !["docker"] = DockerHashAfter(job[g].payload)]
  /\ job' = [job EXCEPT ![g] = Idle]
  /\ UNCHANGED <<host, seen, tick, rows, awaiting, lostVars, countVars>>

\* The upload or the write of the hash fails; either is only logged.
DockerFails(g) ==
  /\ job[g].pc \in {"docker", "hash"} /\ Fault
  /\ job' = [job EXCEPT ![g] = Idle]
  /\ UNCHANGED <<host, seen, tick, serverVars, lostVars, changes, runs>>

----------------------------------------------------------------------------
(* A patch run and the report that follows it.                             *)

BeginRun ==
  /\ job["side"].pc = "idle" /\ runs < MaxRuns
  /\ runs' = runs + 1
  /\ job' = [job EXCEPT !["side"].pc = "run"]
  /\ UNCHANGED <<host, seen, tick, serverVars, lostVars, changes, faults>>

Install ==
  /\ job["side"].pc = "run"
  /\ host' \in {[host EXCEPT !["updates"] = 0], [host EXCEPT !["packages"] = 2], host}
  /\ job' = [job EXCEPT !["side"].pc = "installed"]
  /\ UNCHANGED <<seen, tick, serverVars, lostVars, countVars>>

\* recordWUAOutcome forgets the list if an update was tried, and the lock goes.
ReleaseUpdates ==
  /\ job["side"].pc = "installed"
  /\ seen' \in {seen, None}
  /\ job' = [job EXCEPT !["side"].pc = "final"]
  /\ UNCHANGED <<host, tick, serverVars, lostVars, countVars>>

\* UpdateOutput ends the run, and the handler goes on.
PostFinal ==
  /\ job["side"].pc = "final"
  /\ job' = [job EXCEPT !["side"].pc = "flag"]
  /\ UNCHANGED <<host, seen, tick, serverVars, lostVars, countVars>>

\* The end is not recorded: a Linux run leaves its report out, a Windows run makes it.
FinalFails ==
  /\ job["side"].pc = "final" /\ Fault
  /\ \E pc \in {"idle", "collect"} : job' = [job EXCEPT !["side"].pc = pc]
  /\ UNCHANGED <<host, seen, tick, serverVars, lostVars, changes, runs>>

SetAwaitingPostPatchReport ==
  /\ job["side"].pc = "flag"
  /\ awaiting' = TRUE
  /\ job' = [job EXCEPT !["side"].pc = "collect"]
  /\ UNCHANGED <<host, seen, tick, rows, hashes, lostVars, countVars>>

\* The client's retry is answered while the first handler is still at work.
FinalRetried ==
  /\ job["side"].pc = "flag" /\ Fault
  /\ lateFlag' = TRUE
  /\ job' = [job EXCEPT !["side"].pc = "collect"]
  /\ UNCHANGED <<host, seen, tick, serverVars, late, changes, runs>>

LateFlag ==
  /\ lateFlag /\ lateFlag' = FALSE
  /\ awaiting' \in {TRUE, awaiting}
  /\ UNCHANGED <<host, agentVars, rows, hashes, late, countVars>>

----------------------------------------------------------------------------
(* The host.                                                               *)

\* Something is installed, removed or changed; a failed search for repositories finds none.
Change ==
  /\ changes < MaxChanges /\ changes' = changes + 1
  /\ \E p \in Parts : host' = [host EXCEPT ![p] = CASE p \in {"packages", "docker"} -> 3 - host[p]
                                                   [] OTHER -> 1 - host[p]]
  /\ UNCHANGED <<agentVars, serverVars, lostVars, runs, faults>>

\* The agent's process ends, by its own update too; its handlers on the server may go on.
AgentRestart ==
  /\ Fault
  /\ seen' = None /\ tick' = 0
  /\ job' = [g \in Goroutines |-> IF g = "side" THEN [Idle EXCEPT !.pc = "collect"] ELSE Idle]
  /\ lateFlag' = (lateFlag \/ job["side"].pc = "flag")
  /\ UNCHANGED <<host, serverVars, late, changes, runs>>

Deliver(g) == SendUpdate(g) \/ ReceiveDockerData(g) \/ UpdateDockerHash(g)

RunSteps == Install \/ ReleaseUpdates \/ PostFinal \/ SetAwaitingPostPatchReport

ReportsNext ==
  \/ Tick \/ Ping \/ PingFails
  \/ \E g \in Goroutines : \/ SendReport(g) \/ Deliver(g)
                           \/ UpdateFails(g) \/ AnswerLost(g) \/ DockerFails(g)
  \/ LateReport \/ RefreshDocker
  \/ BeginRun \/ RunSteps \/ FinalFails \/ FinalRetried \/ LateFlag
  \/ Change \/ AgentRestart

ReportsSpec == ReportsInit /\ [][ReportsNext]_reportVars

\* The ticker fires for ever, and what a goroutine has begun goes on.
FairReportsSpec ==
  /\ ReportsSpec
  /\ WF_reportVars(Tick) /\ WF_reportVars(Ping)
  /\ \A g \in Goroutines : WF_reportVars(Deliver(g))
  /\ WF_reportVars(SendReport("side")) /\ WF_reportVars(RunSteps)

----------------------------------------------------------------------------
(* Properties.                                                             *)

\* A stored hash never vouches for packages or repositories the server does not have:
\* what it was computed from is what the rows hold, except for Windows updates that a
\* report left out and an empty list of repositories.  (ProcessReport)
HashTellsRows ==
  /\ hashes["packages"] # None =>
       /\ hashes["packages"]["packages"] = rows["packages"]
       /\ hashes["packages"]["updates"] \in {0, rows["updates"]}
  /\ hashes["repos"] # None => hashes["repos"]["repos"] \in {0, rows["repos"]}

\* Whatever was lost, doubled, left out or overtaken, the server's copy comes to be the
\* host's and stays so.  (shouldForceFullReport: a hash that matches rows it does not
\* describe is silent, and only the forced report ends it.)
InventoryConverges ==
  <>[](\A p \in Parts : rows[p] = host[p] \/ (p = "repos" /\ host[p] = 0))

\* The same for repositories: a host that has none any more.  (report.go: the rows have
\* "to actually converge on the empty set".)
EmptyReposConverge == <>[](rows["repos"] = host["repos"])

\* The hash gate comes to rest: a host that does not change is asked for nothing.
\* (computeRequestFull; a section whose hash is never stored would be sent on every tick.)
GateSettles == <>[](job["loop"].sections = {} /\ ~job["loop"].docker)

\* A host does not wait for ever for the report after a patch run.
\* (awaiting_post_patch_report_run_id, which a run may set after its report came in.)
AwaitingClears == awaiting ~> ~awaiting

=============================================================================
