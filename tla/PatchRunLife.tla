---------------------------- MODULE PatchRunLife ----------------------------
(***************************************************************************)
(* What the patching subsystem promises of its runs, without tables, tasks,*)
(* sockets and reports: a run goes through its life in one direction, and  *)
(* from its admission to the moment the server gives it up or ends it, it  *)
(* holds the one slot of its host.  Only a run whose agent was lost comes  *)
(* back, and only into a free slot.                                        *)
(***************************************************************************)
CONSTANTS Runs, Hosts

VARIABLES
  phase,  \* where each run is in its life
  place,  \* the host of each run
  slot    \* the runs that hold the slot of each host: at most one

lifeVars == <<phase, place, slot>>

\* planned: waits for its window or an approver.  waiting: admitted.  lost: the agent
\* went away.  expired: the server gave up.  final: nothing more will execute.
Phases  == {"none", "planned", "waiting", "running", "lost", "expired", "final", "gone"}
Holding == {"waiting", "running"}
Open    == {"planned", "waiting", "running", "lost", "expired"}

Free(h) == slot[h] = {}

Becomes(r, p) == phase' = [phase EXCEPT ![r] = p]
Take(h, r)    == slot' = [slot EXCEPT ![h] = {r}]
Release(r)    == slot' = [slot EXCEPT ![place[r]] = @ \ {r}]

LifeInit ==
  /\ phase = [r \in Runs |-> "none"]
  /\ place \in [Runs -> Hosts]
  /\ slot = [h \in Hosts |-> {}]

(* A new run is planned, or admitted at once.                              *)
Plan(r, h) ==
  /\ phase[r] = "none"
  /\ Becomes(r, "planned") /\ place' = [place EXCEPT ![r] = h]
  /\ UNCHANGED slot

Admit(r, h) ==
  /\ phase[r] = "none" /\ Free(h)
  /\ Becomes(r, "waiting") /\ place' = [place EXCEPT ![r] = h]
  /\ Take(h, r)

(* The window of a planned run opens.                                      *)
OpenWindow(r) ==
  /\ phase[r] = "planned" /\ Free(place[r])
  /\ Becomes(r, "waiting") /\ Take(place[r], r)
  /\ UNCHANGED place

(* An approval ends run v and creates run r on its host, in v's slot if v  *)
(* held it.                                                                *)
Replace(v, r) ==
  /\ phase[v] \in {"planned", "waiting", "final"} /\ phase[r] = "none"
  /\ place' = [place EXCEPT ![r] = place[v]]
  /\ \/ /\ phase' = [phase EXCEPT ![v] = "final", ![r] = "planned"]
        /\ Release(v)
     \/ /\ slot[place[v]] \subseteq {v}
        /\ phase' = [phase EXCEPT ![v] = "final", ![r] = "waiting"]
        /\ Take(place[v], r)

Start(r) ==
  /\ phase[r] = "waiting" /\ Becomes(r, "running")
  /\ UNCHANGED <<place, slot>>

Lose(r) ==
  /\ phase[r] = "running" /\ Becomes(r, "lost") /\ Release(r)
  /\ UNCHANGED place

Resume(r) ==
  /\ phase[r] = "lost" /\ Free(place[r])
  /\ Becomes(r, "running") /\ Take(place[r], r)
  /\ UNCHANGED place

Expire(r) ==
  /\ phase[r] \in {"planned", "waiting", "running"}
  /\ Becomes(r, "expired") /\ Release(r)
  /\ UNCHANGED place

End(r) ==
  /\ phase[r] \in Open /\ Becomes(r, "final") /\ Release(r)
  /\ UNCHANGED place

Remove(r) ==
  /\ phase[r] \notin {"none", "gone"} /\ Becomes(r, "gone") /\ Release(r)
  /\ UNCHANGED place

(* Every step moves a run on.                                              *)
LifeNext == \E r \in Runs :
  /\ phase'[r] # phase[r]
  /\ \/ \E h \in Hosts : Plan(r, h) \/ Admit(r, h)
     \/ \E v \in Runs : Replace(v, r)
     \/ OpenWindow(r) \/ Start(r) \/ Lose(r) \/ Resume(r) \/ Expire(r) \/ End(r) \/ Remove(r)

LifeSpec == LifeInit /\ [][LifeNext]_lifeVars
=============================================================================
