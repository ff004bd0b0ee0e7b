---------------------------- MODULE OutageNotice ----------------------------
(***************************************************************************)
(* What a delayed host_down alert promises, without markers, records, dedup*)
(* keys and queues: an outage is announced once, its notice passes the     *)
(* worker's check at most once, and never after a recovery that was        *)
(* recorded; only a recovery makes room for another announcement.          *)
(***************************************************************************)
CONSTANT Notices

VARIABLES
  outage,  \* quiet, announced and its notice on its way, or settled
  passed   \* the notices that are past the worker's check

noticeVars == <<outage, passed>>

NoticeInit == outage = "quiet" /\ passed = {}

Announce ==
  /\ outage = "quiet" /\ outage' = "announced"
  /\ UNCHANGED passed

(* The notice is delivered, or lost on its way.                            *)
Pass(i) ==
  /\ outage = "announced" /\ outage' = "settled"
  /\ i \notin passed /\ passed' = passed \cup {i}

Miss ==
  /\ outage = "announced" /\ outage' = "settled"
  /\ UNCHANGED passed

Recover ==
  /\ outage # "quiet" /\ outage' = "quiet"
  /\ UNCHANGED passed

(* An alert is inserted, found superfluous or given up.                    *)
Finish(i) ==
  /\ i \in passed /\ passed' = passed \ {i}
  /\ UNCHANGED outage

NoticeNext ==
  \/ Announce \/ Miss \/ Recover
  \/ \E i \in Notices : Pass(i) \/ Finish(i)

NoticeSpec == NoticeInit /\ [][NoticeNext]_noticeVars
=============================================================================
