------------------------ MODULE HostAlertsRefinement ------------------------
(***************************************************************************)
(* HostAlerts implements OutageNotice: with a delay, an outage is announced*)
(* while the pending marker stands and no recovery after it is on record,  *)
(* and its notice is on its way in the emitter or in the queue.  Without a *)
(* delay there is no marker, and nothing is promised.                      *)
(***************************************************************************)
EXTENDS HostAlerts

\* What still is to be delivered.
LiveNotices  == {i \in Notices : notice[i].pc = "queued" /\ ~Cancelled(notice[i].at)}
LiveEmitters == {e \in Emitters : emitter[e].pc \in {"dedup", "enqueue"}
                                  /\ ~Cancelled(emitter[e].at)}

Marked == delayed /\ pending # 0 /\ cancel <= pending

OutageMap == IF ~Marked THEN "quiet"
             ELSE IF LiveNotices = {} /\ LiveEmitters = {} THEN "settled" ELSE "announced"

PassedMap == {i \in Notices : delayed /\ notice[i].pc \in {"checked", "inserting"}}

Notice == INSTANCE OutageNotice WITH outage <- OutageMap, passed <- PassedMap

\* Between two recoveries on record, one notice at most passes the worker's check, in
\* whatever order callbacks, sweeps, emitters and workers take their steps: a claim of a
\* later sweep is refused although the first notice is delivered or lost.
ImplementsNotice == Notice!NoticeSpec
=============================================================================
