-------------------------- MODULE MCPatchSchedule --------------------------
(* Instances of PatchSchedule for TLC.                                     *)
EXTENDS PatchSchedule

\* NextRecurrence is what it is meant to be: the first instant after t that fires.
ASSUME NextRecurrenceIsFirst ==
  \A c \in Crons, t \in Times :
    LET u == NextRecurrence(c, t) IN
    /\ u > t /\ u % Period = c
    /\ \A v \in t + 1 .. u - 1 : v % Period # c
=============================================================================
