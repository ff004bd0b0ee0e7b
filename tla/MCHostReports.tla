--------------------------- MODULE MCHostReports ---------------------------
(* Instances of HostReports for TLC.                                       *)
EXTENDS HostReports
=============================================================================
