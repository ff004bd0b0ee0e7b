---------------------------- MODULE MCHostAlerts ----------------------------
(* Instances of HostAlerts for TLC.                                        *)
EXTENDS HostAlertsRefinement
=============================================================================
