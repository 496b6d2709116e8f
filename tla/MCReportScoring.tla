-------------------------- MODULE MCReportScoring --------------------------
(* ReportScoring for TLC: its constants are numbers, given in the .cfg. *)
EXTENDS ReportScoring
=============================================================================
