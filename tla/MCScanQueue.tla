---------------------------- MODULE MCScanQueue ----------------------------
(* ScanQueue for TLC: its sets of jobs and cancel requests are in the .cfg. *)
EXTENDS ScanQueue
=============================================================================
