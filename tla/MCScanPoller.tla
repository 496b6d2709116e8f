---------------------------- MODULE MCScanPoller ----------------------------
(* ScanPoller for TLC: its constants are numbers, given in the .cfg. *)
EXTENDS ScanPoller
=============================================================================
