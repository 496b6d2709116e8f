----------------------------- MODULE MCBulkScan -----------------------------
(* BulkScan for TLC: its constants are given in the .cfg. *)
EXTENDS BulkScan
=============================================================================
