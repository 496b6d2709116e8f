----------------------------- MODULE MCBulkView -----------------------------
(* BulkView for TLC: its constants are numbers, given in the .cfg. *)
EXTENDS BulkView
=============================================================================
