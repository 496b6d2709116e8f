-------------------------- MODULE MCSchemaMigration --------------------------
(* SchemaMigration on a few rows, reports and crashes, for TLC. *)
EXTENDS SchemaMigration
=============================================================================
