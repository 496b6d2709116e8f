--------------------------- MODULE MCReportStore ---------------------------
(* ReportStore with a few calls and accounts, for TLC. *)
EXTENDS ReportStore, TLC

Symmetry == Permutations(Calls)
=============================================================================
