---------------------------- MODULE MCUltraScan ----------------------------
(* UltraScan for TLC: its ports are model values of the .cfg. *)
EXTENDS UltraScan
=============================================================================
