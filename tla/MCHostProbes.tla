---------------------------- MODULE MCHostProbes ----------------------------
(* HostProbes for TLC: its ports are given in the .cfg. *)
EXTENDS HostProbes
=============================================================================
