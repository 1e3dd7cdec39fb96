---------------------------- MODULE MCHostLease ----------------------------
(* A few hosts that share one name and port, and a lossy network. *)
EXTENDS HostLease
=============================================================================
