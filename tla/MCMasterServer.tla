--------------------------- MODULE MCMasterServer ---------------------------
(* The master server on small sets of hosts, names, objects and workers. *)
EXTENDS MasterServer
=============================================================================
