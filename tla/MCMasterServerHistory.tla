----------------------- MODULE MCMasterServerHistory -----------------------
(* The master server with its history on small sets; no host is Loopback. *)
EXTENDS MasterServerHistory

Interchangeable ==
  Permutations(Workers) \cup Permutations(Objs) \cup Permutations(Names) \cup Permutations(Hosts)
=============================================================================
