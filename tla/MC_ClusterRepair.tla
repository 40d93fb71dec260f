------------------------- MODULE MC_ClusterRepair -------------------------
(***************************************************************************)
(* Four or five control plane hosts and one or two spare machines.         *)
(***************************************************************************)
EXTENDS ClusterRepair, TLC

Symmetry == Permutations(InitialHosts) \cup Permutations(Machines \ InitialHosts)
=============================================================================
