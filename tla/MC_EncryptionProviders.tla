---------------------- MODULE MC_EncryptionProviders ----------------------
(***************************************************************************)
(* Up to three control plane nodes, two Secrets and four generated keys.   *)
(***************************************************************************)
EXTENDS EncryptionProviders, TLC

Symmetry == Permutations(Nodes) \cup Permutations(Secrets)
=============================================================================
