--------------------------- MODULE MC_SSHConnector ---------------------------
(* Instances of SSHConnector for TLC.                                      *)
EXTENDS SSHConnector
=============================================================================
