---------------------------- MODULE MC_ApiObject ----------------------------
(* Every type of the API in every version, with every one of its fields set. *)
EXTENDS ApiObject
============================================================================
