------------------------ MODULE MC_GCEControlPlane ------------------------
(***************************************************************************)
(* Three machines in two zones.                                            *)
(***************************************************************************)
EXTENDS GCEControlPlane

MCZone == <<"zoneA", "zoneA", "zoneB">>
=============================================================================
