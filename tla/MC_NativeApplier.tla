------------------------- MODULE MC_NativeApplier -------------------------
(***************************************************************************)
(* A cluster with one CRD, one Namespace, a custom resource and a          *)
(* Deployment in the Namespace, and a ClusterRole, whose kind is in no     *)
(* default prune list.  Two addons share it.                               *)
(***************************************************************************)
EXTENDS NativeApplier, TLC

MCRefs == {"crd", "ns", "widget", "deploy", "role"}
MCKinds == {"CRD", "Namespace", "Widget", "Deployment", "ClusterRole"}
MCKindOf == [r \in MCRefs |-> CASE r = "crd" -> "CRD"
                                [] r = "ns" -> "Namespace"
                                [] r = "widget" -> "Widget"
                                [] r = "deploy" -> "Deployment"
                                [] r = "role" -> "ClusterRole"]
MCCRDOf == [k \in MCKinds |-> IF k = "Widget" THEN "crd" ELSE "none"]
MCNamespaceOf == [r \in MCRefs |-> IF r \in {"widget", "deploy"} THEN "ns" ELSE "none"]
MCDefaultPruneTypes == {"Namespace", "Deployment"}
MCManifests == {{"crd", "ns", "widget", "role"}, {"ns", "deploy"},
                {"crd", "ns", "widget", "deploy"}}
MCLegacy == {{}, {"role"}, {"ns", "deploy"}}
Symmetry == Permutations(Addons)
=============================================================================
