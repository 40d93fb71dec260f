-------------------------- MODULE DefaultsV1beta2 --------------------------
(* SetDefaults_KubeOneCluster of the v1beta2 API, the only one a manifest can *)
(* be written in today.  Its defaulting functions are the same text as those  *)
(* of v1beta3 but for the API endpoint, the device ownership of containerd,   *)
(* Cilium's kube-proxy replacement (a string here) and the Helm releases,     *)
(* which are a list of their own.                                             *)
EXTENDS Cluster

LOCAL V3 == INSTANCE DefaultsV1beta3

SetDefaults_Hosts(c) == V3!SetDefaults_Hosts(c)
SetDefaults_NodeSet(c) == V3!SetDefaults_NodeSet(c)
SetDefaults_CloudProvider(c) == V3!SetDefaults_CloudProvider(c)

(* The endpoint is the first host unless it is given.  With neither an        *)
(* endpoint nor a host the function returns before it defaults the port.      *)
SetDefaults_APIEndpoints(c) ==
  IF c.apiHost = "" /\ c.hosts = <<>> THEN c
  ELSE [c EXCEPT !.apiHost = IF @ = "" THEN c.hosts[1].pub ELSE @,
                 !.apiPort = OrNumber(@, 6443)]

SetDefaults_Versions(c) == V3!SetDefaults_Versions(c)
SetDefaults_ContainerRuntime(c) == V3!SetDefaults_ContainerRuntime(c, FALSE)

SetDefaults_ClusterNetwork(c) ==
  [V3!SetDefaults_ClusterNetwork(c) EXCEPT !.cni.cilium =
     IF @ = Nil THEN Nil ELSE [@ EXCEPT !.kpr = OrString(@, "disabled")]]

SetDefaults_Proxy(c) == V3!SetDefaults_Proxy(c)
SetDefaults_LoggingConfig(c) == V3!SetDefaults_LoggingConfig(c)
SetDefaults_Journald(c) == V3!SetDefaults_Journald(c)
SetDefaults_MachineController(c) == V3!SetDefaults_MachineController(c)
SetDefaults_OperatingSystemManager(c) == V3!SetDefaults_OperatingSystemManager(c)

SetDefaults_HelmReleases(c) ==
  [c EXCEPT !.helmReleases = [i \in DOMAIN @ |-> V3!defaultHelmRelease(@[i])]]

SetDefaults_SystemPackages(c) == V3!SetDefaults_SystemPackages(c)
SetDefaults_Features(c) == V3!SetDefaults_Features(c)
SetDefaults_TLSCipherSuites(c) == V3!SetDefaults_TLSCipherSuites(c)
SetDefaults_CABundle(c) == V3!SetDefaults_CABundle(c)

SetDefaults_KubeOneCluster(c0) ==
  LET c1 == SetDefaults_CloudProvider(SetDefaults_NodeSet(SetDefaults_Hosts(c0)))
      c2 == SetDefaults_ContainerRuntime(
              SetDefaults_Versions(SetDefaults_APIEndpoints(c1)))
      c3 == SetDefaults_Proxy(SetDefaults_ClusterNetwork(c2))
      c4 == SetDefaults_Journald(SetDefaults_LoggingConfig(c3))
      c5 == SetDefaults_OperatingSystemManager(SetDefaults_MachineController(c4))
      c6 == SetDefaults_SystemPackages(SetDefaults_HelmReleases(c5))
      c7 == SetDefaults_TLSCipherSuites(SetDefaults_Features(c6))
  IN  SetDefaults_CABundle(c7)

----------------------------------------------------------------------------
(* Conversions between the versions, as far as they are more than a copy of   *)
(* the same fields.                                                           *)

Convert_CiliumSpec_To_kubeone(ci) ==
  IF ci = Nil THEN Nil ELSE [ci EXCEPT !.kpr = (@ = "strict")]

Convert_Addon_To_AddonRef(a) == [kind |-> "addon"] @@ a

(* The Helm releases of v1beta2 become addon references behind the addons. *)
Convert_KubeOneCluster_To_kubeone(c) ==
  LET old == IF c.addons = Nil THEN <<>>
             ELSE [i \in DOMAIN c.addons.refs |->
                     Convert_Addon_To_AddonRef(c.addons.refs[i])]
      helm == [i \in DOMAIN c.helmReleases |->
                 [kind |-> "helm"] @@ c.helmReleases[i]]
  IN  [c EXCEPT !.cni.cilium = Convert_CiliumSpec_To_kubeone(@),
                !.helmReleases = <<>>,
                !.addons = IF @ = Nil /\ helm = <<>> THEN Nil
                           ELSE [path |-> IF @ = Nil THEN "" ELSE @.path,
                                 refs |-> old \o helm]]

============================================================================
