-------------------------- MODULE DefaultsV1beta3 --------------------------
(* SetDefaults_KubeOneCluster of the v1beta3 API: one operator per defaulting *)
(* function, each from a cluster object to a cluster object, composed in the  *)
(* order of the code.  The static defaults come from the API package; the     *)
(* dynamic ones (files, credentials, load balancers) are in ConfigLoad.       *)
EXTENDS Cluster

ControlPlaneTaint == "node-role.kubernetes.io/control-plane"

defaultHostConfig(h) ==
  LET pub == IF h.pub = "" THEN h.priv ELSE h.pub
      user == OrString(h.user, "root")
  IN  [h EXCEPT !.pub = pub,
                !.priv = IF h.priv = "" THEN pub ELSE h.priv,
                !.agent = IF h.key = "" THEN OrString(@, "env:SSH_AUTH_SOCK") ELSE @,
                !.user = user,
                !.port = OrNumber(@, 22),
                !.bastionPort = OrNumber(@, 22),
                !.bastionUser = OrString(@, user)]

(* Mutant: the numbering starts again with the workers. *)
workersFromZero(c) ==
  [c EXCEPT
     !.hosts = [i \in DOMAIN c.hosts |->
       [defaultHostConfig(c.hosts[i]) EXCEPT
          !.id = i - 1, !.leader = @ \/ i = 1, !.taints = OrPointer(@, {ControlPlaneTaint})]],
     !.workers = [i \in DOMAIN c.workers |->
       [defaultHostConfig(c.workers[i]) EXCEPT !.id = i - 1, !.taints = OrPointer(@, {})]]]

(* IDs number the control plane hosts and go on over the static workers;      *)
(* without a control plane host nothing is done, for the workers either.      *)
SetDefaults_Hosts(c) ==
  IF c.hosts = <<>> THEN c
  ELSE LET noLeader == \A i \in DOMAIN c.hosts : ~c.hosts[i].leader
       IN [c EXCEPT
             !.hosts = [i \in DOMAIN c.hosts |->
               [defaultHostConfig(c.hosts[i]) EXCEPT
                  !.id = i - 1,
                  !.leader = @ \/ (noLeader /\ i = 1),
                  !.taints = OrPointer(@, {ControlPlaneTaint})]],
             !.workers = [i \in DOMAIN c.workers |->
               [defaultHostConfig(c.workers[i]) EXCEPT
                  !.id = i - 1 + Len(c.hosts),
                  !.taints = OrPointer(@, {})]]]

setDefaultsNodeSets(ns) ==
  [ns EXCEPT !.replicas = OrNumber(@, 1),
             !.taints = OrPointer(@, {ControlPlaneTaint}),
             !.port = OrNumber(@, 22),
             !.bastionPort = OrNumber(@, 22),
             !.user = OrString(@, "root"),
             !.bastionUser = OrString(@, "root"),
             !.agent = OrString(@, "env:SSH_AUTH_SOCK")]

SetDefaults_NodeSet(c) ==
  IF c.nodeSets = Nil THEN c
  ELSE [c EXCEPT !.nodeSets = [i \in DOMAIN @ |-> setDefaultsNodeSets(@[i])]]

(* The kubelet runs with an external cloud provider wherever a CCM exists. *)
SetDefaults_CloudProvider(c) ==
  [c EXCEPT !.external = @ \/ c.providers \cap {"none", "vmwareCloudDirector"} = {}]

SetDefaults_APIEndpoints(c) == [c EXCEPT !.apiPort = OrNumber(@, 6443)]

SetDefaults_Versions(c) == [c EXCEPT !.kubernetes.v = FALSE]

SetDefaults_ContainerRuntime(c, device) ==
  LET cd == OrPointer(c.containerd, [device |-> Nil, registries |-> Nil])
  IN  [c EXCEPT !.containerd = [cd EXCEPT !.device = OrPointer(@, device)]]

(* The first provider of this order that is set is the one the network        *)
(* defaults look at: for its Canal MTU and, when there are nodeSets, to give  *)
(* it an empty control plane spec.                                            *)
ProviderCases == <<"aws", "gce", "hetzner", "openstack", "digitalocean">>

providerCase(c) ==
  LET set == SelectSeq(ProviderCases, LAMBDA p : p \in c.providers)
  IN  IF set = <<>> THEN "" ELSE Head(set)

(* The MTU is 1450 before the provider is looked at, so the value of the      *)
(* provider, the fallback of a non-zero number, is never taken.               *)
DefaultCanalMTU == 1450

ProviderMTU == [aws |-> 8951, gce |-> 1410, hetzner |-> 1400, openstack |-> 1400]

canalMTU(c) ==
  IF providerCase(c) \in DOMAIN ProviderMTU
  THEN OrNumber(DefaultCanalMTU, ProviderMTU[providerCase(c)])
  ELSE DefaultCanalMTU

withControlPlane(c) ==
  IF providerCase(c) = "" \/ c.nodeSets = Nil THEN c
  ELSE [c EXCEPT !.cp[providerCase(c)] = OrPointer(@, EmptyControlPlane)]

SetDefaults_ClusterNetwork(d) ==
  LET c == [d EXCEPT !.ipFamily = OrString(@, "IPv4")]
      v4 == [c EXCEPT !.podSubnet = OrString(@, "10.244.0.0/16"),
                      !.serviceSubnet = OrString(@, "10.96.0.0/12"),
                      !.mask4 = OrPointer(@, 24)]
      n4 == IF HasIPv4(c) THEN v4 ELSE c
      v6 == [n4 EXCEPT !.podSubnetIPv6 = OrString(@, "fd01::/48"),
                       !.serviceSubnetIPv6 = OrString(@, "fd02::/120"),
                       !.mask6 = OrPointer(@, 64)]
      n6 == IF HasIPv6(c) THEN v6 ELSE n4
      cni == OrPointer(n6.cni, [canal |-> canalMTU(c), cilium |-> Nil,
                                weave |-> FALSE, external |-> FALSE])
  IN  withControlPlane(
        [n6 EXCEPT !.domain = OrString(@, "cluster.local"),
                   !.nodePorts = OrString(@, "30000-32767"),
                   !.cni = [cni EXCEPT !.canal = IF @ = 0 THEN canalMTU(c) ELSE @]])

(* With a proxy the defaults are put in front of whatever NoProxy holds. *)
SetDefaults_Proxy(c) ==
  IF c.http = "" /\ c.https = "" THEN c
  ELSE [c EXCEPT !.noProxy =
          <<"127.0.0.1/8,localhost", c.domain, c.podSubnet, c.serviceSubnet>> \o @]

SetDefaults_LoggingConfig(c) ==
  [c EXCEPT !.logMaxSize = OrString(@, "100Mi"), !.logMaxFiles = OrNumber(@, 5)]

SetDefaults_Journald(c) == [c EXCEPT !.journald = OrString(@, "5G")]

(* Mutant: the switch of the user is not looked at. *)
alwaysByProvider(c) == [c EXCEPT !.mc = "none" \notin c.providers]

SetDefaults_MachineController(c) ==
  [c EXCEPT !.mc = OrPointer(@, "none" \notin c.providers)]

SetDefaults_OperatingSystemManager(c) == [c EXCEPT !.osm = OrPointer(@, c.mc)]

defaultHelmRelease(hr) ==
  [hr EXCEPT !.release = OrString(@, hr.chart), !.waitMinutes = OrNumber(@, 5)]

SetDefaults_Addons(c) ==
  LET ads == OrPointer(c.addons, [path |-> "", refs |-> <<>>])
  IN  [c EXCEPT !.addons = [ads EXCEPT !.refs =
         [i \in DOMAIN @ |-> IF @[i].kind = "helm"
                             THEN defaultHelmRelease(@[i]) ELSE @[i]]]]

SetDefaults_SystemPackages(c) == [c EXCEPT !.sysPackages = OrPointer(@, TRUE)]

defaultStaticAuditLogConfig(a) ==
  [a EXCEPT !.path = OrString(@, "/var/log/kubernetes/audit.log"),
            !.age = OrNumber(@, 30),
            !.backup = OrNumber(@, 3),
            !.size = OrNumber(@, 100)]

defaultOpenIDConnect(o) == [o EXCEPT !.clientID = OrString(@, "kubernetes")]

SetDefaults_Features(c) ==
  LET dns == OrPointer(c.coreDNS, [replicas |-> Nil, pdb |-> Nil, image |-> ""])
      enabled(f) == f # Nil /\ f.enable
  IN  [c EXCEPT
         !.coreDNS = [dns EXCEPT !.replicas = OrPointer(@, 2), !.pdb = OrPointer(@, TRUE)],
         !.metricsServer = OrPointer(@, TRUE),
         !.auditLog = IF enabled(@) THEN defaultStaticAuditLogConfig(@) ELSE @,
         !.oidc = IF enabled(@) THEN defaultOpenIDConnect(@) ELSE @,
         !.nodeLocalDNS = OrPointer(@, TRUE)]

SetDefaults_TLSCipherSuites(c) ==
  [c EXCEPT !.tls = [k \in DOMAIN @ |-> OrPointer(@[k], {"default-" \o k})]]

SetDefaults_CABundle(c) ==
  [c EXCEPT !.caCert = IF c.caBundle # "" THEN OrString(@, c.caBundle) ELSE @]

SetDefaults_KubeOneCluster(c0) ==
  LET c1 == SetDefaults_CloudProvider(SetDefaults_NodeSet(SetDefaults_Hosts(c0)))
      c2 == SetDefaults_ContainerRuntime(
              SetDefaults_Versions(SetDefaults_APIEndpoints(c1)), TRUE)
      c3 == SetDefaults_Proxy(SetDefaults_ClusterNetwork(c2))
      c4 == SetDefaults_Journald(SetDefaults_LoggingConfig(c3))
      c5 == SetDefaults_OperatingSystemManager(SetDefaults_MachineController(c4))
      c6 == SetDefaults_SystemPackages(SetDefaults_Addons(c5))
      c7 == SetDefaults_TLSCipherSuites(SetDefaults_Features(c6))
  IN  SetDefaults_CABundle(c7)

============================================================================
