---------------------------- MODULE Validation -----------------------------
(* ValidateKubeOneCluster: the set of field errors of a cluster object; a     *)
(* manifest is accepted when it is empty.  An error is the path of its field. *)
EXTENDS Cluster

CONSTANTS
  DNSNames,    \* the names validation.IsDNS1123Subdomain accepts
  LabelNames,  \* the names gceResourceNameRegex accepts, whatever their length
  IPs,         \* what net.ParseIP accepts
  RegistryHost \* registry key -> its host, the part before the first "/"

Err(cond, path) == IF cond THEN {path} ELSE {}

NodeSets(c) == IF c.nodeSets = Nil THEN <<>> ELSE c.nodeSets
Deployed(x) == x # Nil /\ x

ValidateName(c) ==
  Err(c.name = "", "name") \cup Err(c.name \notin DNSNames, "name.dns")

ValidateKubeletConfig(k) ==
  Err(k.maxPods # Nil /\ k.maxPods <= 0, "kubelet.maxPods")
  \cup Err(k.gcHigh # Nil /\ k.gcHigh \notin 0..100, "kubelet.gcHigh")
  \cup Err(k.gcLow # Nil /\ k.gcLow \notin 0..100, "kubelet.gcLow")

(* A label that ends in "-" removes a label and takes no value. *)
validateLabels(labels) ==
  Err(\E l \in labels : l.removal /\ l.value # "", "labels")

ValidateHostConfig(hosts, c) ==
  UNION {LET h == hosts[i] IN
      Err(h.leader /\ \E j \in 1..(i - 1) : hosts[j].leader, "hosts.isLeader")
      \cup Err(h.pub = "", "hosts.publicAddress")
      \cup Err(HasIPv6(c) /\ ~h.v6, "hosts.ipv6")
      \cup Err(h.priv = "", "hosts.privateAddress")
      \cup Err(h.key = "" /\ h.agent = "", "hosts.ssh")
      \cup Err(h.user = "", "hosts.sshUsername")
      \cup Err(~IsValid(h.os), "hosts.operatingSystem")
      \cup ValidateKubeletConfig(h.kubelet)
      \cup validateLabels(h.labels)
      \cup Err(h.taints # Nil /\ "node-role.kubernetes.io/master" \in h.taints,
               "hosts.taints") : i \in DOMAIN hosts}

(* The number of node sets, not of their replicas, has to be odd. *)
ValidateControlPlaneMachines(c) == Err(Len(c.nodeSets) % 2 = 0, "nodeSets.odd")

(* Hosts hide node sets: with both, only the hosts are looked at. *)
ValidateControlPlaneConfig(c) ==
  IF c.hosts # <<>> THEN ValidateHostConfig(c.hosts, c)
  ELSE IF NodeSets(c) # <<>> THEN ValidateControlPlaneMachines(c)
  ELSE {"controlPlane"}

ValidateJournaldConfig(c) == Err(c.journald = "bad", "journald")

ValidateAPIEndpoint(c) ==
  Err(c.apiHost = "" /\ NodeSets(c) = <<>>, "apiEndpoint.host")
  \cup Err(c.apiPort <= 0 \/ c.apiPort > 65535, "apiEndpoint.port")
  \cup Err(\E i, j \in DOMAIN c.altNames : i # j /\ c.altNames[i] = c.altNames[j],
           "apiEndpoint.altNames")

----------------------------------------------------------------------------
(* Cloud providers.  lb is the load balancer of the control plane spec.       *)

isGCEResourceName(name, extra) == name \in LabelNames /\ Len(name) + extra <= 63

(* <cluster>-<node set>-<index of the last replica>, one digit for the index. *)
machineNameExtra(ns) == Len(ns.name) + 3

zoneLen(z) == FoldLeft(LAMBDA n, s : n + Len(s), Len(z) - 1, z)

validateAWSSpec(c) ==
  IF c.cp["aws"] = Nil THEN {}
  ELSE Err(c.region = "", "aws.region") \cup Err(Len(c.cp["aws"].lbName) > 32, "aws.lbName")

validateHetznerSpec(c) ==
  Err(c.cp["hetzner"] # Nil /\ c.networkID = "", "hetzner.networkID")

validateOpenstackSpec(c) ==
  Err(c.cp["openstack"] # Nil /\ c.cp["openstack"].lbName = "", "openstack.lbName")

validateAzureSpec(c) ==
  Err(c.cp["azure"] # Nil /\ c.cp["azure"].sku \notin {"", "Basic", "Standard"}, "azure.sku")

validateKubevirtSpec(c) ==
  Err(c.infraNamespace = "", "kubevirt.infraNamespace")
  \cup Err(NodeSets(c) # <<>> /\ c.cp["kubevirt"] = Nil /\ c.apiHost = "",
           "kubevirt.apiEndpoint")

validateGCENodeSet(c, ns, lb) ==
  Err(~isGCEResourceName(c.name, machineNameExtra(ns)), "gce.machineName")
  \cup
  IF ns.spec = Nil THEN {"gce.spec"}
  ELSE Err(ns.spec.secret, "gce.serviceAccount")
       \cup Err(ns.spec.project # "" /\ lb.lbProject \notin {"", ns.spec.project},
                "gce.projectID")
       \cup IF ns.spec.zone = <<>> THEN {"gce.zone"}
            ELSE IF lb.lbRegion # <<>> /\ ~IsStrictPrefix(lb.lbRegion, ns.spec.zone)
                 THEN {"gce.region"}
            ELSE Err(lb.lbName # "" /\ ~isGCEResourceName(lb.lbName, 1 + zoneLen(ns.spec.zone)),
                     "gce.negName")

validateGCESpec(c) ==
  LET lb == OrPointer(c.cp["gce"], EmptyControlPlane) IN
  IF NodeSets(c) = <<>> THEN {}
  ELSE Err(~isGCEResourceName(c.name, 0), "gce.name")
       \cup Err(lb.lbName # "" /\ ~isGCEResourceName(lb.lbName, Len("-6443-hc")), "gce.lbName")
       \cup Err(~isGCEResourceName(c.name, Len("-control-plane")), "gce.tag")
       \cup Err(\E r \in ToSet(lb.sources) : ~IsCIDR(r, 4), "gce.sources")
       \cup UNION {validateGCENodeSet(c, ns, lb) : ns \in ToSet(NodeSets(c))}

validateDONodeSet(c, ns) ==
  Err(Len(c.name) + machineNameExtra(ns) > 63, "do.dropletName")
  \cup Err(ns.os \notin {"ubuntu", "rockylinux"}, "do.operatingSystem")
  \cup IF ns.spec = Nil THEN {"do.spec"}
       ELSE Err(ns.spec.secret, "do.token")
            \cup Err(ns.spec.zone = <<>>, "do.region")
            \cup Err(ns.spec.size = "", "do.size")
            \cup Err(ns.spec.private = FALSE, "do.privateNetworking")

validateDigitalOceanSpec(c) ==
  LET lb == OrPointer(c.cp["digitalocean"], EmptyControlPlane)
      sets == ToSet(NodeSets(c))
      regions == {ns.spec.zone : ns \in {n \in sets : n.spec # Nil}} \ {<<>>}
  IN  IF sets = {} THEN {}
      ELSE Err(Len(lb.lbName) > 255, "do.lbName")
           \cup Err(lb.size > 100, "do.sizeUnit")
           \cup UNION {validateDONodeSet(c, ns) : ns \in sets}
           \cup Err(Cardinality(regions) > 1, "do.oneRegion")
           \cup Err(lb.lbRegion # <<>> /\ Cardinality(regions) = 1
                    /\ lb.lbRegion \notin regions, "do.lbRegion")

SpecOf(c, p) ==
  CASE p = "aws" ->
         validateAWSSpec(c)
         \cup Err(IsDualstack(c) /\ c.external /\ c.cloudConfig = "", "cloudConfig")
    [] p = "azure" -> validateAzureSpec(c) \cup Err(c.cloudConfig = "", "cloudConfig")
    [] p = "digitalocean" -> validateDigitalOceanSpec(c)
    [] p = "gce" -> validateGCESpec(c)
    [] p = "hetzner" -> validateHetznerSpec(c)
    [] p = "kubevirt" -> validateKubevirtSpec(c)
    [] p = "openstack" -> validateOpenstackSpec(c) \cup Err(c.cloudConfig = "", "cloudConfig")
    [] p = "vmwareCloudDirector" -> Err(c.external, "external")
    [] p = "vsphere" ->
         Err(c.cloudConfig = "", "cloudConfig")
         \cup Err(c.external /\ ~c.disableCSI /\ c.csiConfig = "", "csiConfig")
    [] p = "none" -> Err(Deployed(c.mc), "none.mc") \cup Err(Deployed(c.osm), "none.osm")
    [] OTHER -> {}

ValidateCloudProviderSpec(c) ==
  UNION {SpecOf(c, p) : p \in c.providers}
  \cup Err(Cardinality(c.providers) > 1, "oneProvider")
  \cup Err(c.providers = {}, "provider")
  \cup Err(c.csiConfig # "" /\ c.disableCSI, "csiConfig.disabled")
  \cup Err(c.csiConfig # "" /\ "vsphere" \notin c.providers, "csiConfig.vsphere")

----------------------------------------------------------------------------
(* Versions, container runtime and network. *)

ValidateVersionConfig(c) ==
  IF c.kubernetes.minor = Nil THEN {"versions.semver"}
  ELSE Err(c.kubernetes.v, "versions.v")
       \cup Err(c.kubernetes.minor < 35, "versions.min")
       \cup Err(c.kubernetes.minor > 37, "versions.max")

(* In-tree cloud providers are gone from every version KubeOne installs. *)
InTreeRemoved ==
  [aws |-> 27, azure |-> 29, gce |-> 29, openstack |-> 26, vsphere |-> 25]

ValidateKubernetesSupport(c) ==
  IF c.kubernetes.eks THEN {"versions.eks"}
  ELSE IF c.kubernetes.minor = Nil THEN {"versions.semver"}
  ELSE Err(~c.external /\ \E p \in c.providers \cap DOMAIN InTreeRemoved :
             c.kubernetes.minor >= InTreeRemoved[p], "external")

ValidateContainerRuntimeConfig(c) ==
  LET keys == IF c.containerd = Nil \/ c.containerd.registries = Nil THEN {}
              ELSE DOMAIN c.containerd.registries
  IN  Err("_default" \in keys, "registries.default")
      \cup Err(\E r, q \in keys : r # q /\ RegistryHost[r] = RegistryHost[q],
               "registries.sameHost")

validateIPFamily(family, c) ==
  Err(family \in {"IPv6", "IPv6+IPv4"}, "ipFamily.unsupported")
  \cup Err(family = "IPv4+IPv6"
           /\ CloudProviderName(c) \notin {"aws", "openstack", "vsphere", "none"},
           "ipFamily.provider")

validateCIDRs(c) ==
  Err(HasIPv4(c) /\ ~(IsCIDR(c.podSubnet, 4) /\ IsCIDR(c.serviceSubnet, 4)), "subnets")
  \cup Err(HasIPv6(c) /\ ~(IsCIDR(c.podSubnetIPv6, 6) /\ IsCIDR(c.serviceSubnetIPv6, 6)),
           "subnetsIPv6")
  \cup Err(~HasIPv4(c) /\ ~HasIPv6(c), "ipFamily.unknown")

validateNodeCIDRMaskSize(c) ==
  LET bad(mask, cidr) ==
        mask = Nil \/ cidr \notin DOMAIN CIDRs \/ CIDRs[cidr].mask >= mask
  IN  Err(HasIPv4(c) /\ bad(c.mask4, c.podSubnet), "mask4")
      \cup Err(HasIPv6(c) /\ bad(c.mask6, c.podSubnetIPv6), "mask6")

ValidateKubeProxy(kp) == Err(kp.iptables /\ kp.ipvs, "kubeProxy")

ValidateCNI(cni) ==
  LET used == {x \in {"canal", "cilium", "weave", "external"} :
                 CASE x = "canal" -> cni.canal # Nil
                   [] x = "cilium" -> cni.cilium # Nil
                   [] OTHER -> cni[x]}
  IN  Err(cni.canal = 0, "cni.mtu")
      \cup Err(Cardinality(used) > 1, "cni.one")
      \cup Err(used = {}, "cni.none")

ValidateClusterNetworkConfig(c) ==
  validateIPFamily(c.ipFamily, c) \cup validateCIDRs(c) \cup validateNodeCIDRMaskSize(c)
  \cup (IF c.cni = Nil THEN {} ELSE ValidateCNI(c.cni))
  \cup (IF c.kubeProxy = Nil THEN {} ELSE ValidateKubeProxy(c.kubeProxy))

maxClusterDNSServers == 3

ValidateClusterDNS(c) ==
  IF c.clusterDNS = <<>> THEN {}
  ELSE Err(Len(c.clusterDNS) > maxClusterDNSServers, "clusterDNS.max")
       \cup Err(ToSet(c.clusterDNS) \ IPs # {}, "clusterDNS.ip")
       \cup Err(Deployed(c.nodeLocalDNS), "clusterDNS.nodeLocal")

ValidateCilium(c) ==
  LET ci == c.cni.cilium IN
  IF c.cni = Nil \/ ci = Nil THEN {}
  ELSE Err(ci.lrp /\ Deployed(c.nodeLocalDNS), "cilium.nodeLocal")
       \cup Err(ci.kpr /\ (c.kubeProxy = Nil \/ ~c.kubeProxy.skip), "cilium.kubeProxy")
       \cup Err(ci.gateway /\ ~ci.kpr, "cilium.gateway")
       \cup Err(ci.lrp /\ ~ci.kpr, "cilium.lrp")

----------------------------------------------------------------------------
(* Workers, features, addons and the components' flags. *)

ValidateStaticWorkersConfig(c) ==
  ValidateHostConfig(c.workers, c)
  \cup UNION {Err(w.hostname # "" /\ w.hostname = h.hostname, "workers.hostname")
              \cup Err(w.priv = h.priv, "workers.privateAddress")
              \cup Err(w.pub = h.pub, "workers.publicAddress")
                : w \in ToSet(c.workers), h \in ToSet(c.hosts)}

ValidateDynamicWorkerConfig(c) ==
  UNION {Err(w.name = "", "dynamicWorkers.name")
         \cup Err(w.replicas = Nil \/ w.replicas < 0, "dynamicWorkers.replicas")
         \cup (IF w.family = "" THEN {} ELSE validateIPFamily(w.family, c))
           : w \in ToSet(c.dynamicWorkers)}

ValidateOperatingSystemManager(c) == Err(~Deployed(c.mc), "osm")

ValidateWorkers(c) ==
  ValidateStaticWorkersConfig(c)
  \cup (IF Deployed(c.mc) THEN ValidateDynamicWorkerConfig(c)
        ELSE Err(c.dynamicWorkers # <<>>, "dynamicWorkers"))
  \cup (IF c.osm THEN ValidateOperatingSystemManager(c) ELSE {})

(* PEM is the only bundle content the model tells from garbage. *)
ValidateCABundle(c) == Err(c.caCert = "garbage", "caBundle")

Enabled(f) == f # Nil /\ f.enable

ValidateStaticAuditLogConfig(a) ==
  Err(a.policy = "" \/ a.path = "" \/ a.age <= 0 \/ a.backup <= 0 \/ a.size <= 0,
      "staticAuditLog")

ValidateOIDCConfig(o) == Err(o.issuer = "" \/ o.clientID = "", "oidc")

ValidateFeatures(c) ==
  Err(c.coreDNS # Nil /\ c.coreDNS.replicas # Nil /\ c.coreDNS.replicas < 0, "coreDNS")
  \cup Err(Enabled(c.eventRate) /\ c.eventRate.file = "", "eventRateLimit")
  \cup Err(Enabled(c.podSelector) /\ c.podSelector.file = "", "podNodeSelector")
  \cup (IF Enabled(c.auditLog) THEN ValidateStaticAuditLogConfig(c.auditLog) ELSE {})
  \cup Err(Enabled(c.webhook) /\ (c.webhook.policy = "" \/ c.webhook.file = ""), "webhookAuditLog")
  \cup (IF Enabled(c.oidc) THEN ValidateOIDCConfig(c.oidc) ELSE {})
  \cup Err(Enabled(c.authn) /\ c.authn.file = "", "authn.file")
  \cup Err(Enabled(c.authn) /\ Enabled(c.oidc), "authn.oidc")

(* files: the charts and value files that can be read. *)
validateHelmReleases(c, files) ==
  UNION {Err(hr.chart = "" /\ hr.chartURL = "", "helm.chart")
         \cup Err((hr.authUser = "") # (hr.authPassword = ""), "helm.auth")
         \cup Err(hr.namespace = "", "helm.namespace")
         \cup Err(hr.repoURL = "" /\ hr.chartURL = "" /\ hr.chart \notin files, "helm.localChart")
         \cup Err(hr.chartURL # "" /\ hr.release = "", "helm.releaseName")
         \cup Err(hr.values # "" /\ hr.values \notin files, "helm.values")
           : hr \in ToSet(OnlyHelmReleases(c))}

ValidateRegistryConfiguration(c) ==
  Err(c.insecureRegistry /\ c.overwriteRegistry = "", "insecureRegistry")

Components == {"controllerManager", "scheduler", "apiServer"}

ValidateEtcdConfig(e) ==
  Err(e.quotaGB # 0 /\ e.quotaGB < 2, "etcd.quota")
  \cup Err(e.mode \in {"periodic", "revision"} /\ e.retention = "bad", "etcd.retention")
  \cup Err(e.mode \notin {"", "periodic", "revision"}, "etcd.mode")

ValidateControlPlaneComponents(c) ==
  IF c.components = Nil THEN {}
  ELSE Err(\E x \in Components : "feature-gates" \in c.components[x], "components.featureGates")
       \cup (IF c.components.etcd = Nil THEN {} ELSE ValidateEtcdConfig(c.components.etcd))

ValidateAuthenticationConfigurationFlags(c) ==
  Err(/\ Enabled(c.authn) /\ c.components # Nil
      /\ c.components.apiServer \cap {"authentication-config", "oidc-issuer-url"} # {},
      "authn.flags")

ValidateKubeOneCluster(c, files) ==
  ValidateName(c) \cup ValidateControlPlaneConfig(c) \cup ValidateKubeletConfig(c.kubelet)
  \cup ValidateJournaldConfig(c) \cup ValidateAPIEndpoint(c)
  \cup ValidateCloudProviderSpec(c) \cup ValidateVersionConfig(c)
  \cup ValidateKubernetesSupport(c) \cup ValidateContainerRuntimeConfig(c)
  \cup ValidateClusterNetworkConfig(c) \cup ValidateClusterDNS(c) \cup ValidateCilium(c)
  \cup ValidateWorkers(c) \cup ValidateCABundle(c) \cup ValidateFeatures(c)
  \cup validateHelmReleases(c, files) \cup ValidateRegistryConfiguration(c)
  \cup ValidateControlPlaneComponents(c) \cup ValidateAuthenticationConfigurationFlags(c)

============================================================================
