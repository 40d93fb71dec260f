------------------------------ MODULE Cluster ------------------------------
(* The KubeOneCluster object and the questions the code asks of it.  The      *)
(* object is one flat record; a field is named after its Go field, with the   *)
(* struct it sits in as a prefix where the bare name would be ambiguous.  A   *)
(* Go nil is Nil, an empty string "", a name or an address a plain string.    *)
EXTENDS Integers, Sequences, FiniteSets, TLC, SequencesExt

CONSTANTS
  Nil,         \* a nil pointer, map or slice
  CIDRs        \* what net.ParseCIDR accepts: CIDR string -> [family, mask]

----------------------------------------------------------------------------
(* The zero-value helper of Go, one per kind of value. *)
OrString(x, d) == IF x # "" THEN x ELSE d
OrNumber(x, d) == IF x # 0 THEN x ELSE d
OrPointer(x, d) == IF x # Nil THEN x ELSE d

Providers ==
  {"aws", "azure", "digitalocean", "gce", "hetzner", "kubevirt", "nutanix",
   "openstack", "equinixmetal", "vsphere", "vmwareCloudDirector", "none"}

(* The order in which the code asks which provider pointer is set. *)
ProviderOrder ==
  <<"aws", "azure", "digitalocean", "gce", "hetzner", "kubevirt", "nutanix",
    "openstack", "equinixmetal", "vsphere", "vmwareCloudDirector", "none">>

CloudProviderName(c) ==
  LET found == SelectSeq(ProviderOrder, LAMBDA p : p \in c.providers)
  IN  IF found = <<>> THEN "" ELSE Head(found)

(* A control plane spec with nothing set, the load balancer it stands for     *)
(* included; a region is the sequence of its name's segments.                 *)
EmptyControlPlane ==
  [lbName |-> "", lbID |-> "", lbRegion |-> <<>>, lbProject |-> "", size |-> 0,
   sku |-> "", sources |-> <<>>, internal |-> Nil, location |-> "", type |-> "",
   tags |-> Nil, ipName |-> ""]

(* The zero value of the object and of the features defaulted inside. *)
EmptyCluster ==
  [name |-> "", hosts |-> <<>>, workers |-> <<>>, nodeSets |-> Nil, apiHost |-> "",
   apiPort |-> 0, altNames |-> <<>>, providers |-> {}, cp |-> <<>>, region |-> "",
   networkID |-> "", infraNamespace |-> "", vApp |-> "", external |-> FALSE,
   disableCSI |-> FALSE, cloudConfig |-> "", csiConfig |-> "",
   kubernetes |-> [v |-> FALSE, minor |-> Nil, eks |-> FALSE], containerd |-> Nil, ipFamily |-> "",
   podSubnet |-> "", serviceSubnet |-> "", podSubnetIPv6 |-> "",
   serviceSubnetIPv6 |-> "", mask4 |-> Nil, mask6 |-> Nil, domain |-> "",
   nodePorts |-> "", clusterDNS |-> <<>>, cni |-> Nil, kubeProxy |-> Nil, http |-> "",
   https |-> "", noProxy |-> <<>>, logMaxSize |-> "", logMaxFiles |-> 0,
   journald |-> "", mc |-> Nil, osm |-> Nil, addons |-> Nil, helmReleases |-> <<>>,
   sysPackages |-> Nil, coreDNS |-> Nil, metricsServer |-> Nil, auditLog |-> Nil,
   webhook |-> Nil, oidc |-> Nil, authn |-> Nil, eventRate |-> Nil,
   podSelector |-> Nil, nodeLocalDNS |-> Nil,
   tls |-> [apiServer |-> Nil, etcd |-> Nil, kubelet |-> Nil], caBundle |-> "",
   caCert |-> "", caFile |-> "", overwriteRegistry |-> "", insecureRegistry |-> FALSE,
   components |-> Nil, kubelet |-> [maxPods |-> Nil, gcHigh |-> Nil, gcLow |-> Nil],
   dynamicWorkers |-> <<>>, assets |-> [kubernetes |-> "", etcd |-> "",
   coreDNS |-> "", metricsServer |-> ""]]

EmptyFeature ==
  [coreDNS |-> [replicas |-> Nil, pdb |-> Nil, image |-> ""],
   auditLog |-> [enable |-> FALSE, policy |-> "", path |-> "", age |-> 0,
                 backup |-> 0, size |-> 0],
   oidc |-> [enable |-> FALSE, issuer |-> "", clientID |-> ""]]

OperatingSystems ==
  {"ubuntu", "debian", "centos", "rhel", "rockylinux", "flatcar", ""}

IsValid(os) == os \in OperatingSystems

HasIPv4(c) == c.ipFamily \in {"IPv4", "IPv4+IPv6", "IPv6+IPv4"}
HasIPv6(c) == c.ipFamily \in {"IPv6", "IPv4+IPv6", "IPv6+IPv4"}
IsDualstack(c) == c.ipFamily \in {"IPv4+IPv6", "IPv6+IPv4"}
IsIPv6Primary(c) == c.ipFamily \in {"IPv6", "IPv6+IPv4"}

IsCIDR(s, family) == s \in DOMAIN CIDRs /\ CIDRs[s].family = family

Leaders(c) == {i \in DOMAIN c.hosts : c.hosts[i].leader}

AddonsEnabled(c) == c.addons # Nil /\ (c.addons.path # "" \/ c.addons.refs # <<>>)

DeclaredAddonsOnly(c) ==
  IF c.addons = Nil THEN <<>>
  ELSE SelectSeq(c.addons.refs, LAMBDA r : r.kind = "addon")

OnlyHelmReleases(c) ==
  IF c.addons = Nil THEN <<>>
  ELSE SelectSeq(c.addons.refs, LAMBDA r : r.kind = "helm")

(* Image repositories of the internal API: the CoreDNS one may come from the  *)
(* features, all of them from the overwrite registry, in that order.          *)
DefaultAssetConfiguration(c) ==
  LET dns == IF c.coreDNS # Nil
             THEN [c.assets EXCEPT !.coreDNS = OrString(@, c.coreDNS.image)]
             ELSE c.assets
  IN  [c EXCEPT !.assets =
         IF c.overwriteRegistry = "" THEN dns
         ELSE [a \in DOMAIN dns |-> OrString(dns[a], c.overwriteRegistry)]]

============================================================================
