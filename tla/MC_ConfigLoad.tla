--------------------------- MODULE MC_ConfigLoad ---------------------------
(* A complete manifest for every provider, with hosts, with nodeSets, with    *)
(* both or with neither, and one variation of it at a time.                   *)
EXTENDS ConfigLoad

MCCIDRs ==
  ("10.244.0.0/16" :> [family |-> 4, mask |-> 16]) @@
  ("10.96.0.0/12" :> [family |-> 4, mask |-> 12]) @@
  ("10.0.0.0/25" :> [family |-> 4, mask |-> 25]) @@
  ("0.0.0.0/0" :> [family |-> 4, mask |-> 0]) @@
  ("fd01::/48" :> [family |-> 6, mask |-> 48]) @@
  ("fd02::/120" :> [family |-> 6, mask |-> 120])

MCToLower == [image |-> "image", Image |-> "image", size |-> "size", disk |-> "disk",
              other |-> "other"]
MCSpecFields == [image |-> FALSE, size |-> FALSE, disk |-> TRUE]
LongName == "cluster-with-a-rather-long-name"
MCDNSNames == {"k1", "tf", LongName}
MCLabelNames == MCDNSNames \cup {"lb", "k1-kubeapi", "tf-kubeapi", LongName \o "-kubeapi"}
MCRegistryHost == [docker |-> "docker", mirror |-> "docker", quay |-> "quay"]

Kubelet == [maxPods |-> Nil, gcHigh |-> Nil, gcLow |-> Nil]

Host(pub, priv) ==
  [id |-> 0, pub |-> pub, priv |-> priv, v6 |-> FALSE, hostname |-> pub, os |-> "ubuntu",
   user |-> "", port |-> 0, key |-> "", agent |-> "", bastionPort |-> 0,
   bastionUser |-> "", leader |-> FALSE, taints |-> Nil, labels |-> {}, kubelet |-> Kubelet]

Zone(last) == <<"europe", "west3", last>>

NodeSet(name, zone) ==
  [name |-> name, replicas |-> 0, taints |-> Nil, port |-> 0, bastionPort |-> 0,
   user |-> "", bastionUser |-> "", agent |-> "", os |-> "ubuntu",
   spec |-> [zone |-> zone, project |-> "", secret |-> FALSE, size |-> "s",
             private |-> Nil]]

(* DigitalOcean puts all droplets in one region, GCE spreads over zones. *)
Sets(p) ==
  <<NodeSet("a", Zone("a")),
    [NodeSet("b", Zone(IF p = "gce" THEN "b" ELSE "a")) EXCEPT !.user = "core"],
    NodeSet("c", Zone(IF p = "gce" THEN "c" ELSE "a"))>>

Shapes == {"hosts", "nodeSets", "both", "neither", "emptySets"}

Manifest(p, shape) ==
  [EmptyCluster EXCEPT
     !.name = "k1",
     !.hosts = IF shape \in {"hosts", "both"}
               THEN <<Host("1.1", ""), Host("", "2.2")>> ELSE <<>>,
     !.nodeSets = CASE shape \in {"nodeSets", "both"} -> Sets(p)
                    [] shape = "emptySets" -> <<>>
                    [] OTHER -> Nil,
     !.providers = {p},
     !.cp = p :> IF p \in {"azure", "kubevirt"} /\ shape # "hosts"
                 THEN EmptyControlPlane ELSE Nil,
     !.region = "eu", !.networkID = "net", !.infraNamespace = "infra",
     !.cloudConfig = IF p \in {"azure", "openstack", "vsphere"} THEN "cc" ELSE "",
     !.csiConfig = IF p = "vsphere" THEN "csi" ELSE "",
     !.kubernetes = [v |-> TRUE, minor |-> 36, eks |-> FALSE]]

(* Variations of the manifest, as functions of it. *)
LB(m, lb) == [m EXCEPT !.cp = [q \in DOMAIN @ |-> lb @@ EmptyControlPlane]]

Helm == [chart |-> "c", chartURL |-> "", namespace |-> "ns", repoURL |-> "r",
         release |-> "", waitMinutes |-> 0, authUser |-> "", authPassword |-> "",
         values |-> ""]

Network(m) ==
  {[m EXCEPT !.ipFamily = f] : f \in {"IPv4+IPv6", "IPv6", "bad"}}
  \cup {[m EXCEPT !.podSubnet = "10.0.0.0/25"], [m EXCEPT !.podSubnet = "x"],
        [m EXCEPT !.mask4 = 30, !.podSubnet = "10.0.0.0/25"],
        [m EXCEPT !.http = "proxy", !.noProxy = <<"corp">>],
        [m EXCEPT !.clusterDNS = <<"1.1">>], [m EXCEPT !.clusterDNS = <<"1.1">>, !.nodeLocalDNS = FALSE],
        [m EXCEPT !.kubeProxy = [skip |-> FALSE, iptables |-> TRUE, ipvs |-> TRUE]],
        [m EXCEPT !.domain = "corp", !.nodePorts = "1-2", !.apiPort = 443],
        [m EXCEPT !.apiPort = 70000], [m EXCEPT !.altNames = <<"a", "a">>]}
  \cup {[m EXCEPT !.cni = [canal |-> n, cilium |-> ci, weave |-> w, external |-> FALSE],
                  !.kubeProxy = [skip |-> ci # Nil, iptables |-> FALSE, ipvs |-> FALSE]] :
          n \in {Nil, 0, 1400}, w \in BOOLEAN,
          ci \in {Nil} \cup [kpr : {"", "strict"}, gateway : BOOLEAN, lrp : {FALSE}]}

Parts(m) ==
  {[m EXCEPT !.mc = mc, !.osm = osm, !.external = ext] :
     mc \in {Nil, FALSE, TRUE}, osm \in {Nil, TRUE}, ext \in BOOLEAN}
  \cup {[m EXCEPT !.kubernetes.minor = n] : n \in {Nil, 34, 38}}
  \cup {[m EXCEPT !.kubernetes.eks = TRUE]}
  \cup {[m EXCEPT !.logMaxFiles = 9, !.journald = j, !.logMaxSize = "1Mi"] : j \in {"1G", "bad"}}
  \cup {[m EXCEPT !.auditLog = a @@ EmptyFeature.auditLog] :
          a \in [enable : BOOLEAN, policy : {"", "p"}, age : {7}]}
  \cup {[m EXCEPT !.oidc = [enable |-> TRUE, issuer |-> i, clientID |-> "me"]] : i \in {"", "i"}}
  \cup {[m EXCEPT !.authn = [enable |-> TRUE, file |-> f]] : f \in {"", "authn", "lost"}}
  \cup {[m EXCEPT !.caBundle = "pem"], [m EXCEPT !.caCert = "garbage"],
        [m EXCEPT !.caFile = "ca", !.caBundle = "old"], [m EXCEPT !.caFile = "lost"],
        [m EXCEPT !.coreDNS = [replicas |-> 3, pdb |-> FALSE, image |-> "img"],
                  !.overwriteRegistry = "reg"],
        [m EXCEPT !.insecureRegistry = TRUE], [m EXCEPT !.name = LongName],
        [m EXCEPT !.addons = [path |-> "", refs |-> <<[name |-> "x"]>>], !.helmReleases = <<Helm>>],
        [m EXCEPT !.helmReleases = <<[Helm EXCEPT !.chart = "", !.chartURL = "u"]>>],
        [m EXCEPT !.components = [controllerManager |-> {}, scheduler |-> {},
           apiServer |-> {"feature-gates"}, etcd |-> [quotaGB |-> 1, mode |-> "", retention |-> ""]]]}

Machines(m) ==
  {[m EXCEPT !.providers = {"aws", "gce", "hetzner"}, !.cp = [q \in {"aws", "gce", "hetzner"} |-> Nil]],
   [m EXCEPT !.providers = {"gce", "hetzner"}, !.cp = [q \in {"gce", "hetzner"} |-> Nil]],
   [m EXCEPT !.cp = [q \in DOMAIN @ |-> Nil]],
   LB(m, [lbName |-> "lb"]), LB(m, [lbRegion |-> <<"us", "east1">>]),
   LB(m, [lbID |-> "id", sku |-> "Fast"]),
   [m EXCEPT !.workers = <<Host("9.9", "")>>],
   [m EXCEPT !.workers = <<[Host("9.9", "9.9") EXCEPT !.user = "u", !.agent = "a"]>>],
   [m EXCEPT !.workers = <<Host("1.1", "")>>]}
  \cup {[m EXCEPT !.hosts = [i \in DOMAIN @ |-> [@[i] EXCEPT !.leader = i \in lead]]] :
          lead \in {{2}, {1, 2}}}
  \cup (IF m.nodeSets \in {Nil, <<>>} THEN {}
        ELSE {[m EXCEPT !.nodeSets[2].spec.zone = z] : z \in {<<>>, <<"us", "east1", "a">>}}
             \cup {[m EXCEPT !.nodeSets[1].replicas = 2], [m EXCEPT !.nodeSets = Tail(@)],
                   [m EXCEPT !.nodeSets[3].spec = Nil]})

Group == [pub |-> <<"3.3", "4.4">>, priv |-> <<"5.5">>, v6 |-> <<>>, hostnames |-> <<>>,
          os |-> "", user |-> "tf", port |-> 0, key |-> "", agent |-> "",
          bastionPort |-> 0, bastionUser |-> "", labels |-> {}, kubelet |-> Kubelet]

Output ==
  [endpoint |-> "tf.lb", altNames |-> <<>>, http |-> "", https |-> "", noProxy |-> <<>>,
   provider |-> Nil, clusterName |-> "tf",
   leaderIP |-> "4.4", untaint |-> FALSE, networkID |-> "", vApp |-> "", group |-> Group,
   staticWorkers |-> <<[Group EXCEPT !.pub = <<>>, !.priv = <<"7.7">>],
                       [Group EXCEPT !.pub = <<"8.8">>, !.priv = <<>>]>>,
   workers |-> <<>>]

Value == [null |-> FALSE, zero |-> FALSE, bool |-> FALSE]
Pool(spec) == [name |-> "pool", replicas |-> 1, spec |-> spec, family |-> ""]

Outputs ==
  {Output, [Output EXCEPT !.provider = "packet"], [Output EXCEPT !.provider = "gce"],
   [Output EXCEPT !.http = "tf.proxy", !.https = "tf.proxy", !.noProxy = <<"tf.local">>],
   [Output EXCEPT !.provider = "unknown"], [Output EXCEPT !.leaderIP = "", !.untaint = TRUE],
   [Output EXCEPT !.group.pub = <<>>, !.group.priv = <<>>, !.staticWorkers = <<>>]}
  \cup {[Output EXCEPT !.workers = [w \in {"pool", "p2"} |-> Pool(k :> Value)]] :
          k \in {"Image", "size", "other"}}

Credentials ==
  {[ok |-> FALSE, cloudConfig |-> Nil, csiConfig |-> Nil, registries |-> Nil],
   [ok |-> TRUE, cloudConfig |-> "cred", csiConfig |-> Nil, registries |-> Nil],
   [ok |-> TRUE, cloudConfig |-> Nil, csiConfig |-> "cred", registries |-> Nil],
   [ok |-> TRUE, cloudConfig |-> Nil, csiConfig |-> Nil, registries |-> [quay |-> "auth"]]}

Registries ==
  [docker |-> [mirrors |-> {"m"}, overridePath |-> FALSE, auth |-> Nil, insecure |-> FALSE]]

World(m) ==
  [meta |-> [apiVersion |-> "kubeone.k8c.io/v1beta2", kind |-> "KubeOneCluster"],
   manifest |-> m, tf |-> Nil, creds |-> Nil, files |-> {"authn", "ca"},
   bundle |-> "pem", authnValid |-> TRUE,
   vms |-> [i \in 1..4 |-> [pub |-> IF i = 2 THEN "" ELSE "vm", priv |-> "vm", hostname |-> "vm"]]]

MCWorlds ==
  LET base == {Manifest(p, s) : p \in Providers, s \in Shapes}
      varied == UNION {{m} \cup Network(m) \cup Parts(m) \cup Machines(m) : m \in base}
      pooled(m) == [m EXCEPT !.dynamicWorkers = <<Pool("image" :> Value)>>]
  IN  {World(m) : m \in varied}
      \cup {[World(m) EXCEPT !.tf = o] : m \in base \cup {pooled(n) : n \in base}, o \in Outputs}
      \cup {[World([m EXCEPT !.containerd = c]) EXCEPT !.creds = k] : m \in base, k \in Credentials,
              c \in {Nil, [device |-> Nil, registries |-> Registries]}}
      \cup {[World(m) EXCEPT !.vms = <<>>] : m \in base}
      \cup {[World(m) EXCEPT !.meta.kind = "Pod"] : m \in base}

=============================================================================
