----------------------------- MODULE ConfigLoad -----------------------------
(* From a manifest to the cluster object every command works on:              *)
(* BytesToKubeOneCluster of apis/kubeone/config (Terraform output, static     *)
(* defaults, conversion, a second defaulting as v1beta3, dynamic defaults,    *)
(* validation) and, for a control plane made of nodeSets, the hosts found at  *)
(* the cloud provider and defaulted by tasks.defaultCluster.  A step is one   *)
(* stage; the object is the one record of module Cluster all the way.         *)
EXTENDS Terraform, Validation

CONSTANTS Worlds   \* the inputs: see WorldFields

LOCAL V2 == INSTANCE DefaultsV1beta2
LOCAL V3 == INSTANCE DefaultsV1beta3

WorldFields ==
  {"meta",       \* [apiVersion, kind] of the manifest
   "manifest",   \* the cluster object decoded from it
   "tf",         \* Nil or the Terraform output
   "creds",      \* Nil (no file) or [ok, cloudConfig, csiConfig, registries]
   "files",      \* the files and charts that can be read
   "bundle",     \* the content of the CA file
   "authnValid", \* does the AuthenticationConfiguration file pass its checks?
   "vms"}        \* what the cloud provider knows of a VM: [pub, priv]

VARIABLES
  world,     \* the inputs, fixed
  stage,     \* the stage reached
  cluster    \* the cluster object

vars == <<world, stage, cluster>>

Stop(outcome) == stage' = outcome /\ UNCHANGED <<world, cluster>>

Go(next, c) == stage' = next /\ cluster' = c /\ UNCHANGED world

AllowedAPIs == {"kubeone.k8c.io/v1beta2"}

(* The manifest is refused before it is decoded for a wrong type. *)
ReadManifest ==
  /\ stage = "read"
  /\ IF world.meta.kind = "KubeOneCluster" /\ world.meta.apiVersion \in AllowedAPIs
     THEN Go("terraform", world.manifest)
     ELSE Stop("failed")

ApplyTerraform ==
  /\ stage = "terraform"
  /\ IF world.tf = Nil THEN Go("default", cluster)
     ELSE \E c \in Apply(cluster, world.tf) :
            IF c = Nil THEN Stop("failed") ELSE Go("default", c)

(* Defaults of the version the manifest is written in, then the conversion to *)
(* the internal object.                                                       *)
DefaultedV1Beta2KubeOneCluster ==
  /\ stage = "default"
  /\ Go("redefault",
        V2!Convert_KubeOneCluster_To_kubeone(V2!SetDefaults_KubeOneCluster(cluster)))

(* Mutant: converted back into a new object. *)
IntoNewObject(c) == [V3!SetDefaults_KubeOneCluster(c) EXCEPT !.assets = EmptyCluster.assets]

(* Internal to v1beta3 and back.  v1beta3 has no asset configuration; the     *)
(* object converted back into still holds it.                                 *)
DefaultAsV1beta3(c) == [V3!SetDefaults_KubeOneCluster(c) EXCEPT !.assets = c.assets]

RedefaultNodeSets ==
  /\ stage = "redefault"
  /\ Go("dynamic",
        IF NodeSets(cluster) # <<>> THEN DefaultAsV1beta3(cluster) ELSE cluster)

----------------------------------------------------------------------------
(* Dynamic defaults. *)

defaultAWSCCMCloudConfig(c) == "aws-" \o c.ipFamily

SetDefaultsCloudConfig(c) ==
  IF "aws" \in c.providers /\ c.external
  THEN [c EXCEPT !.cloudConfig = OrString(@, defaultAWSCCMCloudConfig(c))] ELSE c

(* The content of the CA file replaces the bundle, and the old caBundle field *)
(* follows it.                                                                *)
sourceCertificateAuthority(c) ==
  LET cert == IF c.caFile # "" THEN world.bundle ELSE c.caCert
  IN  [c EXCEPT !.caCert = cert, !.caBundle = IF cert # "" THEN cert ELSE @]

ZeroRegistry == [mirrors |-> {}, overridePath |-> FALSE, auth |-> Nil, insecure |-> FALSE]

(* Only the credentials are taken over; a registry the manifest does not name *)
(* is added with nothing but them.                                            *)
setRegistriesAuth(c, auths) ==
  LET have == IF c.containerd.registries = Nil THEN <<>> ELSE c.containerd.registries
      reg(r) == IF r \in DOMAIN have THEN have[r] ELSE ZeroRegistry
  IN  [c EXCEPT !.containerd.registries =
         [r \in DOMAIN auths |-> [reg(r) EXCEPT !.auth = auths[r]]] @@ have]

(* What the credentials file may hold that fails the load. *)
badCredentials(c) ==
  world.creds # Nil /\
    \/ ~world.creds.ok
    \/ world.creds.cloudConfig # Nil /\ c.cloudConfig # ""
    \/ world.creds.registries # Nil /\ c.containerd = Nil

sourceCredentials(c) ==
  IF world.creds = Nil THEN c
  ELSE LET d == [c EXCEPT !.cloudConfig = OrPointer(world.creds.cloudConfig, @),
                          !.csiConfig = OrPointer(world.creds.csiConfig, @)]
       IN  IF world.creds.registries = Nil THEN d
           ELSE setRegistriesAuth(d, world.creds.registries)

kubeapiTags(c) == {<<"kubeone_cluster_name", c.name>>, <<"kubeone_role", "api">>}

setDefaultAWSControlPlane(c, lb) ==
  [lb EXCEPT !.lbName = OrString(@, c.name \o "-kubeapi"),
             !.internal = OrPointer(@, FALSE),
             !.tags = OrPointer(@, {}) \cup kubeapiTags(c)]

(* internal stands for the PublicIP switch, with the opposite default. *)
setDefaultHetznerControlPlane(c, lb) ==
  [lb EXCEPT !.lbName = OrString(@, c.name \o "-kubeapi"),
             !.type = OrString(@, "lb11"),
             !.location = OrString(@, "nbg1"),
             !.internal = OrPointer(@, FALSE),
             !.tags = OrPointer(@, {}) \cup kubeapiTags(c)]

setDefaultOpenstackControlPlane(c, lb) ==
  [lb EXCEPT !.lbName = OrString(@, c.name \o "-kube-apiserver")]

setDefaultKubevirtControlPlane(c, lb) ==
  [lb EXCEPT !.lbName = OrString(@, c.name \o "-kubeapi")]

(* A malformed spec reads as the zero one. *)
firstZone(c) ==
  IF NodeSets(c) = <<>> \/ NodeSets(c)[1].spec = Nil THEN <<>>
  ELSE NodeSets(c)[1].spec.zone

setDefaultDigitalOceanControlPlane(c, lb) ==
  LET placed == [lb EXCEPT !.lbRegion = IF @ = <<>> THEN firstZone(c) ELSE @]
  IN  IF lb.lbID # "" THEN placed
      ELSE [placed EXCEPT !.lbName = OrString(@, c.name \o "-kubeapi"),
                          !.size = OrNumber(@, 1)]

setDefaultAzureControlPlane(c, lb) ==
  LET name == OrString(lb.lbName, c.name \o "-kubeapi")
  IN  [lb EXCEPT !.lbName = name,
                 !.sku = OrString(@, "Standard"),
                 !.ipName = OrString(@, name \o "-pubip")]

(* All segments of a zone but the last; nothing for a zone without a dash. *)
gceZoneRegion(zone) == IF Len(zone) < 2 THEN <<>> ELSE Front(zone)

setDefaultGCEControlPlane(c, lb) ==
  [lb EXCEPT !.lbRegion = IF @ = <<>> THEN gceZoneRegion(firstZone(c)) ELSE @,
             !.lbName = OrString(@, c.name \o "-kubeapi"),
             !.sources = IF @ = <<>> THEN <<"0.0.0.0/0">> ELSE @]

setDefaultControlPlane(c, p, lb) ==
  CASE p = "aws" -> setDefaultAWSControlPlane(c, lb)
    [] p = "hetzner" -> setDefaultHetznerControlPlane(c, lb)
    [] p = "openstack" -> setDefaultOpenstackControlPlane(c, lb)
    [] p = "kubevirt" -> setDefaultKubevirtControlPlane(c, lb)
    [] p = "azure" -> setDefaultAzureControlPlane(c, lb)
    [] p = "digitalocean" -> setDefaultDigitalOceanControlPlane(c, lb)
    [] p = "gce" -> setDefaultGCEControlPlane(c, lb)

(* The order in which the switch looks for the provider of the control plane. *)
ManagedProviders ==
  <<"aws", "hetzner", "openstack", "kubevirt", "azure", "digitalocean", "gce">>

managedProvider(c) ==
  LET set == SelectSeq(ManagedProviders, LAMBDA p : p \in c.providers)
  IN  IF set = <<>> THEN Nil ELSE Head(set)

(* Every provider but KubeVirt dereferences its control plane spec. *)
SetKubeOneClusterDynamicDefaults ==
  /\ stage = "dynamic"
  /\ LET c == sourceCertificateAuthority(SetDefaultsCloudConfig(cluster))
         d == DefaultAssetConfiguration(sourceCredentials(c))
         p == managedProvider(c)
     IN  IF (cluster.caFile # "" /\ cluster.caFile \notin world.files) \/ badCredentials(c)
         THEN Stop("failed")
         ELSE IF c.nodeSets = Nil THEN Go("validate", d)
         ELSE IF p = Nil THEN Stop("failed")
         ELSE IF c.cp[p] # Nil
         THEN Go("validate", [d EXCEPT !.cp[p] = setDefaultControlPlane(d, p, @)])
         ELSE IF p = "kubevirt" THEN Go("validate", d)
         ELSE Stop("panicked")

validateAuthenticationConfigurationFile(c) ==
  ~Enabled(c.authn) \/ (c.authn.file \in world.files /\ world.authnValid)

Validate ==
  /\ stage = "validate"
  /\ Stop(IF /\ ValidateKubeOneCluster(cluster, world.files) = {}
             /\ validateAuthenticationConfigurationFile(cluster)
          THEN "loaded" ELSE "failed")

----------------------------------------------------------------------------
(* A control plane made of nodeSets has no hosts until a command looks its    *)
(* VMs up; status, reset and the other commands do so once.                   *)

(* The node sets of the model name no key file and no labels. *)
HostConfigFromMachine(m, ns) ==
  [id |-> 0, pub |-> m.pub, priv |-> m.priv, v6 |-> FALSE, hostname |-> m.hostname,
   os |-> ns.os, user |-> OrString(ns.user, "root"), port |-> ns.port, key |-> "",
   agent |-> ns.agent, bastionPort |-> ns.bastionPort, bastionUser |-> ns.bastionUser,
   leader |-> FALSE, taints |-> ns.taints, labels |-> {},
   kubelet |-> [maxPods |-> Nil, gcHigh |-> Nil, gcLow |-> Nil]]

(* The i-th machine belongs to the i-th replica slot across the nodeSets. *)
MachineNodeSets(c) ==
  FlattenSeq([i \in DOMAIN c.nodeSets |->
                [r \in 1..c.nodeSets[i].replicas |-> c.nodeSets[i]]])

HostConfigsFromMachines(machines, slots) ==
  [i \in 1..Len(slots) |-> HostConfigFromMachine(machines[i], slots[i])]

(* WithFindControlPlane: the lookup fails as a whole when a VM is missing. *)
LookupVMs ==
  /\ stage = "loaded" /\ NodeSets(cluster) # <<>>
  /\ LET slots == MachineNodeSets(cluster) IN
     IF Len(slots) > Len(world.vms) THEN Stop("failed")
     ELSE Go("found", [cluster EXCEPT
            !.hosts = @ \o HostConfigsFromMachines(world.vms, slots)])

defaultCluster ==
  /\ stage = "found"
  /\ Go("ready", DefaultAsV1beta3(cluster))

HostsGiven ==
  /\ stage = "loaded" /\ NodeSets(cluster) = <<>>
  /\ Go("ready", cluster)

Init ==
  /\ world \in Worlds
  /\ stage = "read"
  /\ cluster = world.manifest

Next ==
  \/ ReadManifest
  \/ ApplyTerraform
  \/ DefaultedV1Beta2KubeOneCluster
  \/ RedefaultNodeSets
  \/ SetKubeOneClusterDynamicDefaults
  \/ Validate
  \/ LookupVMs
  \/ HostsGiven
  \/ defaultCluster

Spec == Init /\ [][Next]_vars
----------------------------------------------------------------------------
(* Properties. *)

(* Every command indexes hosts by ID, asks for the one leader and dials every *)
(* host over SSH without looking again: an object a command starts on has     *)
(* exactly one leader, distinct IDs over control plane and static workers,    *)
(* and an address, a user, a port and a key or an agent for each of them,     *)
(* whether the hosts come from the manifest, Terraform or the cloud.          *)
HostsUsable ==
  stage = "ready" =>
    LET all == cluster.hosts \o cluster.workers IN
    /\ Cardinality(Leaders(cluster)) = 1
    /\ IsInjective([i \in DOMAIN all |-> all[i].id])
    /\ \A i \in DOMAIN all :
         /\ all[i].pub # "" /\ all[i].priv # "" /\ all[i].user # "" /\ all[i].port # 0
         /\ all[i].key # "" \/ all[i].agent # ""

(* Fields the user alone decides once they are set: neither Terraform nor the *)
(* credentials file writes them.                                              *)
UserFields ==
  {"apiPort", "region", "infraNamespace", "external", "disableCSI", "ipFamily",
   "podSubnet", "serviceSubnet", "podSubnetIPv6", "serviceSubnetIPv6", "mask4",
   "mask6", "domain", "nodePorts", "clusterDNS", "http", "https", "logMaxSize",
   "logMaxFiles", "journald", "mc", "osm", "sysPackages", "metricsServer",
   "authn", "eventRate", "podSelector", "nodeLocalDNS", "caFile",
   "overwriteRegistry", "insecureRegistry", "components", "kubelet"}

Kept(given, blank, got) == given = blank \/ got = given

(* No default, of either version, static or dynamic, replaces a value the     *)
(* user wrote, one level into the structures that are defaulted inside.       *)
UserWins ==
  stage \in {"loaded", "found", "ready"} =>
    LET m == world.manifest IN
    /\ \A f \in UserFields : Kept(m[f], EmptyCluster[f], cluster[f])
    /\ \A f \in {"coreDNS", "auditLog", "oidc"} : m[f] # Nil =>
         \A g \in DOMAIN m[f] : Kept(m[f][g], EmptyFeature[f][g], cluster[f][g])
    /\ \A p \in DOMAIN m.cp : m.cp[p] # Nil =>
         \A g \in DOMAIN EmptyControlPlane \ {"tags"} :
            Kept(m.cp[p][g], EmptyControlPlane[g], cluster.cp[p][g])
    /\ m.cni # Nil => Kept(m.cni.canal, 0, cluster.cni.canal)

(* The object is defaulted two more times as v1beta3, whose defaults differ   *)
(* from those of v1beta2: that may complete hosts that have just been found,  *)
(* set a missing port of the endpoint, make an absent list of addons an empty *)
(* one and prepend to NoProxy what it already has, and changes nothing else.  *)
RedefaultingIsStable ==
  [][(stage = "redefault" \/ stage = "found") =>
       /\ \A f \in DOMAIN cluster \ {"hosts", "workers", "noProxy", "apiPort", "addons"} :
            cluster'[f] = cluster[f]
       /\ AddonsEnabled(cluster') = AddonsEnabled(cluster)
       /\ DeclaredAddonsOnly(cluster') = DeclaredAddonsOnly(cluster)
       /\ OnlyHelmReleases(cluster') = OnlyHelmReleases(cluster)
       /\ cluster.apiPort \in {0, cluster'.apiPort}
       /\ ToSet(cluster'.noProxy) = ToSet(cluster.noProxy)
       /\ \A f \in {"pub", "priv", "agent", "user"} : \A i \in DOMAIN cluster.hosts :
            cluster.hosts[i][f] \in {"", cluster'.hosts[i][f]}]_vars
=============================================================================
