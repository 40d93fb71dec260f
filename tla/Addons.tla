------------------------------- MODULE Addons --------------------------------
(* pkg/addons: which addons a manifest selects, what each of them consists   *)
(* of, and the requests that bring a cluster there.  An addon is a set of    *)
(* objects; an object keeps what the properties tell apart: its name, the    *)
(* version of its immutable fields (the Pod selector of a workload, the role *)
(* of a binding, the whole of a CSIDriver, StorageClass or Job) and the      *)
(* digests on its Pod template that restart the Pods.  A request is a record *)
(* that LiveCluster carries out; one that cannot succeed is Refused.         *)
EXTENDS Credentials, FiniteSets

Nothing == [provider |-> "", creds |-> NoCredentials]
Object(id, hash, ca, store) ==
    [id |-> id, selector |-> "new", hash |-> hash, ca |-> ca, store |-> store]

Refused == [op |-> "refused"]

\* What is done under a condition.
whenever(cond, list) == IF cond THEN list ELSE <<>>

\* The lists, one after the other.
Flat(lists) ==
    LET flat[i \in 0..Len(lists)] == IF i = 0 THEN <<>> ELSE flat[i - 1] \o lists[i]
    IN flat[Len(lists)]

\* A set in the order in which it happens to be listed.
AnyOrder(S) == CHOOSE list \in [1..Cardinality(S) -> S] : IsInjective(list)

embeddedAddons ==
    {"ccm-aws", "ccm-azure", "ccm-digitalocean", "ccm-hetzner", "ccm-gcp", "ccm-openstack", "ccm-equinixmetal",
     "ccm-packet", "ccm-vsphere", "cluster-autoscaler", "cni-canal", "cni-cilium", "cni-weavenet", "csi-aws-ebs",
     "csi-external-snapshotter", "csi-azuredisk", "csi-azurefile", "csi-digitalocean", "csi-hetzner",
     "csi-kubevirt", "csi-gcp-compute-persistent", "csi-nutanix", "csi-openstack-cinder",
     "csi-vmware-cloud-director", "csi-vsphere", "metrics-server", "nodelocaldns", "nodelocaldns-cilium"}

\* The directories of the embedded file system.
EmbeddedFS ==
    embeddedAddons \cup
    {"backups-restic", "ccm-kubevirt", "ccm-nutanix", "coredns-pdb", "csi-vault-secret-provider",
     "default-storage-class", "etcd-defrag", "machinecontroller", "operating-system-manager",
     "secrets-store-csi-driver", "unattended-upgrades"}

CloudAddons ==
    {"ccm-aws", "ccm-azure", "ccm-gcp", "ccm-digitalocean", "ccm-equinixmetal", "ccm-hetzner", "ccm-openstack",
     "ccm-packet", "ccm-vsphere", "csi-external-snapshotter", "csi-aws-ebs", "csi-azuredisk", "csi-azurefile",
     "csi-digitalocean", "csi-gcp-compute-persistent", "csi-hetzner", "csi-kubevirt", "csi-nutanix",
     "csi-openstack-cinder", "csi-vmware-cloud-director", "csi-vsphere"}

\* The addons whose templates carry a digest of the CCM's credentials, and
\* those that carry one of the cloud-config.
CredentialsHashed ==
    {"ccm-digitalocean", "ccm-equinixmetal", "ccm-gcp", "ccm-hetzner", "ccm-kubevirt", "ccm-nutanix",
     "csi-digitalocean", "csi-gcp-compute-persistent", "csi-nutanix", "csi-vmware-cloud-director"}
CloudConfigHashed == {"ccm-openstack", "ccm-vsphere"}

-----------------------------------------------------------------------------
(* Selection.                                                                *)

\* The directories under addons.path: "" is the path itself.
LocalFS(m) == IF m.path THEN DOMAIN m.local \ {""} ELSE {}

Cilium(m) == m.cni = "cilium"

CSIAddons(m) ==
    CASE m.provider = "aws" -> <<"csi-aws-ebs">>
      [] m.provider = "azure" -> <<"csi-azuredisk", "csi-azurefile">>
      [] m.provider = "gce" -> <<"csi-gcp-compute-persistent">>
      [] m.provider = "digitalocean" -> <<"csi-digitalocean">>
      [] m.provider = "hetzner" -> <<"csi-hetzner">>
      [] m.provider = "kubevirt" -> <<"csi-kubevirt">>
      [] m.provider = "nutanix" -> <<"csi-nutanix">>
      [] m.provider = "openstack" -> <<"csi-openstack-cinder">>
      [] m.provider = "vmwareCloudDirector" -> <<"csi-vmware-cloud-director">>
      [] m.provider = "vsphere" -> <<"csi-vsphere">>
      [] OTHER -> <<>>

ensureCSIAddons(m) ==
    CSIAddons(m) \o whenever(CSIAddons(m) # <<>>, <<"csi-external-snapshotter">>)

ensureCCMAddons(m) ==
    CASE m.provider = "aws" -> <<"ccm-aws">>
      [] m.provider = "azure" -> <<"ccm-azure">>
      [] m.provider = "digitalocean" -> <<"ccm-digitalocean">>
      [] m.provider = "gce" -> <<"ccm-gcp">>
      [] m.provider = "hetzner" -> <<"ccm-hetzner">>
      [] m.provider = "kubevirt" -> <<"ccm-kubevirt">>
      [] m.provider = "nutanix" -> <<"ccm-nutanix">>
      [] m.provider = "openstack" -> <<"ccm-openstack">>
      [] m.provider = "vsphere" -> <<"ccm-vsphere">>
      [] m.provider = "equinixmetal" -> <<"ccm-equinixmetal">>
      [] OTHER -> <<>>

Autoscaled(m) == \E i \in DOMAIN m.addons : m.addons[i] = [name |-> "cluster-autoscaler", delete |-> FALSE]

collectAddons(m) ==
    whenever(m.pdb, <<"coredns-pdb">>)
    \o whenever(m.metricsServer, <<"metrics-server">>)
    \o whenever(m.cni = "canal", <<"cni-canal">>)
    \o whenever(Cilium(m), <<"cni-cilium">>)
    \o whenever(m.cni = "weave", <<"cni-weavenet">>)
    \o whenever(m.nodeLocalDNS, <<"nodelocaldns">>)
    \o whenever(Cilium(m) /\ m.localRedirect, <<"nodelocaldns-cilium">>)
    \o whenever(m.mc, <<"machinecontroller">>)
    \o whenever(m.osm, <<"operating-system-manager">>)
    \o whenever(Autoscaled(m), <<"cluster-autoscaler">>)
    \o whenever(~m.disableCSI, ensureCSIAddons(m))
    \o whenever(m.external, ensureCCMAddons(m))

\* What cleanupAddons deletes.
Unwanted(m) ==
    whenever(~m.pdb, <<"coredns-pdb">>)
    \o whenever(~(Cilium(m) /\ m.localRedirect), <<"nodelocaldns-cilium">>)
    \o whenever(~m.nodeLocalDNS, <<"nodelocaldns">>)

-----------------------------------------------------------------------------
(* Migrations: objects deleted ahead of an addon because an update of them   *)
(* would be refused.  "differs" deletes only what has the old immutable      *)
(* fields.                                                                   *)

migrate(addon, id, when) == [op |-> "migrate", addon |-> addon, id |-> id, when |-> when]

\* The objects of an addon that releases before had with other immutable fields.
Migrations(addon) ==
    LET mig(ids, when) == [i \in DOMAIN ids |-> migrate(addon, ids[i], when)]
    IN CASE addon \in {"metrics-server", "cluster-autoscaler", "ccm-hetzner"} -> mig(<<"Deployment">>, "differs")
         [] addon = "ccm-openstack" -> mig(<<"DaemonSet">>, "differs")
         [] addon = "csi-openstack-cinder" -> mig(<<"Deployment", "DaemonSet">>, "differs")
         [] addon = "csi-azurefile" -> mig(<<"DaemonSet", "Deployment">>, "differs")
         [] addon \in {"csi-aws-ebs", "csi-hetzner"} ->
                mig(<<"Deployment", "DaemonSet">>, "differs") \o mig(<<"CSIDriver">>, "exists")
         [] addon = "csi-azuredisk" -> mig(<<"ClusterRoleBinding">>, "differs") \o mig(<<"CSIDriver">>, "exists")
         [] addon = "cni-cilium" -> mig(<<"Job">>, "exists")
         [] addon = "csi-vsphere" -> mig(<<"ValidatingWebhookConfiguration">>, "exists")
         [] addon = "ccm-vsphere" -> mig(<<"Service">>, "exists")
         [] addon = "default-storage-class" -> mig(<<"StorageClass">>, "exists")
         [] OTHER -> <<>>

\* Deleted by a migration and no longer part of the addon.
Dropped == {"ValidatingWebhookConfiguration", "Service"}

-----------------------------------------------------------------------------
(* Manifests.                                                                *)

\* The cloud-config: credentials.Ensure renders its template and keeps the
\* result for the addons; rendering the result once more changes nothing.
renderCloudConfig(m, ccm) ==
    [provider |-> m.cloudConfig, creds |-> IF m.cloudConfig = "template" /\ m.secretClass = "" THEN ccm ELSE NoCredentials]

\* The credentials of each component.
ComponentCredentials(m) == [typ \in {TypeMC, TypeCCM, TypeOSM} |-> ProviderCredentials(m.provider, m.sources, typ)]

\* newAddonsApplier fails without the credentials of every component: those of
\* machine-controller are asked for even when it is not deployed, and all of them
\* even when a secrets store supplies them.
newAddonsApplier(found, m) == \A typ \in DOMAIN found : found[typ].ok \/ (typ = TypeOSM /\ ~m.osm)

HashOf(found, m, addon) ==
    LET hash(typ) == credentialsHash(m.provider, found[typ].creds)
    IN CASE addon = "machinecontroller" -> hash(TypeMC)
         [] addon = "operating-system-manager" -> hash(TypeOSM)
         [] addon \in CredentialsHashed -> hash(TypeCCM)
         [] addon \in CloudConfigHashed -> renderCloudConfig(m, found[TypeCCM].creds)
         [] OTHER -> Nothing

\* What the templates of an addon render, from addons.path or the embedded file
\* system: the objects, and the digest on their Pods.
loadAddonsManifests(found, m, where, addon, flatcar) ==
    IF where = "local" THEN [ids |-> m.local[addon], hash |-> Nothing]
    ELSE [ids |-> {"Manifest"} \cup ({x.id : x \in Range(Migrations(addon))} \ Dropped)
                  \cup (IF addon = "unattended-upgrades" /\ flatcar THEN {"flatcar-update-operator"} ELSE {}),
          hash |-> HashOf(found, m, addon)]

\* The CA bundle and the volume of the secrets store go into the workloads of
\* the cloud addons and of three more.
getManifestsFromDirectory(found, m, where, addon, flatcar) ==
    LET mutate == addon \in CloudAddons \cup {"backups-restic", "operating-system-manager", "machinecontroller"}
        objects(loaded) ==
            {Object(id, loaded.hash, mutate /\ m.caBundle, mutate /\ m.secretClass # "") : id \in loaded.ids}
    IN objects(loadAddonsManifests(found, m, where, addon, flatcar))

load(op, found, m, where, addon, flatcar) ==
    [op |-> op, addon |-> addon, objs |-> getManifestsFromDirectory(found, m, where, addon, flatcar)]

\* Either operation takes the local addon of that name before the embedded one.
AddonByName(op, found, m, addon, flatcar) ==
    IF ~newAddonsApplier(found, m) \/ addon \notin LocalFS(m) \cup EmbeddedFS THEN Refused
    ELSE load(op, found, m, IF addon \in LocalFS(m) THEN "local" ELSE "embedded", addon, flatcar)

EnsureAddonByName(found, m, addon, flatcar) == AddonByName("apply", found, m, addon, flatcar)

DeleteAddonByName(found, m, addon, flatcar) == AddonByName("delete", found, m, addon, flatcar)

-----------------------------------------------------------------------------
(* The two tasks, as the requests they make.                                 *)

\* The supportFn of an addon.
supportFn(found, m, addon, flatcar) ==
    IF addon = "cni-weavenet" /\ m.weaveEncrypted THEN <<[op |-> "weaveSecret"]>>
    ELSE IF addon = "ccm-equinixmetal" THEN <<DeleteAddonByName(found, m, "ccm-packet", flatcar)>>
    ELSE Migrations(addon)

Deployed(found, m, flatcar) ==
    Flat([i \in DOMAIN collectAddons(m) |->
        LET addon == collectAddons(m)[i]
        IN supportFn(found, m, addon, flatcar) \o <<EnsureAddonByName(found, m, addon, flatcar)>>])

\* Mutant: what the manifest no longer wants is left.
EnsureWithoutCleanup(found, m, flatcar) == Deployed(found, m, flatcar)

Ensure(found, m, flatcar) ==
    Deployed(found, m, flatcar)
    \o [i \in DOMAIN Unwanted(m) |-> DeleteAddonByName(found, m, Unwanted(m)[i], flatcar)]

\* The declared addons, by their place, that the embedded list does not take care of.
Declared(m, deleted) ==
    {i \in DOMAIN m.addons : m.addons[i].name \notin embeddedAddons /\ m.addons[i].delete = deleted}

\* Deletions of embedded addons, in the order of the manifest; then the local
\* and the declared ones, in any order (here: one of them); then the files of
\* addons.path itself.
EnsureUserAddons(found, m, flatcar) ==
    LET combined == (LocalFS(m) \ embeddedAddons) \cup {m.addons[i].name : i \in Declared(m, FALSE)}
        gone(addon) == IF addon \in EmbeddedFS THEN load("delete", found, m, "embedded", addon, flatcar) ELSE Refused
        one(addon) ==
            whenever(addon = "default-storage-class" /\ m.provider = "gce", Migrations(addon))
            \o <<EnsureAddonByName(found, m, addon, flatcar)>>
        order == AnyOrder(combined)
    IN IF ~newAddonsApplier(found, m) THEN <<Refused>>
       ELSE Flat([i \in DOMAIN m.addons |-> whenever(i \in Declared(m, TRUE), <<gone(m.addons[i].name)>>)])
            \o Flat([i \in DOMAIN order |-> one(order[i])])
            \o whenever(m.path, <<load("apply", found, m, "local", "", flatcar)>>)
=============================================================================
