---------------------------- MODULE MC_Lifecycle ----------------------------
(* Clusters of every provider: installed, given other credentials, addons    *)
(* and charts, upgraded while their workers are scaled, and reset under load.*)
EXTENDS Lifecycle

CONSTANTS w1, w2, s1, c1, c2

\* A source with one value for all the variables of a provider.
Names(provider) ==
    CASE provider = "aws" -> <<"AWS_ACCESS_KEY_ID", "AWS_SECRET_ACCESS_KEY">>
      [] provider = "azure" -> [i \in 1..4 |-> AzureVars[i].name]
      [] provider = "digitalocean" -> <<"DIGITALOCEAN_TOKEN">>
      [] provider = "gce" -> <<"GOOGLE_CREDENTIALS">>
      [] provider = "hetzner" -> <<"HCLOUD_TOKEN">>
      [] provider = "kubevirt" -> <<"KUBEVIRT_KUBECONFIG">>
      [] provider = "nutanix" -> NutanixRequired
      [] provider = "openstack" -> <<"OS_AUTH_URL", "OS_USERNAME", "OS_PASSWORD", "OS_DOMAIN_NAME", "OS_REGION_NAME",
                                     "OS_TENANT_ID">>
      [] provider = "equinixmetal" -> <<"PACKET_API_KEY", "PACKET_PROJECT_ID">>
      [] provider = "vmwareCloudDirector" -> <<"VCD_API_TOKEN", "VCD_ORG", "VCD_URL", "VCD_VDC">>
      [] provider = "vsphere" -> <<"VSPHERE_SERVER", "VSPHERE_USER", "VSPHERE_PASSWORD">>
      [] OTHER -> <<>>
Source(provider, typ, value) == [k \in {<<typ, n>> : n \in Range(Names(provider))} |-> value]
Empty == [k \in {} |-> ""]

External == {"azure", "aws", "digitalocean", "equinixmetal", "hetzner", "kubevirt", "nutanix", "openstack", "vsphere", "gce"}
Manifest(provider) ==
    [provider |-> provider, external |-> provider \in External, disableCSI |-> FALSE, secretClass |-> "",
     cloudConfig |-> IF provider \in {"openstack", "vsphere"} THEN "template" ELSE "", caBundle |-> FALSE,
     cni |-> "canal", weaveEncrypted |-> FALSE, localRedirect |-> FALSE, nodeLocalDNS |-> TRUE, pdb |-> TRUE,
     metricsServer |-> TRUE, mc |-> provider # "none", osm |-> provider # "none", path |-> FALSE,
     local |-> [d \in {} |-> {}], addons |-> <<>>, helm |-> <<>>, workers |-> [w \in {} |-> NoMD], version |-> 1,
     flatcarHosts |-> FALSE,
     sources |-> [static |-> Source(provider, "", "old"), env |-> Empty, awsProfile |-> ""]]

Flags == [upgradeMDs |-> TRUE, createMDs |-> TRUE, lbs |-> TRUE, volumes |-> TRUE, workers |-> TRUE,
          destroyControlPlane |-> FALSE, force |-> FALSE]
Apply(manifest) == [cmd |-> "apply", manifest |-> manifest, flags |-> Flags]
Reset(manifest, f) == [cmd |-> "reset", manifest |-> manifest, flags |-> f]

World(commands, hazards) ==
    [script |-> commands, up |-> TRUE, live |-> {}, secrets |-> [s \in {} |-> Secret(NoCredentials)],
     mds |-> [w \in {w1, w2} |-> NoMD], faults |-> hazards, cannotEvict |-> FALSE]

\* Credentials are replaced: in the file, for one component, from the file to
\* the environment or a profile.
Providers == External \cup {"vmwareCloudDirector", "none"}
Sources(provider) ==
    {[static |-> Source(provider, "", "new"), env |-> Source(provider, "", "env"), awsProfile |-> ""],
     [static |-> Source(provider, "", "old") @@ Source(provider, "MC", "mc"), env |-> Empty, awsProfile |-> ""],
     [static |-> Empty, env |-> Source(provider, "", "env") @@ Source(provider, "CCM", "ccm"), awsProfile |-> "p"]}
    \cup IF provider = "aws" THEN {[static |-> Empty, env |-> Empty, awsProfile |-> "p"]} ELSE {}
CredentialWorlds ==
    {World(<<Apply(Manifest(p)), Apply([Manifest(p) EXCEPT !.sources = src])>>, {"kill"}) :
        <<p, src>> \in UNION {{p} \X Sources(p) : p \in Providers}}

\* Credentials of two kinds at once, or only half of them.
Given(names) == [k \in {<<"", n>> : n \in names} |-> "v"]
BadWorlds ==
    {World(<<Apply([Manifest(bad[1]) EXCEPT !.sources.static = Given(bad[2])])>>, {}) :
        bad \in {<<"aws", {"AWS_ACCESS_KEY_ID"}>>,
                 <<"openstack", Range(Names("openstack")) \cup {"OS_APPLICATION_CREDENTIAL_ID"}>>,
                 <<"openstack", Range(Names("openstack")) \ {"OS_TENANT_ID"}>>,
                 <<"equinixmetal", {"PACKET_API_KEY", "PACKET_PROJECT_ID", "METAL_AUTH_TOKEN", "METAL_PROJECT_ID"}>>,
                 <<"vmwareCloudDirector", Range(Names("vmwareCloudDirector")) \cup {"VCD_USER"}>>}}

\* Addons are switched, declared, overridden and deleted, on a cluster whose
\* addons an older release deployed.
Old(addon) == {<<addon, [id |-> object.id, selector |-> "old", hash |-> Nothing, ca |-> FALSE, store |-> FALSE]>> :
                 object \in Range(Migrations(addon))}
\* The default StorageClass was another one on GCE only.
OldAddons(p) == UNION {Old(x) : x \in EmbeddedFS \ (IF p = "gce" THEN {} ELSE {"default-storage-class"})}
Switches(p) ==
    LET base == Manifest(p)
    IN {[base EXCEPT !.nodeLocalDNS = FALSE, !.pdb = FALSE, !.cni = "cilium"],
        [base EXCEPT !.cni = "cilium", !.localRedirect = TRUE, !.caBundle = TRUE, !.metricsServer = FALSE],
        [base EXCEPT !.cni = "weave", !.weaveEncrypted = TRUE, !.disableCSI = TRUE, !.secretClass = "vault"],
        [base EXCEPT !.path = TRUE, !.local = ("" :> {"a"}) @@ ("mine" :> {"b"}) @@ ("metrics-server" :> {"c"}),
                     !.addons = <<[name |-> "unattended-upgrades", delete |-> FALSE],
                                  [name |-> "default-storage-class", delete |-> FALSE],
                                  [name |-> "backups-restic", delete |-> TRUE]>>, !.flatcarHosts = TRUE],
        [base EXCEPT !.path = TRUE, !.local = ("" :> {}) @@ ("metrics-server" :> {}),
                     !.addons = <<[name |-> "unattended-upgrades", delete |-> TRUE],
                                  [name |-> "cluster-autoscaler", delete |-> FALSE],
                                  [name |-> "backups-restic", delete |-> FALSE]>>]}
AddonWorlds ==
    {[World(<<Apply(a), Apply(b)>>, {"requests"}) EXCEPT
          !.live = OldAddons(a.provider)
                   \cup {<<"unattended-upgrades", Object("kured", Nothing, FALSE, FALSE)>>,
                         <<"", Object("machine-controller.kubermatic.io", Nothing, FALSE, FALSE)>>}] :
        <<a, b>> \in (Switches("aws") \X Switches("aws")) \cup ({Manifest("gce")} \X Switches("gce"))}
    \cup {[World(<<Apply(Manifest(p))>>, {"requests"}) EXCEPT !.live = OldAddons(p)] :
              p \in Providers}

\* Charts come, change and go.
Chart(name, ns, version) == [name |-> name, ns |-> ns, chart |-> "chart", version |-> version]
HelmWorlds ==
    LET charts(helm) == Apply([Manifest("none") EXCEPT !.helm = helm])
        a == Chart("a", "n1", 1)
        b == Chart("b", "n1", 1)
        moved == {<<Chart("a", "n2", 1)>>, <<b, a>>, <<>>}
    IN {World(<<charts(x), charts(y), charts(<<b>>)>>, {f}) :
           x \in {<<a>>, <<a, b>>}, y \in moved \cup {<<[a EXCEPT !.version = 2]>>}, f \in {"requests", "kill"}}

\* A cluster is installed, upgraded and reset.
Fleet == (w1 :> [version |-> 1, replicas |-> 2, os |-> "flatcar", rv |-> 0])
Base == [Manifest("hetzner") EXCEPT !.workers = Fleet]
InstallWorlds ==
    {[World(<<Apply(Base), Apply([Base EXCEPT !.version = 2])>>, f) EXCEPT !.up = FALSE] :
        f \in {{"kill"}, {"requests"}, {"scale"}}}
ResetWorlds ==
    LET running == [World(<<Reset(Base, Flags)>>, {}) EXCEPT
                      !.mds = (w1 :> [Fleet[w1] EXCEPT !.rv = 1]) @@ (w2 :> NoMD),
                      !.live = {<<"machinecontroller", Object("Manifest", Nothing, FALSE, FALSE)>>}]
        busy == [running EXCEPT !.mds[w1].replicas = 1]
    IN {[busy EXCEPT !.faults = {"workload", f}] : f \in {"kill", "requests"}}
       \cup {[busy EXCEPT !.faults = {"workload", "kill"}, !.script[1].flags =
                [Flags EXCEPT !.destroyControlPlane = TRUE, !.force = TRUE, !.workers = FALSE]]}
       \cup {[running EXCEPT !.faults = {f}, !.cannotEvict = TRUE] : f \in {"kill", "requests", "scale"}}

MCWorlds == CredentialWorlds \cup BadWorlds \cup AddonWorlds \cup HelmWorlds \cup InstallWorlds \cup ResetWorlds
=============================================================================
