------------------------------ MODULE Resources ------------------------------
(* kubeone apply on a control plane that serves: WithResources, and the two  *)
(* tasks that only an installation has around it.                            *)
EXTENDS LiveCluster

wait(condition) == [op |-> "wait", for |-> condition]

-----------------------------------------------------------------------------
(* credentials.Ensure                                                        *)

EnsureCredentials(found) ==
    LET put(name, value) == [op |-> "putSecret", name |-> name, value |-> value]
        remove(name) == [op |-> "deleteSecret", name |-> name]
        secret(name, typ) == IF found[typ].ok THEN put(name, Secret(found[typ].creds)) ELSE Refused
        ccm == found[TypeCCM].creds
        cloudConfig == whenever(m.cloudConfig # "", <<put("cloud-config", renderCloudConfig(m, ccm))>>)
        integration == IF (m.external /\ m.provider # "vsphere") \/ m.provider = "gce" THEN <<put("CCM", Secret(ccm))>>
                       ELSE IF m.provider = "vsphere" THEN <<put("vsphere", vsphereSecret(ccm))>>
                       ELSE IF m.provider = "kubevirt" THEN <<put("CCM", kubevirtSecret(ccm))>>
                       ELSE <<>>
    IN IF m.provider = "none" THEN <<>>
       ELSE <<remove("legacy")>>
            \o whenever(~m.osm, <<remove("OSM")>>)
            \o whenever(m.mc, <<secret("MC", TypeMC)>>)
            \o whenever(m.osm, <<secret("OSM", TypeOSM)>>)
            \o (IF found[TypeCCM].ok THEN cloudConfig \o integration ELSE <<Refused>>)

\* Mutant: a Secret that exists is left as it is.
PutSecretOnce(s) ==
    /\ s.op = "putSecret"
    /\ secrets' = secrets @@ (s.name :> s.value)
    /\ Answered
    /\ UNCHANGED <<live, releases, node, workers, workload, webhooks>>

\* CreateOrReplace.
PutSecret(s) ==
    /\ s.op = "putSecret"
    /\ secrets' = (s.name :> s.value) @@ secrets
    /\ Answered
    /\ UNCHANGED <<live, releases, node, workers, workload, webhooks>>

\* DeleteIfExists.
DeleteSecret(s) ==
    /\ s.op = "deleteSecret"
    /\ secrets' = [n \in DOMAIN secrets \ {s.name} |-> secrets[n]]
    /\ Answered
    /\ UNCHANGED <<live, releases, node, workers, workload, webhooks>>

\* weave.EnsureSecret: the password of a running network is kept.
WeaveSecret(s) ==
    /\ s.op = "weaveSecret"
    /\ secrets' = secrets @@ ("weave-passwd" :> Secret(NoCredentials))
    /\ Answered
    /\ UNCHANGED <<live, releases, node, workers, workload, webhooks>>

-----------------------------------------------------------------------------
(* Addons                                                                    *)

\* Deletes one object of the addon ahead of its update.
Migrate(s) ==
    /\ s.op = "migrate"
    /\ live' = {p \in live : ~(p[1] = s.addon /\ p[2].id = s.id /\ (s.when = "exists" \/ p[2].selector # "new"))}
    /\ Answered
    /\ UNCHANGED <<secrets, releases, node, workers, workload, webhooks>>

\* loadAndApplyAddon: the objects of the manifest replace those of the addon,
\* unless one of them cannot be changed into what the manifest says.
ApplyAddon(s) ==
    /\ s.op = "apply"
    /\ LET refused == \E new \in s.objs, old \in ObjectsOf(s.addon) : new.id = old.id /\ new.selector # old.selector
       IN \/ /\ ~refused
             /\ live' = IF s.objs = {} THEN live
                        ELSE {p \in live : p[1] # s.addon} \cup {<<s.addon, o>> : o \in s.objs}
             /\ Answered
          \/ refused /\ TaskFails /\ UNCHANGED <<live, faults>>
    /\ UNCHANGED <<secrets, releases, node, workers, workload, webhooks>>

\* loadAndDeleteAddon: what the manifest names now, not what was applied once.
DeleteAddon(s) ==
    /\ s.op = "delete"
    /\ live' = {p \in live : ~(p[1] = s.addon /\ \E o \in s.objs : o.id = p[2].id)}
    /\ Answered
    /\ UNCHANGED <<secrets, releases, node, workers, workload, webhooks>>

\* One object of an older release that no manifest names any more.
CleanupStale(s) ==
    /\ s.op = "cleanupStale"
    /\ live' = {p \in live : ~(p[1] = s.addon /\ p[2].id = s.id)}
    /\ Answered
    /\ UNCHANGED <<secrets, releases, node, workers, workload, webhooks>>

\* Those of kured, if they are still labelled as the addon's; and the webhook
\* that machine-controller had under another name.
cleanupStaleObjects == <<[op |-> "cleanupStale", addon |-> "unattended-upgrades", id |-> "kured"]>>
cleanupStaleResources == <<[op |-> "cleanupStale", addon |-> "", id |-> "machine-controller.kubermatic.io"]>>

\* flatcarNodesPresent
flatcarNodesPresent ==
    \/ m.flatcarHosts
    \/ \E w \in DOMAIN m.workers : m.workers[w].os = "flatcar"
    \/ m.mc /\ \E w \in Workers : mds[w].os = "flatcar"

-----------------------------------------------------------------------------
(* localhelm.Deploy                                                          *)

History(r) == {v \in releases : v.name = r.name /\ v.ns = r.ns}
Latest(r) == CHOOSE v \in History(r) : \A u \in History(r) : u.rev <= v.rev

\* Mutant: a release is known by its name only.
ToUninstallByName ==
    {v \in releases : v.label /\ ~\E i \in DOMAIN m.helm : v.name = m.helm[i].name}

\* releasesFilterFn: revisions that kubeone labelled and the manifest does not
\* name, with this chart, any more.
ToUninstall ==
    {v \in releases : v.label /\ ~\E i \in DOMAIN m.helm :
        v.name = m.helm[i].name /\ v.ns = m.helm[i].ns /\ v.chart = m.helm[i].chart}

\* The list of what to uninstall is made before anything is released.
Deploy ==
    LET uninstall == AnyOrder(ToUninstall)
    IN [i \in DOMAIN m.helm |-> [op |-> "release", rel |-> m.helm[i]]]
       \o [i \in DOMAIN uninstall |-> [op |-> "uninstall", rel |-> uninstall[i]]]

\* The history decides; helmReleasesEqual compares with the newest revision,
\* whatever became of it.
Release(s) ==
    /\ s.op = "release"
    /\ LET r == s.rel
           equal == History(r) # {} /\ Latest(r).chart = r.chart /\ Latest(r).version = r.version
           rev == IF History(r) = {} THEN 1 ELSE Latest(r).rev + 1
           run == [op |-> "runRelease", rel |-> r, rev |-> rev]
       IN AnsweredWith(IF equal THEN <<>> ELSE <<run, [run EXCEPT !.op = "finishRelease"], [run EXCEPT !.op = "label"]>>)
    /\ UNCHANGED <<objects, node, workers, workload, webhooks>>

\* Helm records the revision before it touches the cluster, and refuses to
\* while another one is pending.
RunRelease(s) ==
    /\ s.op = "runRelease"
    /\ \/ /\ \A v \in History(s.rel) : v.status # "pending"
          /\ releases' = releases \cup
                {[name |-> s.rel.name, ns |-> s.rel.ns, rev |-> s.rev, chart |-> s.rel.chart, version |-> s.rel.version,
                  status |-> "pending", label |-> \E v \in History(s.rel) : v.rev = s.rev - 1 /\ v.label]}
          /\ Answered
       \/ /\ \E v \in History(s.rel) : v.status = "pending"
          /\ TaskFails /\ UNCHANGED <<releases, faults>>
    /\ UNCHANGED <<live, secrets, node, workers, workload, webhooks>>

SetRevision(s, field, value) ==
    releases' = {IF v \in History(s.rel) /\ v.rev = s.rev THEN [v EXCEPT ![field] = value] ELSE v : v \in releases}

\* The chart is installed, or something of it fails and Helm records that.
FinishRelease(s) ==
    /\ s.op = "finishRelease"
    /\ \/ SetRevision(s, "status", "deployed") /\ Answered
       \/ /\ "requests" \in world.faults /\ faults > 0
          /\ SetRevision(s, "status", "failed") /\ faults' = faults - 1 /\ TaskFails
    /\ UNCHANGED <<live, secrets, node, workers, workload, webhooks>>

\* addReleaseSecretLabels
LabelRelease(s) ==
    /\ s.op = "label"
    /\ SetRevision(s, "label", TRUE)
    /\ Answered
    /\ UNCHANGED <<live, secrets, node, workers, workload, webhooks>>

\* uninstallReleases: by name, so the second revision of a release is not found.
Uninstall(s) ==
    /\ s.op = "uninstall"
    /\ \/ /\ History(s.rel) # {}
          /\ releases' = releases \ History(s.rel)
          /\ Answered
       \/ /\ History(s.rel) = {}
          /\ TaskFails /\ UNCHANGED <<releases, faults>>
    /\ UNCHANGED <<live, secrets, node, workers, workload, webhooks>>

-----------------------------------------------------------------------------
(* MachineDeployments                                                        *)

\* CreateOrUpdate: what exists is merged under the new object, so the fields
\* that the manifest sets win.
CreateWorker(s) ==
    /\ s.op = "createWorker"
    /\ mds' = [mds EXCEPT ![s.name] = [m.workers[s.name] EXCEPT !.rv = mds[s.name].rv + 1]]
    /\ Answered
    /\ UNCHANGED <<objects, node, machineSets, machines, vms, annotated, workload, webhooks>>

createMachineDeployments ==
    LET names == AnyOrder(DOMAIN m.workers)
    IN whenever(flags.createMDs, [i \in DOMAIN names |-> [op |-> "createWorker", name |-> names[i]]])

upgradeMachineDeployments == whenever(flags.upgradeMDs /\ m.mc, <<[op |-> "listWorkers"]>>)

Existing == {w \in Workers : mds[w] # NoMD}

getWorker(name) == [op |-> "getWorker", name |-> name]

ListWorkers(s) ==
    /\ s.op = "listWorkers"
    /\ AnsweredWith([i \in 1..Cardinality(Existing) |-> getWorker(AnyOrder(Existing)[i])])
    /\ UNCHANGED <<objects, node, workers, workload, webhooks>>

\* The Get that every attempt to update starts with.
GetWorker(s) ==
    /\ s.op = "getWorker"
    /\ \/ /\ mds[s.name] # NoMD
          /\ AnsweredWith(<<[op |-> "updateWorker", name |-> s.name, read |-> mds[s.name]]>>)
       \/ mds[s.name] = NoMD /\ TaskFails /\ UNCHANGED faults
    /\ UNCHANGED <<objects, node, workers, workload, webhooks>>

\* Mutant: the object that was read is written whatever happened since.
UpdateWorkerBlindly(s) ==
    /\ s.op = "updateWorker"
    /\ mds' = [mds EXCEPT ![s.name] = [s.read EXCEPT !.version = m.version, !.rv = mds[s.name].rv + 1]]
    /\ Answered
    /\ UNCHANGED <<objects, node, machineSets, machines, vms, annotated, workload, webhooks>>

\* The kubelet version is set on what was read.  A conflict starts the attempt
\* again (RetryOnConflict; the bound on Scale keeps below its limit).  Any other
\* error ends the task without one: the error that is wrapped is that of the Get.
UpdateWorker(s) ==
    /\ s.op = "updateWorker"
    /\ \/ /\ mds[s.name] # NoMD /\ mds[s.name].rv = s.read.rv
          /\ mds' = [mds EXCEPT ![s.name] = [s.read EXCEPT !.version = m.version, !.rv = @ + 1]]
          /\ Answered
       \/ /\ mds[s.name] # NoMD /\ mds[s.name].rv # s.read.rv
          /\ AnsweredWith(<<getWorker(s.name)>>)
          /\ UNCHANGED mds
       \/ /\ mds[s.name] = NoMD
          /\ TaskEnds
          /\ UNCHANGED <<mds, faults>>
    /\ UNCHANGED <<objects, node, machineSets, machines, vms, annotated, workload, webhooks>>

-----------------------------------------------------------------------------
(* Waiting                                                                   *)

\* The Pods of an addon run once its workload and the Secret it reads exist.
PodsReady(addon, secret) ==
    \E o \in ObjectsOf(addon) : o.store \/ secret \in DOMAIN secrets

waitForInitializedNodes == ~uninitialized
waitForMachineController == PodsReady("machinecontroller", "MC")
waitForController == PodsReady("operating-system-manager", "OSM")

Reached(condition) ==
    CASE condition = "nodes" -> waitForInitializedNodes
      [] condition = "machine-controller" -> waitForMachineController
      [] condition = "operating-system-manager" -> waitForController

\* A poll that sees the condition, or times out.
Wait(s) ==
    /\ s.op = "wait"
    /\ \/ Reached(s.for) /\ Answered
       \/ ~Reached(s.for) /\ TaskFails /\ UNCHANGED faults
    /\ UNCHANGED <<objects, node, workers, workload, webhooks>>

\* The CCM takes the taint off the Nodes (external).
InitializeNodes ==
    /\ uninitialized /\ up
    /\ \E addon \in {"ccm-aws", "ccm-azure", "ccm-digitalocean", "ccm-equinixmetal", "ccm-gcp", "ccm-hetzner",
                    "ccm-kubevirt", "ccm-nutanix", "ccm-openstack", "ccm-vsphere"} : ObjectsOf(addon) # {}
    /\ uninitialized' = FALSE
    /\ UNCHANGED <<world, process, up, objects, workers, workload, webhooks>>

-----------------------------------------------------------------------------
(* The tasks of kubeone apply                                                *)

\* kubeadm init and join: a control plane that serves.
InitCluster(s) ==
    /\ s.op = "init"
    /\ up' = TRUE /\ uninitialized' = m.external
    /\ Answered
    /\ UNCHANGED <<objects, workers, workload, webhooks>>

\* Mutant: waits for the webhooks before the addons that they belong to.
WaitsFirst ==
    << "credentials", "cleanupStale", "machine-controller", "operating-system-manager", "addons", "userAddons",
       "helm", "externalCCM", "upgradeMachineDeployments" >>

\* The tasks that work on the cluster; those between them work on files of the
\* hosts, on certificates and on the load balancer.
WithResources ==
    << "credentials", "cleanupStale", "addons", "userAddons", "helm", "externalCCM",
       "machine-controller", "operating-system-manager", "upgradeMachineDeployments" >>

\* An installation creates the workers last; a cluster that was found
\* provisioned never gets any.
ApplyTasks == IF up THEN WithResources ELSE <<"init">> \o WithResources \o <<"createMachineDeployments">>

\* Each task with its predicate and early returns.
ApplyRequests(found, t) ==
    CASE t = "init" -> <<[op |-> "init"]>>
      [] t = "credentials" -> whenever(m.secretClass = "", EnsureCredentials(found))
      [] t = "cleanupStale" -> cleanupStaleObjects
      [] t = "addons" -> Ensure(found, m, flatcarNodesPresent)
      [] t = "userAddons" -> whenever(m.path \/ m.addons # <<>> \/ m.helm # <<>>,
                                      EnsureUserAddons(found, m, flatcarNodesPresent))
      [] t = "helm" -> Deploy
      [] t = "externalCCM" -> whenever(m.external, <<wait("nodes")>>)
      [] t = "machine-controller" -> whenever(m.mc, cleanupStaleResources \o <<wait("machine-controller")>>)
      [] t = "operating-system-manager" -> whenever(m.osm, <<wait("operating-system-manager")>>)
      [] t = "upgradeMachineDeployments" -> upgradeMachineDeployments
      [] t = "createMachineDeployments" -> whenever(~provisioned, createMachineDeployments)

ApplyRequest ==
    /\ status = "running" /\ steps # <<>>
    /\ UNCHANGED world
    /\ LET s == Head(steps)
       IN \/ InitCluster(s) \/ Wait(s)
          \/ PutSecret(s) \/ DeleteSecret(s) \/ WeaveSecret(s)
          \/ Migrate(s) \/ ApplyAddon(s) \/ DeleteAddon(s) \/ CleanupStale(s)
          \/ Release(s) \/ RunRelease(s) \/ FinishRelease(s) \/ LabelRelease(s) \/ Uninstall(s)
          \/ CreateWorker(s) \/ ListWorkers(s) \/ GetWorker(s) \/ UpdateWorker(s)

\* The task cannot succeed with this manifest and these credentials.
RequestRefused ==
    /\ status = "running" /\ steps # <<>> /\ Head(steps).op = "refused"
    /\ TaskFails
    /\ UNCHANGED <<world, faults, node, objects, workers, workload, webhooks>>

\* The migration of csi-azurefile, whose errors are ignored.
Lenient(s) == s.op = "migrate" /\ s.addon = "csi-azurefile"

\* A request of kubeone apply fails: see UpdateWorker for an update of a
\* MachineDeployment.  A migration of csi-azurefile that fails ends the migration.
ApplyRequestFails ==
    /\ status = "running" /\ steps # <<>> /\ Head(steps).op \notin {"again", "refused", "finishRelease"}
    /\ "requests" \in world.faults /\ faults > 0 /\ faults' = faults - 1
    /\ LET s == Head(steps)
       IN \/ s.op = "updateWorker" /\ TaskEnds
          \/ \E i \in DOMAIN steps :
                /\ \A j \in 1..i : Lenient(steps[j])
                /\ i < Len(steps) => ~Lenient(steps[i + 1])
                /\ GoOnWith(SubSeq(steps, i + 1, Len(steps)))
          \/ s.op # "updateWorker" /\ ~Lenient(s) /\ TaskFails
    /\ UNCHANGED <<world, node, objects, workers, workload, webhooks>>
=============================================================================
