------------------------------ MODULE Lifecycle ------------------------------
(* A cluster from its installation over changes of the manifest and of the   *)
(* credentials to its reset, against the controllers and users of the        *)
(* cluster.                                                                  *)
EXTENDS Resources, Reset

Resetting == script # <<>> /\ Head(script).cmd = "reset"

Tasks(command) == IF command.cmd = "reset" THEN ResetTasks ELSE ApplyTasks
Requests(t) == IF Resetting THEN ResetRequests(t) ELSE ApplyRequests(ComponentCredentials(m), t)

Init ==
    /\ world \in Worlds
    /\ script = world.script
    /\ status = "idle" /\ provisioned = FALSE
    /\ todo = <<>> /\ task = "" /\ steps = <<>> /\ tries = 0 /\ faults = 1 /\ skipped = FALSE
    /\ up = world.up /\ uninitialized = FALSE
    /\ live = world.live /\ secrets = world.secrets /\ releases = {}
    /\ mds = world.mds
    /\ machineSets = {} /\ vms = {} /\ annotated = {}
    /\ machines = [x \in Workers \X (1..Machines) |-> "none"]
    /\ services = [x \in Services |-> "none"] /\ lbs = {}
    /\ claims = [c \in Claims |-> "none"] /\ volumes = [c \in Claims |-> "none"] /\ disks = {} /\ pods = {}
    /\ webhooks = {}

Start == StartCommand(Tasks(Head(script))) /\ (Resetting => up \/ ~WantsClient)

Process ==
    \/ Start \/ ResetWithoutClient \/ Succeed
    \/ NextTask(Requests(Head(todo))) \/ RetryTask(Requests(task))
    \/ RequestRefused
    \/ ~Resetting /\ ApplyRequest
    \/ Resetting /\ ResetRequest

Fault ==
    \/ Kill
    \/ ~Resetting /\ ApplyRequestFails
    \/ Resetting /\ ResetRequestFails

\* The operator has nothing more to do.
Finished == script = <<>> /\ status = "idle" /\ UNCHANGED vars

Next == Process \/ Fault \/ InitializeNodes \/ Controller \/ User \/ Finished

\* The process runs, a command that did not succeed is repeated, and every
\* controller gets to each of its objects; users and faults owe nothing.
Fairness ==
    /\ WF_vars(Process) /\ WF_vars(InitializeNodes)
    /\ \A x \in Services : WF_vars(EnsureLoadBalancer(x) \/ FinalizeService(x))
    /\ \A c \in Claims : WF_vars(Provision(c) \/ FinalizeClaim(c) \/ Reclaim(c))
    /\ \A w \in Workers : WF_vars(CreateMachineSet(w) \/ CollectGarbage(w))
    /\ \A x \in Workers \X (1..Machines) :
          WF_vars(CreateMachine(x) \/ RemoveMachine(x) \/ CreateVM(x) \/ FinalizeMachine(x))

Spec == Init /\ [][Next]_vars /\ Fairness

-----------------------------------------------------------------------------
(* Properties                                                                *)

\* The command that succeeded last, while nothing has followed it.
Done == Len(world.script) - Len(script)
last == world.script[Done]
Applied == status = "idle" /\ Done > 0 /\ last.cmd = "apply"

\* The Secret that the Pods of an addon take their credentials from.
SecretOf == [a \in {"ccm-digitalocean", "ccm-gcp", "ccm-hetzner", "ccm-kubevirt", "csi-digitalocean",
                    "csi-gcp-compute-persistent"} |-> "CCM"]
            @@ [machinecontroller |-> "MC"] @@ ("operating-system-manager" :> "OSM")

\* After a successful apply the digest on the Pods of a component is that of the
\* credentials in the Secret they read: no Pod goes on with credentials that
\* were replaced, and none was restarted for a Secret that was not written
\* (credentials.Ensure, credentialsHash, the templates of the addons).
CredentialsInUse ==
    Applied /\ last.manifest.secretClass = "" =>
        \A addon \in DOMAIN SecretOf : \A o \in ObjectsOf(addon) :
            o.hash # Nothing => /\ SecretOf[addon] \in DOMAIN secrets
                                /\ o.hash.creds = secrets[SecretOf[addon]].data

\* The addons that a manifest asks to be gone.
ToBeGone(manifest) ==
    Range(Unwanted(manifest))
    \cup ({manifest.addons[i].name : i \in Declared(manifest, TRUE)} \ LocalFS(manifest))

\* After a successful apply every addon of the manifest is in the cluster as its
\* templates say, whatever an older release had left of it, and nothing is left
\* of the addons the manifest no longer wants but objects that their templates
\* do not render any more.  An addon without any objects is passed over, so what
\* it had before stays (addons.Ensure, EnsureUserAddons, loadAndApplyAddon).
AddonsConverged ==
    Applied => LET manifest == last.manifest
                   flatcar == manifest.flatcarHosts \/ \E w \in Workers : mds[w].os = "flatcar"
                   user == {manifest.addons[i].name : i \in Declared(manifest, FALSE)}
                   where(addon) == IF addon \in LocalFS(manifest) THEN "local" ELSE "embedded"
                   rendered(found, addon) ==
                       getManifestsFromDirectory(found, manifest, where(addon), addon, flatcar)
                   converged(found) ==
                       /\ \A addon \in Range(collectAddons(manifest)) \cup user :
                             rendered(found, addon) \in {{}, ObjectsOf(addon)}
                       /\ \A addon \in ToBeGone(manifest) : \A o \in ObjectsOf(addon) :
                             o.id \notin {r.id : r \in rendered(found, addon)}
               IN converged(ComponentCredentials(manifest))

\* After a successful apply the newest revision of every release of the manifest
\* is of its chart and version, and no release that KubeOne labelled as its own
\* is left beside them, in any namespace (localhelm.Deploy).
HelmConverged ==
    Applied => LET declared == Range(last.manifest.helm)
               IN /\ \A r \in declared : /\ History(r) # {}
                                          /\ Latest(r).chart = r.chart /\ Latest(r).version = r.version
                  /\ \A v \in releases : v.label => \E r \in declared : r.name = v.name /\ r.ns = v.ns

\* The number of machines that a user or the autoscaler asked for is changed by
\* them only, the upgrade of the MachineDeployments notwithstanding; the creation
\* of the MachineDeployments alone may bring back the number of the manifest
\* (upgradeMachineDeployments, CreateOrUpdate).
ScaleKept ==
    [][\A w \in Workers :
          mds[w] # NoMD /\ mds'[w] # NoMD /\ mds'[w].replicas # mds[w].replicas
          => UNCHANGED steps \/ task = "createMachineDeployments"]_vars

\* Once a reset has taken the control plane down, nothing is left in the cloud
\* that only the cluster could have removed: no load balancer of a Service, no
\* disk but the retained ones, and no worker VM, unless the lookup of the CRDs
\* failed and the workers were passed over (RemoveLBServices, RemoveVolumes,
\* destroyWorkers, and the waits after each).
TeardownClean ==
    \A i \in DOMAIN world.script :
        world.script[i].cmd = "reset" /\ i <= Done + 1 /\ ~up =>
            LET f == world.script[i].flags
            IN /\ f.lbs => lbs = {}
               /\ f.volumes => disks \subseteq Retained
               /\ f.workers => skipped \/ vms = {}

\* A process was killed while Helm worked on a release whose version the
\* manifest has changed since: Helm refuses to touch a release that is pending.
HelmBlocked ==
    script # <<>> /\ \E i \in DOMAIN m.helm :
        LET r == m.helm[i]
        IN History(r) # {} /\ Latest(r).status = "pending" /\ Latest(r).version # r.version

\* Every command of the operator succeeds in the end, by repetition, if the
\* credentials of its manifest are complete: no killed process, failed request,
\* timed-out wait or leftover of an older release leaves a cluster that apply or
\* reset cannot go on from, but for a Helm release left pending.
ScriptEnds ==
    (\A i \in DOMAIN world.script :
        newAddonsApplier(ComponentCredentials(world.script[i].manifest), world.script[i].manifest))
    => <>(script = <<>> \/ HelmBlocked)
=============================================================================
