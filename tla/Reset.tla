-------------------------------- MODULE Reset --------------------------------
(* kubeone reset inside the cluster: the tasks that remove what the cluster  *)
(* has in the cloud before its control plane is torn down, and the           *)
(* controllers that do the removing.                                         *)
EXTENDS LiveCluster

NoCleanup == [flags EXCEPT !.lbs = FALSE, !.volumes = FALSE, !.workers = FALSE]
WantsClient == flags.lbs \/ flags.volumes \/ flags.workers

request(op, name) == [op |-> op, name |-> name]
requests(op, names) == LET order == AnyOrder(names) IN [i \in DOMAIN order |-> request(op, order[i])]

disablePVCreation == request("block", "volumes")
disablePodCreation == request("block", "pods")

ResetTasks == <<"removeLBServices", "removeVolumes", "destroyWorkers", "resetAllNodes">>

ResetRequests(t) ==
    CASE t = "removeLBServices" ->
             whenever(flags.lbs, <<request("block", "services"), request("listServices", ""), request("until", "services")>>)
      [] t = "removeVolumes" ->
             whenever(flags.volumes, <<disablePVCreation, disablePodCreation, request("listVolumes", ""),
                                       request("until", "volumes")>>)
      [] t = "destroyWorkers" -> whenever(flags.workers, <<request("crds", "")>>)
      [] t = "resetAllNodes" -> <<request("teardown", "")>>

\* runReset without a client: only a forced reset that destroys the machines
\* goes on; the messages of the other advise to repeat it without cleaning up.
ResetWithoutClient ==
    /\ status # "running" /\ script # <<>> /\ Head(script).cmd = "reset" /\ ~up /\ WantsClient
    /\ script' = [script EXCEPT ![1].flags = NoCleanup]
    /\ \/ /\ flags.destroyControlPlane /\ flags.force
          /\ status' = "running" /\ todo' = ResetTasks
       \/ /\ ~(flags.destroyControlPlane /\ flags.force)
          /\ status' = "failed"
          /\ UNCHANGED todo
    /\ UNCHANGED <<world, provisioned, task, steps, tries, faults, skipped, node, objects, workers, workload, webhooks>>

-----------------------------------------------------------------------------
(* The requests.                                                             *)

\* creationPreventingWebhook
Block(s) ==
    /\ s.op = "block"
    /\ webhooks' = webhooks \cup {s.name}
    /\ Answered
    /\ UNCHANGED <<objects, node, workers, workload>>

\* CleanupLBs: the Services not yet being deleted.
ListServices(s) ==
    /\ s.op = "listServices"
    /\ AnsweredWith(requests("deleteService", {x \in Services : services[x] = "live"}))
    /\ UNCHANGED <<objects, node, workers, workload, webhooks>>

DeleteService(s) ==
    /\ s.op = "deleteService"
    /\ services' = [services EXCEPT ![s.name] = IF @ = "none" THEN @ ELSE "deleting"]
    /\ Answered
    /\ UNCHANGED <<objects, node, workers, lbs, claims, volumes, disks, pods, webhooks>>

\* getDynamicallyProvisionedUnretainedPvs
UnretainedVolumes == {c \in Claims \ Retained : volumes[c] # "none"}
VolumesLeft == (\E c \in Claims : claims[c] # "none") \/ UnretainedVolumes # {}

\* CleanupUnretainedVolumes after the webhooks: every claim is deleted, that of
\* a retained volume too, once the Pods are gone.
ListVolumes(s) ==
    /\ s.op = "listVolumes"
    /\ AnsweredWith(whenever(VolumesLeft,
                             <<request("deletePods", "")>>
                             \o requests("deleteClaim", {c \in Claims : claims[c] \in {"pending", "bound"}})))
    /\ UNCHANGED <<objects, node, workers, workload, webhooks>>

\* cleanupPVCUsingPods deletes the Pods and waits for them to go.
DeletePods(s) ==
    /\ s.op = "deletePods"
    /\ pods' = {}
    /\ Answered
    /\ UNCHANGED <<objects, node, workers, services, lbs, claims, volumes, disks, webhooks>>

DeleteClaim(s) ==
    /\ s.op = "deleteClaim"
    /\ claims' = [claims EXCEPT ![s.name] = IF @ = "none" THEN @ ELSE "deleting"]
    /\ Answered
    /\ UNCHANGED <<objects, node, workers, services, lbs, volumes, disks, pods, webhooks>>

\* The CRDs come and go with the addon.
CRDsReadyCondition == ObjectsOf("machinecontroller") # {}

\* destroyWorkers: without the CRDs of machine-controller there are no workers.
\* With machine-controller disabled in the manifest nothing is deleted, and the
\* wait is still made.  The retries inside it do no more than those of the task.
LookForCRDs(s) ==
    /\ s.op = "crds"
    /\ AnsweredWith(IF ~CRDsReadyCondition THEN <<>>
                    ELSE whenever(m.mc, <<request("annotate", ""), request("list", "mds"),
                                          request("list", "machineSets"), request("list", "machines")>>)
                         \o <<request("until", "machines")>>)
    /\ UNCHANGED <<objects, node, workers, workload, webhooks>>

\* The Nodes of the machines that run now will not be drained.
Annotate(s) ==
    /\ s.op = "annotate"
    /\ annotated' = annotated \cup vms
    /\ Answered
    /\ UNCHANGED <<objects, node, mds, machineSets, machines, vms, workload, webhooks>>

\* DestroyWorkers: MachineDeployments, then MachineSets, then Machines.
ListWorkersToDestroy(s) ==
    /\ s.op = "list"
    /\ AnsweredWith(CASE s.name = "mds" -> requests("deleteMD", {w \in Workers : mds[w] # NoMD})
                      [] s.name = "machineSets" -> requests("deleteMachineSet", machineSets)
                      [] s.name = "machines" ->
                             LET order == AnyOrder({x \in DOMAIN machines : machines[x] # "none"})
                             IN [i \in DOMAIN order |-> [op |-> "deleteMachine", machine |-> order[i]]])
    /\ UNCHANGED <<objects, node, workers, workload, webhooks>>

\* A MachineDeployment that is gone already is an error.
DeleteMD(s) ==
    /\ s.op = "deleteMD"
    /\ \/ /\ mds[s.name] # NoMD
          /\ mds' = [mds EXCEPT ![s.name] = NoMD]
          /\ Answered
       \/ mds[s.name] = NoMD /\ TaskFails /\ UNCHANGED <<mds, faults>>
    /\ UNCHANGED <<objects, node, machineSets, machines, vms, annotated, workload, webhooks>>

DeleteMachineSet(s) ==
    /\ s.op = "deleteMachineSet"
    /\ machineSets' = machineSets \ {s.name}
    /\ Answered
    /\ UNCHANGED <<objects, node, mds, machines, vms, annotated, workload, webhooks>>

DeleteMachine(s) ==
    /\ s.op = "deleteMachine"
    /\ machines' = [machines EXCEPT ![s.machine] = IF @ = "none" THEN @ ELSE "deleting"]
    /\ Answered
    /\ UNCHANGED <<objects, node, mds, machineSets, vms, annotated, workload, webhooks>>

\* The control plane is reset, or its machines are destroyed.
Teardown(s) ==
    /\ s.op = "teardown"
    /\ up' = FALSE
    /\ Answered
    /\ UNCHANGED <<uninitialized, objects, workers, workload, webhooks>>

-----------------------------------------------------------------------------
(* WaitCleanupLbs, WaitCleanUpVolumes and WaitDestroy                        *)

WaitCleanupLbs == \A x \in Services : services[x] = "none"

\* Mutant: the volumes are not waited for.
WaitCleanUpClaims == \A c \in Claims : claims[c] = "none"

WaitCleanUpVolumes == ~VolumesLeft

WaitDestroy == \A x \in DOMAIN machines : machines[x] = "none"

Gone(what) ==
    CASE what = "services" -> WaitCleanupLbs
      [] what = "volumes" -> WaitCleanUpVolumes
      [] what = "machines" -> WaitDestroy

\* A wait that times out leaves the webhooks in place.
Until(s) ==
    /\ s.op = "until"
    /\ \/ Gone(s.name) /\ Answered
       \/ ~Gone(s.name) /\ TaskFails /\ UNCHANGED faults
    /\ UNCHANGED <<objects, node, workers, workload, webhooks>>

ResetRequest ==
    /\ status = "running" /\ steps # <<>>
    /\ UNCHANGED world
    /\ LET s == Head(steps)
       IN \/ Block(s) \/ Until(s) \/ Teardown(s)
          \/ ListServices(s) \/ DeleteService(s)
          \/ ListVolumes(s) \/ DeletePods(s) \/ DeleteClaim(s)
          \/ LookForCRDs(s) \/ Annotate(s) \/ ListWorkersToDestroy(s)
          \/ DeleteMD(s) \/ DeleteMachineSet(s) \/ DeleteMachine(s)

DeletePreventingWebhooks(resources) == webhooks' = webhooks \ resources

\* A request fails.  When it is one of the cleanups of Services or of volumes,
\* their webhooks are deleted again; polls ignore errors.  A lookup of the CRDs
\* that fails is taken for their absence.
ResetRequestFails ==
    /\ status = "running" /\ steps # <<>> /\ Head(steps).op \notin {"again", "until", "teardown"}
    /\ "requests" \in world.faults /\ faults > 0 /\ faults' = faults - 1
    /\ DeletePreventingWebhooks(CASE task = "removeLBServices" -> {"services"}
                                  [] task = "removeVolumes" -> {"volumes", "pods"}
                                  [] OTHER -> {})
    /\ \/ /\ Head(steps).op = "crds" /\ skipped' = TRUE /\ steps' = <<>>
          /\ UNCHANGED <<script, status, provisioned, todo, task, tries>>
       \/ Head(steps).op # "crds" /\ TaskFails
    /\ UNCHANGED <<world, node, objects, workers, workload>>

-----------------------------------------------------------------------------
(* The controllers of the cluster and its users (external).  They act while  *)
(* the control plane serves.  A controller takes the thing in the cloud away *)
(* before it lets go of the object.                                          *)

Elsewhere(changed) ==
    /\ up
    /\ UNCHANGED <<world, process, node, objects, webhooks>>
    /\ changed

CreateService(x) ==
    Elsewhere(/\ services[x] = "none" /\ "services" \notin webhooks
              /\ services' = [services EXCEPT ![x] = "live"]
              /\ UNCHANGED <<workers, lbs, claims, volumes, disks, pods>>)

EnsureLoadBalancer(x) ==
    Elsewhere(/\ services[x] = "live" /\ x \notin lbs
              /\ lbs' = lbs \cup {x}
              /\ UNCHANGED <<workers, services, claims, volumes, disks, pods>>)

FinalizeService(x) ==
    Elsewhere(/\ services[x] = "deleting"
              /\ IF x \in lbs THEN lbs' = lbs \ {x} /\ UNCHANGED services
                             ELSE services' = [services EXCEPT ![x] = "none"] /\ UNCHANGED lbs
              /\ UNCHANGED <<workers, claims, volumes, disks, pods>>)

CreateClaim(c) ==
    Elsewhere(/\ claims[c] = "none" /\ volumes[c] = "none" /\ "volumes" \notin webhooks
              /\ claims' = [claims EXCEPT ![c] = "pending"]
              /\ UNCHANGED <<workers, services, lbs, volumes, disks, pods>>)

Provision(c) ==
    Elsewhere(/\ claims[c] = "pending" /\ "volumes" \notin webhooks
              /\ claims' = [claims EXCEPT ![c] = "bound"] /\ volumes' = [volumes EXCEPT ![c] = "bound"]
              /\ disks' = disks \cup {c}
              /\ UNCHANGED <<workers, services, lbs, pods>>)

CreatePod(c) ==
    Elsewhere(/\ claims[c] # "none" /\ c \notin pods /\ "pods" \notin webhooks
              /\ pods' = pods \cup {c}
              /\ UNCHANGED <<workers, services, lbs, claims, volumes, disks>>)

\* The finalizer pvc-protection holds a claim while a Pod uses it.
FinalizeClaim(c) ==
    Elsewhere(/\ claims[c] = "deleting" /\ c \notin pods
              /\ claims' = [claims EXCEPT ![c] = "none"]
              /\ volumes' = [volumes EXCEPT ![c] = IF @ = "bound" THEN "released" ELSE @]
              /\ UNCHANGED <<workers, services, lbs, disks, pods>>)

Reclaim(c) ==
    Elsewhere(/\ volumes[c] = "released" /\ c \notin Retained
              /\ IF c \in disks THEN disks' = disks \ {c} /\ UNCHANGED volumes
                              ELSE volumes' = [volumes EXCEPT ![c] = "none"] /\ UNCHANGED disks
              /\ UNCHANGED <<workers, services, lbs, claims, pods>>)

MachinesOf(w) == {x \in DOMAIN machines : x[1] = w}

CreateMachineSet(w) ==
    Elsewhere(/\ mds[w] # NoMD /\ w \notin machineSets
              /\ machineSets' = machineSets \cup {w}
              /\ UNCHANGED <<workload, mds, machines, vms, annotated>>)

CreateMachine(x) ==
    Elsewhere(/\ x[1] \in machineSets /\ mds[x[1]] # NoMD /\ machines[x] = "none" /\ x[2] <= mds[x[1]].replicas
              /\ machines' = [machines EXCEPT ![x] = "live"]
              /\ UNCHANGED <<workload, mds, machineSets, vms, annotated>>)

\* Fewer machines are asked for than there are.
RemoveMachine(x) ==
    Elsewhere(/\ mds[x[1]] # NoMD /\ machines[x] = "live" /\ x[2] > mds[x[1]].replicas
              /\ machines' = [machines EXCEPT ![x] = "deleting"]
              /\ UNCHANGED <<workload, mds, machineSets, vms, annotated>>)

CreateVM(x) ==
    Elsewhere(/\ machines[x] = "live" /\ x \notin vms
              /\ vms' = vms \cup {x}
              /\ UNCHANGED <<workload, mds, machineSets, machines, annotated>>)

\* A Node with Pods that cannot be evicted holds its Machine, unless it is
\* marked.
FinalizeMachine(x) ==
    Elsewhere(/\ machines[x] = "deleting"
              /\ x \in vms => x \in annotated \/ ~world.cannotEvict
              /\ IF x \in vms THEN vms' = vms \ {x} /\ UNCHANGED <<machines, annotated>>
                             ELSE /\ machines' = [machines EXCEPT ![x] = "none"]
                                  /\ annotated' = annotated \ {x} /\ UNCHANGED vms
              /\ UNCHANGED <<workload, mds, machineSets>>)

\* Owned objects follow their owner.
CollectGarbage(w) ==
    Elsewhere(\/ /\ mds[w] = NoMD /\ w \in machineSets
                 /\ machineSets' = machineSets \ {w}
                 /\ UNCHANGED <<workload, mds, machines, vms, annotated>>
              \/ /\ w \notin machineSets /\ \E x \in MachinesOf(w) : machines[x] = "live"
                 /\ machines' = [x \in DOMAIN machines |->
                        IF x[1] = w /\ machines[x] = "live" THEN "deleting" ELSE machines[x]]
                 /\ UNCHANGED <<workload, mds, machineSets, vms, annotated>>)

\* A user or the autoscaler asks for another number of machines.
Scale(w) ==
    Elsewhere(/\ mds[w] # NoMD /\ mds[w].rv < Edits
              /\ \E n \in 1..Machines \ {mds[w].replicas} :
                    mds' = [mds EXCEPT ![w] = [mds[w] EXCEPT !.replicas = n, !.rv = @ + 1]]
              /\ UNCHANGED <<workload, machineSets, machines, vms, annotated>>)

\* A user gives up a MachineDeployment.
RemoveMD(w) ==
    Elsewhere(/\ mds[w] # NoMD
              /\ mds' = [mds EXCEPT ![w] = NoMD]
              /\ UNCHANGED <<workload, machineSets, machines, vms, annotated>>)

User ==
    \/ /\ "workload" \in world.faults
       /\ \/ \E x \in Services : CreateService(x)
          \/ \E c \in Claims : CreateClaim(c) \/ CreatePod(c)
    \/ "scale" \in world.faults /\ \E w \in Workers : Scale(w) \/ RemoveMD(w)

Controller ==
    \/ \E x \in Services : EnsureLoadBalancer(x) \/ FinalizeService(x)
    \/ \E c \in Claims : Provision(c) \/ FinalizeClaim(c) \/ Reclaim(c)
    \/ \E w \in Workers : CreateMachineSet(w) \/ CollectGarbage(w)
    \/ \E x \in DOMAIN machines : CreateMachine(x) \/ RemoveMachine(x) \/ CreateVM(x) \/ FinalizeMachine(x)
=============================================================================
