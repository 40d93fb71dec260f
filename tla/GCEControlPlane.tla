-------------------------- MODULE GCEControlPlane --------------------------
(***************************************************************************)
(* A control plane of VMs and a passthrough load balancer that kubeone     *)
(* creates, grows into a cluster, repairs and destroys on GCE.             *)
(*                                                                         *)
(* A VM behind the load balancer answers its own requests to the load      *)
(* balancer's address, so a VM that joins the cluster through it must not  *)
(* be behind it yet: EnsureVM adds at most the first VM, the task before   *)
(* the join adds the leader and removes the VMs about to join, and all are *)
(* added after the join.  Each action is one request to the cloud or one   *)
(* command on a host; a task that fails starts again or ends the process.  *)
(***************************************************************************)
EXTENDS Integers, Sequences, FiniteSets

CONSTANTS
    N,          \* the number of machines of the nodeSets; the first leads
    Zone,       \* of each machine
    Worlds,     \* each a set of circumstances, see the README
    Taken,      \* each a set of resource names that others have taken
    MaxEvents   \* failures, losses and resets in a behaviour

Machines == 1..N
Zones == {Zone[m] : m \in Machines}
Firewalls == <<"apiFirewall", "healthCheckFirewall">>

ASSUME MachinesAssumption ==
    /\ N \in Nat \ {0} /\ Zone \in [Machines -> Zones]
    /\ Zones \cap {"apiFirewall", "healthCheckFirewall", "address", "healthCheck",
                   "backendService", "forwardingRule"} = {}

VARIABLES
    world,
    resources,  \* that carry the owner description; a NEG is named by its zone
    foreign,    \* resources of the same names that others created
    backends,   \* the NEGs of the backend service
    endpoints,  \* of the NEGs: instance and IP address
    vms,
    ip,
    joined,     \* VMs that run a control plane node of the cluster
    down,       \* of them, those whose kube-apiserver does not answer
    nodes,      \* the control plane Node objects
    workers,    \* the static workers have joined
    pc,
    at,         \* position in the list that the task goes through
    hosts,      \* ControlPlane.Hosts
    leader,     \* position in hosts
    live,       \* positions in hosts that the probes found in the cluster
    apiHost,    \* what APIEndpoint.Host is when the cleanup starts
    withLB,     \* --destroy-control-plane-load-balancer
    resetting,  \* a reset has begun and not ended
    retired,    \* the operator wants everything gone
    events

cloud == <<resources, foreign, backends, endpoints, vms, ip>>
cluster == <<joined, down, nodes, workers>>
process == <<pc, at, hosts, leader, live, apiHost, withLB>>
operator == <<resetting, retired>>
vars == <<world, cloud, cluster, process, operator, events>>

IPs == {0, 1}
Ended == {"failed", "applied", "reset", "destroyed"}
Applying == {"lb", "vm", "leader", "attach", "probe", "reprobe", "init", "repair",
             "removeJoining", "detach", "join", "members", "workers"}
Resetting == {"destroyVMs", "destroyLB", "resetNodes"}

UserEndpoint == "userEndpoint" \in world

----------------------------------------------------------------------------
(* The load balancer as GCE sees it.                                       *)

Endpoint(m) == <<m, ip[m]>>

\* m has the local route for the load balancer's address.
Behind(m) == m \in vms /\ Zone[m] \in backends /\ Endpoint(m) \in endpoints

Serving == joined \ down
HealthyMembers == {m \in Serving : Behind(m)}

\* GCE refuses to delete what another resource uses.
InUse(p) ==
    \/ p \in {"backendService", "address"} /\ "forwardingRule" \in resources
    \/ p = "healthCheck" /\ "backendService" \in resources
    \/ p \in backends

\* A kube-apiserver answers at the API endpoint.  The Kubernetes client goes
\* there too, from a random host: one behind the load balancer asks itself.
APIReachable ==
    IF UserEndpoint THEN Serving # {}
    ELSE "forwardingRule" \in resources /\ HealthyMembers # {}

\* kubeadm on m finds the control plane at the API endpoint.
Reaches(m) == m \in vms /\ APIReachable /\ (UserEndpoint \/ ~Behind(m))

----------------------------------------------------------------------------
(* Steps shared by the tasks.                                              *)

Goto(label, position) == pc' = label /\ at' = position

LBParts ==
    IF UserEndpoint THEN Firewalls
    ELSE Firewalls \o <<"address", "healthCheck", "backendService", "forwardingRule">>

\* managedBackendService does not return nil.
Managed == "backendService" \in resources

HasEndpoint(m) == Zone[m] \in resources /\ Behind(m)

\* One request of ensureEndpoint: the NEG, the backend, the endpoint.
ensureEndpoint(m) ==
    LET z == Zone[m]
        stale == {e \in endpoints : e[1] = m /\ e # Endpoint(m)}
    IN
    /\ m \in vms /\ z \notin foreign
    /\ \/ /\ z \notin resources
          /\ resources' = resources \cup {z}
          /\ UNCHANGED <<backends, endpoints>>
       \/ /\ z \in resources \ backends
          /\ backends' = backends \cup {z}
          /\ UNCHANGED <<resources, endpoints>>
       \/ /\ z \in resources \cap backends
          /\ endpoints' = IF stale # {} THEN endpoints \ stale
                          ELSE endpoints \cup {Endpoint(m)}
          /\ UNCHANGED <<resources, backends>>

----------------------------------------------------------------------------
(* kubeone apply: the load balancer and the VMs.                           *)

\* A control plane that is partly reset is reset to the end first.
runApply ==
    /\ pc \in Ended /\ ~retired /\ (resetting => joined = {})
    /\ Goto("lb", 1) /\ hosts' = <<>> /\ leader' = 1 /\ live' = {}
    /\ resetting' = FALSE
    /\ UNCHANGED <<cloud, cluster, apiHost, withLB, retired, events>>

EnsureLoadBalancer ==
    /\ pc = "lb"
    /\ IF at > Len(LBParts)
       THEN Goto("vm", 1) /\ UNCHANGED resources
       ELSE /\ LBParts[at] \notin foreign
            /\ IF LBParts[at] \in resources
               THEN Goto("lb", at + 1) /\ UNCHANGED resources
               ELSE resources' = resources \cup {LBParts[at]} /\ Goto("lb", at)
    /\ UNCHANGED <<foreign, backends, endpoints, vms, ip, cluster, hosts, leader,
                   live, apiHost, withLB, operator, events>>

FindOrCreateMachines ==
    /\ pc = "vm" /\ at <= N /\ at \notin vms
    /\ vms' = vms \cup {at}
    /\ \E i \in IPs : ip' = [ip EXCEPT ![at] = i]
    /\ UNCHANGED <<resources, foreign, backends, endpoints, cluster, process,
                   operator, events>>

EnsureVM ==
    /\ pc = "vm" /\ at <= N /\ at \in vms
    /\ hosts' = Append(hosts, at)
    /\ IF at = 1 THEN Goto("leader", at) ELSE Goto("vm", at + 1)
    /\ UNCHANGED <<cloud, cluster, leader, live, apiHost, withLB, operator, events>>

\* Mutant: any other member counts, healthy or not.
leaderUnlessMembers ==
    /\ pc = "leader"
    /\ IF ~Managed \/ \E e \in endpoints : e[1] # at
       THEN Goto("vm", at + 1)
       ELSE Goto("attach", at)
    /\ UNCHANGED <<cloud, cluster, hosts, leader, live, apiHost, withLB, operator, events>>

\* The first VM is added unless another member is healthy.
ensureLeaderEndpoint ==
    /\ pc = "leader"
    /\ IF ~Managed \/ HealthyMembers \ {at} # {}
       THEN Goto("vm", at + 1)
       ELSE Goto("attach", at)
    /\ UNCHANGED <<cloud, cluster, hosts, leader, live, apiHost, withLB, operator, events>>

AttachLeader ==
    /\ pc = "attach"
    /\ IF HasEndpoint(at)
       THEN Goto("vm", at + 1) /\ UNCHANGED <<resources, backends, endpoints>>
       ELSE ensureEndpoint(at) /\ UNCHANGED <<pc, at>>
    /\ UNCHANGED <<foreign, vms, ip, cluster, hosts, leader, live, apiHost, withLB,
                   operator, events>>

EndMachines ==
    /\ pc = "vm" /\ at > N
    /\ Goto("probe", 1)
    /\ UNCHANGED <<cloud, cluster, hosts, leader, live, apiHost, withLB, operator, events>>

----------------------------------------------------------------------------
(* The probes.                                                             *)

\* IsInCluster is set on the first host with the name of the Node.
InCluster == {i \in DOMAIN hosts : hosts[i] \in nodes /\ \A j \in 1..(i - 1) : hosts[j] # hosts[i]}

Healthy == workers /\ \A i \in DOMAIN hosts : i \in InCluster /\ hosts[i] \in Serving

Elected == CHOOSE i \in DOMAIN hosts :
    hosts[i] \in Serving /\ \A j \in 1..(i - 1) : hosts[j] \notin Serving

investigateCluster ==
    IF joined = {}
    THEN UNCHANGED <<leader, live>>
    ELSE APIReachable /\ leader' = Elected /\ live' = InCluster

\* runApply after the probes; a full install probes again.
Decide ==
    /\ pc = "probe"
    /\ investigateCluster
    /\ IF joined = {} THEN Goto("reprobe", 1)
       ELSE IF Healthy THEN Goto("members", 1)
       ELSE IF DOMAIN hosts = InCluster /\ workers THEN Goto("failed", 1)
       ELSE Goto("reprobe", 1)
    /\ UNCHANGED <<cloud, cluster, hosts, apiHost, withLB, operator, events>>

WithHostnameOSAndProbes ==
    /\ pc = "reprobe"
    /\ investigateCluster
    /\ Goto("init", 1)
    /\ UNCHANGED <<cloud, cluster, hosts, apiHost, withLB, operator, events>>

----------------------------------------------------------------------------
(* The full install.                                                       *)

\* kubeadm init, skipped on a host that has admin.conf.
initKubernetesLeader ==
    LET h == hosts[leader] IN
    /\ pc = "init"
    /\ IF h \in joined
       THEN UNCHANGED cluster
       ELSE /\ joined = {} /\ h \in vms
            /\ UserEndpoint \/ ("forwardingRule" \in resources /\ Behind(h))
            /\ joined' = {h} /\ down' = {} /\ nodes' = {h} /\ workers' = FALSE
    /\ Goto("repair", 1)
    /\ UNCHANGED <<cloud, hosts, leader, live, apiHost, withLB, operator, events>>

\* The Node objects of hosts that are no live etcd members are deleted.
repairClusterIfNeeded ==
    /\ pc = "repair" /\ APIReachable
    /\ nodes' = nodes \cap joined
    /\ Goto("removeJoining", 1)
    /\ UNCHANGED <<cloud, joined, down, workers, hosts, leader, live, apiHost, withLB,
                   operator, events>>

\* Mutant: the first machine is taken for the leader.
allButTheFirst == {hosts[i] : i \in DOMAIN hosts \ ({1} \cup live)}

joiningFollowers == {hosts[i] : i \in DOMAIN hosts \ ({leader} \cup live)}

\* The leader is added, unless it is joining itself.
RemoveJoiningLoadBalancerMembers ==
    LET h == hosts[leader] IN
    /\ pc = "removeJoining"
    /\ IF ~Managed
       THEN Goto("join", 1) /\ UNCHANGED <<resources, backends, endpoints>>
       ELSE IF h \in joiningFollowers \/ HasEndpoint(h)
            THEN Goto("detach", 1) /\ UNCHANGED <<resources, backends, endpoints>>
            ELSE ensureEndpoint(h) /\ UNCHANGED <<pc, at>>
    /\ UNCHANGED <<foreign, vms, ip, cluster, hosts, leader, live, apiHost, withLB,
                   operator, events>>

\* Mutant: the NEGs of the joining hosts are emptied.
emptyNEGs ==
    LET detach(z) == {e \in endpoints : Zone[e[1]] = z}
        hit == {z \in backends : \E e \in detach(z) : e[1] \in joiningFollowers}
    IN
    /\ pc = "detach"
    /\ \/ \E z \in hit : endpoints' = endpoints \ detach(z) /\ UNCHANGED <<pc, at>>
       \/ hit = {} /\ Goto("join", 1) /\ UNCHANGED endpoints
    /\ UNCHANGED <<resources, foreign, backends, vms, ip, cluster, hosts, leader, live,
                   apiHost, withLB, operator, events>>

\* Then the joining hosts are removed, a request for each NEG.
removeJoiningEndpoints ==
    LET detach(z) == {e \in endpoints : Zone[e[1]] = z /\ e[1] \in joiningFollowers} IN
    /\ pc = "detach"
    /\ \/ \E z \in backends :
            /\ detach(z) # {}
            /\ endpoints' = endpoints \ detach(z)
            /\ UNCHANGED <<pc, at>>
       \/ /\ \A z \in backends : detach(z) = {}
          /\ Goto("join", 1) /\ UNCHANGED endpoints
    /\ UNCHANGED <<resources, foreign, backends, vms, ip, cluster, hosts, leader, live,
                   apiHost, withLB, operator, events>>

\* kubeadm join on the followers, skipped on a host that has admin.conf.
joinControlplaneNode ==
    /\ pc = "join"
    /\ IF at > Len(hosts)
       THEN Goto("members", 1) /\ UNCHANGED <<joined, nodes>>
       ELSE IF at = leader \/ hosts[at] \in joined
            THEN Goto("join", at + 1) /\ UNCHANGED <<joined, nodes>>
            ELSE /\ Reaches(hosts[at])
                 /\ joined' = joined \cup {hosts[at]}
                 /\ nodes' = nodes \cup {hosts[at]}
                 /\ UNCHANGED <<pc, at>>
    /\ UNCHANGED <<cloud, down, workers, hosts, leader, live, apiHost, withLB, operator,
                   events>>

\* Mutant: only the VMs that have just joined are added.
membersOfThisRun ==
    /\ pc = "members"
    /\ IF ~Managed \/ at > N
       THEN Goto("workers", 1) /\ UNCHANGED <<resources, backends, endpoints>>
       ELSE IF HasEndpoint(at) \/ at \in {hosts[i] : i \in live}
            THEN Goto("members", at + 1) /\ UNCHANGED <<resources, backends, endpoints>>
            ELSE ensureEndpoint(at) /\ UNCHANGED <<pc, at>>
    /\ UNCHANGED <<foreign, vms, ip, cluster, hosts, leader, live, apiHost, withLB,
                   operator, events>>

EnsureLoadBalancerMembers ==
    /\ pc = "members"
    /\ IF ~Managed \/ at > N
       THEN Goto("workers", 1) /\ UNCHANGED <<resources, backends, endpoints>>
       ELSE IF HasEndpoint(at)
            THEN Goto("members", at + 1) /\ UNCHANGED <<resources, backends, endpoints>>
            ELSE ensureEndpoint(at) /\ UNCHANGED <<pc, at>>
    /\ UNCHANGED <<foreign, vms, ip, cluster, hosts, leader, live, apiHost, withLB,
                   operator, events>>

joinStaticWorkerNodes ==
    /\ pc = "workers" /\ APIReachable
    /\ workers' = TRUE
    /\ Goto("applied", 1)
    /\ UNCHANGED <<cloud, joined, down, nodes, hosts, leader, live, apiHost, withLB,
                   operator, events>>

----------------------------------------------------------------------------
(* kubeone reset.                                                          *)

\* runReset up to the tasks: LookupLoadBalancer, LookupVMs and the client of
\* the cluster, which the cleanup inside the cluster needs.
runReset(destroy, lb, force, inCluster) ==
    /\ pc \in Ended
    /\ UserEndpoint \/ "forwardingRule" \in resources \cup foreign \/ destroy
    /\ destroy \/ vms = Machines
    /\ inCluster /\ ~APIReachable => destroy /\ force
    /\ apiHost' = IF UserEndpoint \/ "forwardingRule" \in foreign THEN "other"
                  ELSE IF "forwardingRule" \in resources THEN "lb" ELSE "none"
    /\ withLB' = lb
    /\ resetting' = TRUE
    /\ hosts' = <<>> /\ leader' = 1 /\ live' = {}
    /\ Goto(IF destroy THEN "destroyVMs" ELSE "resetNodes", 1)
    /\ UNCHANGED <<cloud, cluster, retired>>

EndReset(label) ==
    /\ Goto(label, 1) /\ resetting' = FALSE /\ workers' = FALSE

\* GCE may keep the endpoint of an instance that is gone for a while.
InstanceGone(m) ==
    /\ vms' = vms \ {m}
    /\ joined' = joined \ {m} /\ down' = down \ {m}
    /\ endpoints' \in {endpoints, endpoints \ {Endpoint(m)}}

\* CleanupMachines, then the load balancer or the static workers.
destroyControlPlaneMachines ==
    /\ pc = "destroyVMs"
    /\ \/ /\ at > N /\ withLB /\ Goto("destroyLB", 1)
          /\ UNCHANGED <<cloud, cluster, resetting>>
       \/ /\ at > N /\ ~withLB /\ EndReset("destroyed")
          /\ UNCHANGED <<cloud, joined, down, nodes>>
       \/ /\ at <= N /\ at \notin vms /\ Goto("destroyVMs", at + 1)
          /\ UNCHANGED <<cloud, cluster, resetting>>
       \/ /\ at <= N /\ at \in vms /\ InstanceGone(at)
          /\ UNCHANGED <<pc, at, resources, foreign, backends, ip, nodes, workers, resetting>>
    /\ UNCHANGED <<hosts, leader, live, apiHost, withLB, retired, events>>

\* Mutant: the health check goes before the backend service that uses it.
HealthCheckFirst ==
    <<"forwardingRule", "healthCheck", "backendService">> \o [m \in Machines |-> Zone[m]]
    \o <<"address">> \o Firewalls

\* Mutant: only the NEGs of the first zone are looked for.
FirstZoneOnly ==
    <<"forwardingRule", "backendService", Zone[1], "healthCheck", "address">> \o Firewalls

\* keepLB: the API endpoint is not the load balancer's address.
CleanupOrder ==
    IF apiHost = "other" /\ "address" \in resources \cup foreign
    THEN Firewalls
    ELSE <<"forwardingRule", "backendService">> \o [m \in Machines |-> Zone[m]]
         \o <<"healthCheck", "address">> \o Firewalls

\* What is missing and what others own is skipped.
deleteResource(p) ==
    /\ p \in resources /\ ~InUse(p)
    /\ resources' = resources \ {p}
    /\ backends' = IF p = "backendService" THEN {} ELSE backends
    /\ endpoints' = {e \in endpoints : Zone[e[1]] # p}
    /\ UNCHANGED foreign

destroyControlPlaneLoadBalancer ==
    /\ pc = "destroyLB"
    /\ \/ /\ at > Len(CleanupOrder) /\ EndReset("destroyed")
          /\ UNCHANGED <<resources, foreign, backends, endpoints>>
       \/ /\ at <= Len(CleanupOrder) /\ CleanupOrder[at] \notin resources
          /\ Goto("destroyLB", at + 1)
          /\ UNCHANGED <<resources, foreign, backends, endpoints, workers, resetting>>
       \/ /\ at <= Len(CleanupOrder) /\ deleteResource(CleanupOrder[at])
          /\ UNCHANGED <<pc, at, workers, resetting>>
    /\ UNCHANGED <<vms, ip, joined, down, nodes, hosts, leader, live, apiHost, withLB,
                   retired, events>>

\* kubeadm reset on every node; the VMs and the load balancer stay.
resetAllNodes ==
    /\ pc = "resetNodes"
    /\ \/ /\ at > N /\ EndReset("reset")
          /\ UNCHANGED <<joined, down, nodes>>
       \/ /\ at \in vms /\ Goto("resetNodes", at + 1)
          /\ joined' = joined \ {at} /\ down' = down \ {at}
          /\ UNCHANGED <<nodes, workers, resetting>>
    /\ UNCHANGED <<cloud, hosts, leader, live, apiHost, withLB, retired, events>>

----------------------------------------------------------------------------
(* Failures.                                                               *)

CannotAdd(m) == m \notin vms \/ Zone[m] \in foreign

\* No attempt of the task can succeed as things are.
Hopeless ==
    \/ pc = "lb" /\ at <= Len(LBParts) /\ LBParts[at] \in foreign
    \/ pc = "attach" /\ CannotAdd(at)
    \/ pc \in {"probe", "reprobe"} /\ joined # {} /\ ~APIReachable
    \/ pc \in {"repair", "workers"} /\ ~APIReachable
    \/ pc = "init" /\ hosts[leader] \notin joined
       /\ (joined # {} \/ hosts[leader] \notin vms
           \/ ~(UserEndpoint \/ ("forwardingRule" \in resources /\ Behind(hosts[leader]))))
    \/ pc = "removeJoining" /\ Managed /\ CannotAdd(hosts[leader])
    \/ pc = "join" /\ at <= Len(hosts) /\ at # leader /\ hosts[at] \notin joined
       /\ ~Reaches(hosts[at])
    \/ pc = "members" /\ Managed /\ at <= N /\ CannotAdd(at)
    \/ pc = "destroyLB" /\ at <= Len(CleanupOrder) /\ InUse(CleanupOrder[at])
    \/ pc = "resetNodes" /\ at <= N /\ at \notin vms

GiveUp ==
    /\ Hopeless
    /\ Goto("failed", 1)
    /\ UNCHANGED <<cloud, cluster, hosts, leader, live, apiHost, withLB, operator, events>>

\* Where Task.Run starts the task again.
TaskStart ==
    IF pc \in {"vm", "leader", "attach"} THEN <<"vm", at>>
    ELSE IF pc = "detach" THEN <<"removeJoining", 1>>
    ELSE <<pc, 1>>

\* A request or a command fails, or fails after it took effect: the task
\* starts again, or the process ends.
Fail ==
    /\ events < MaxEvents /\ events' = events + 1
    /\ pc \notin Ended
    /\ \/ Goto("failed", 1)
       \/ /\ pc \in {"leader", "attach"} => "retriedEndpoint" \in world
          /\ Goto(TaskStart[1], TaskStart[2])
    /\ UNCHANGED <<cloud, cluster, hosts, leader, live, apiHost, withLB, operator>>

\* A VM is lost; failures alone never cost the etcd quorum.
LoseVM(m) ==
    /\ events < MaxEvents /\ events' = events + 1
    /\ m \in vms
    /\ m \in joined => joined = {m} \/ 2 * Cardinality(joined \ {m}) > Cardinality(joined)
    /\ Behind(m) /\ joined \ {m} # {} /\ Managed /\ "lastMember" \notin world =>
           \E other \in joined \ {m} : Behind(other)
    /\ InstanceGone(m)
    /\ nodes' = IF "staleNode" \in world THEN nodes ELSE nodes \ {m}
    /\ UNCHANGED <<resources, foreign, backends, ip, workers, process, operator>>

StopAPIServer(m) ==
    /\ events < MaxEvents /\ events' = events + 1
    /\ m \in Serving
    /\ down' = down \cup {m}
    /\ UNCHANGED <<cloud, joined, nodes, workers, process, operator>>

StartAPIServer(m) ==
    /\ m \in down
    /\ down' = down \ {m}
    /\ UNCHANGED <<cloud, joined, nodes, workers, process, operator, events>>

----------------------------------------------------------------------------
Init ==
    /\ world \in Worlds
    /\ foreign \in Taken
    /\ resources = {} /\ backends = {} /\ endpoints = {}
    /\ vms = {} /\ ip = [m \in Machines |-> 0]
    /\ joined = {} /\ down = {} /\ nodes = {} /\ workers = FALSE
    /\ pc = "failed" /\ at = 1 /\ hosts = <<>> /\ leader = 1 /\ live = {}
    /\ apiHost = "none" /\ withLB = FALSE
    /\ resetting = FALSE /\ retired = FALSE /\ events = 0

Retire ==
    /\ pc \in Ended /\ ~retired /\ retired' = TRUE
    /\ UNCHANGED <<cloud, cluster, process, resetting, events>>

\* A reset that has begun is repeated until it ends.
ResetAgain ==
    /\ resetting /\ UNCHANGED events
    /\ \E destroy, lb, force, inCluster \in BOOLEAN : runReset(destroy, lb, force, inCluster)

ResetAll == retired /\ runReset(TRUE, TRUE, TRUE, TRUE) /\ UNCHANGED events

Operator ==
    \/ runApply
    \/ /\ ~retired /\ ~resetting /\ events < MaxEvents /\ events' = events + 1
       /\ \E destroy, lb, force, inCluster \in BOOLEAN : runReset(destroy, lb, force, inCluster)
    \/ ~retired /\ ResetAgain
    \/ ResetAll
    \/ Retire

Kubeone ==
    \/ EnsureLoadBalancer \/ FindOrCreateMachines \/ EnsureVM
    \/ ensureLeaderEndpoint \/ AttachLeader \/ EndMachines
    \/ Decide \/ WithHostnameOSAndProbes
    \/ initKubernetesLeader \/ repairClusterIfNeeded
    \/ RemoveJoiningLoadBalancerMembers \/ removeJoiningEndpoints
    \/ joinControlplaneNode \/ EnsureLoadBalancerMembers \/ joinStaticWorkerNodes
    \/ destroyControlPlaneMachines \/ destroyControlPlaneLoadBalancer \/ resetAllNodes
    \/ GiveUp

Environment ==
    \/ Fail
    \/ \E m \in Machines : LoseVM(m) \/ StopAPIServer(m) \/ StartAPIServer(m)

Next == (Operator \/ Kubeone \/ Environment) /\ UNCHANGED world

Spec == Init /\ [][Next]_vars

\* The process goes on, the kubelet restarts an API server that stopped, and
\* the operator runs apply, or the reset that has begun, again.
FairSpec ==
    /\ Spec
    /\ WF_vars(Kubeone /\ UNCHANGED world)
    /\ WF_vars((\E m \in Machines : StartAPIServer(m)) /\ UNCHANGED world)
    /\ WF_vars(runApply /\ UNCHANGED world)
    /\ WF_vars((~retired /\ ResetAgain) /\ UNCHANGED world)
    /\ WF_vars(ResetAll /\ UNCHANGED world)

----------------------------------------------------------------------------
(* The type invariant; a NEG is a backend only while the backend service   *)
(* and the NEG exist, and endpoints are in NEGs.                           *)
TypeOK ==
    /\ foreign \in Taken
    /\ resources \subseteq ({LBParts[i] : i \in DOMAIN LBParts} \cup Zones) \ foreign
    /\ backends \subseteq Zones \cap resources
    /\ backends # {} => "backendService" \in resources
    /\ endpoints \subseteq Machines \X IPs
    /\ \A e \in endpoints : Zone[e[1]] \in resources
    /\ vms \subseteq Machines /\ ip \in [Machines -> IPs]
    /\ joined \subseteq vms /\ down \subseteq joined /\ nodes \subseteq Machines
    /\ pc \in Ended \cup Applying \cup Resetting
    /\ hosts \in Seq(Machines) /\ live \subseteq DOMAIN hosts
    /\ workers \in BOOLEAN /\ resetting \in BOOLEAN /\ retired \in BOOLEAN

(* A follower joins from outside: when kubeadm join runs on a VM, the VM   *)
(* is not behind the load balancer, where it would find only itself, and   *)
(* the leader that serves kube-apiserver is.  That is what                 *)
(* RemoveJoiningLoadBalancerMembers promises, whatever VMs were lost,      *)
(* replaced, reset or left half added before.                              *)
JoinsFromOutside ==
    pc = "join" /\ at <= Len(hosts) /\ at # leader /\ Managed =>
        /\ hosts[at] \in vms \ joined => ~Behind(hosts[at])
        /\ hosts[leader] \in joined => HasEndpoint(hosts[leader])

(* kubeone apply never takes the last healthy member from the load         *)
(* balancer: neither replacing endpoints nor removing joining VMs cuts off *)
(* the clients of a cluster that serves.                                   *)
NeverCutsOff ==
    [][/\ pc \in Applying /\ HealthyMembers # {}
       /\ joined \subseteq joined' /\ down' \subseteq down
       => HealthyMembers' # {}]_vars

(* When kubeone apply has succeeded the load balancer is complete, and     *)
(* every control plane VM of the cluster is behind it with its current     *)
(* address and no other: also VMs that joined in an earlier, interrupted   *)
(* run.                                                                    *)
AllBehind ==
    [][pc # "applied" /\ pc' = "applied" =>
        /\ {LBParts[i] : i \in DOMAIN LBParts} \subseteq resources'
        /\ Managed => \A m \in joined : HasEndpoint(m)
        /\ \A e \in endpoints : e[1] \in joined => e = Endpoint(e[1])]_vars

(* When kubeone reset has destroyed the machines and the load balancer,    *)
(* nothing that kubeone created is left, however many runs were            *)
(* interrupted before.                                                     *)
NothingLeft ==
    [][pc # "destroyed" /\ pc' = "destroyed" =>
        vms' = {} /\ (withLB => resources' = {})]_vars

(* An operator who repeats the reset gets rid of everything, from any      *)
(* partly created or partly destroyed state: missing VMs and resources are *)
(* skipped and nothing is deleted while another resource uses it.          *)
ResetCompletes == retired ~> (vms = {} /\ resources = {})

(* An operator who repeats kubeone apply gets a control plane in which     *)
(* every machine has joined and is behind the load balancer, after VMs     *)
(* were lost, API servers stopped and runs were interrupted, if the VM     *)
(* that was lost was not the only one behind the load balancer: the probes *)
(* of kubeone apply come through it.                                       *)
Recovers ==
    foreign = {} /\ "lastMember" \notin world =>
        []<>(retired \/ (joined = Machines /\ (Managed => \A m \in Machines : HasEndpoint(m))))
=============================================================================
