--------------------------- MODULE ClusterRepair ---------------------------
(***************************************************************************)
(* Installing and repairing the control plane: kubeone apply probes the    *)
(* hosts (pkg/tasks/probes.go), advises which broken hosts may be deleted  *)
(* without losing the etcd quorum (pkg/state/cluster.go), removes dead     *)
(* etcd members (pkg/tasks/etcd.go) and joins new hosts                    *)
(* (pkg/tasks/controlplane.go).  Components break, the operator deletes    *)
(* advised hosts and replaces them by new machines, kubeone fails or is    *)
(* killed at any point.                                                    *)
(*                                                                         *)
(* etcd is stacked: the API server of a machine uses the etcd member of    *)
(* the same machine.  A new machine has a new name.                        *)
(***************************************************************************)
EXTENDS FiniteSets, Integers

CONSTANTS
    Machines,        \* every machine there will ever be
    InitialHosts,    \* the control plane hosts of the first manifest
    MinHosts,        \* the operator scales down no further
    Worlds,          \* the sets of events that may occur together
    ChecksRing,      \* the operator ignores advice while etcd has members that
                     \* are not hosts; the code does not count those
    OneAtATime       \* nothing breaks while an earlier failure is unrepaired

ASSUME MachinesAssumption ==
    /\ IsFiniteSet(Machines)
    /\ InitialHosts \subseteq Machines /\ InitialHosts # {}
    /\ MinHosts \in Nat \ {0}
ASSUME SwitchAssumption ==
    /\ Worlds \subseteq SUBSET {"recover", "kill"}
    /\ {ChecksRing, OneAtATime} \subseteq BOOLEAN

VARIABLES
    \* The machines and the cluster.
    hosts,        \* the control plane hosts of the manifest
    spare,        \* machines that have not been used yet
    initialized,  \* machines with /etc/kubernetes/admin.conf and kubelet.conf
    etcdUp,       \* machines whose etcd runs
    apiUp,        \* machines whose API server runs
    ring,         \* the members of the etcd cluster
    nodes,        \* the control plane Node objects
    \* kubeone and its operator.
    pc,           \* the running task
    leader,       \* the leader of the running process
    toDelete,     \* membersToDelete of repairClusterIfNeeded
    members,      \* knownEtcdMembersIdentities
    toJoin,       \* followers that joinControlplaneNode has not visited
    advice,       \* hosts that the operator was told to delete
    outcome,      \* what the last process returned
    \* The events that may occur in this behaviour: a broken etcd or API
    \* server comes back by itself, kubeone fails or is killed.
    world

machines == <<hosts, spare, initialized, etcdUp, apiUp, ring, nodes>>
process == <<pc, leader, toDelete, members, toJoin, outcome>>
vars == <<hosts, spare, initialized, etcdUp, apiUp, ring, nodes,
          pc, leader, toDelete, members, toJoin, advice, outcome, world>>

Quorum(r, up) == 2 * Cardinality(r \cap up) > Cardinality(r)

\* The /healthz endpoint answers "ok": the API server and the etcd member
\* next to it run and etcd can commit.
Serving(up, api) == IF Quorum(ring, up) THEN ring \cap up \cap api ELSE {}
APIHealthy == Serving(etcdUp, apiUp)

----------------------------------------------------------------------------
(* pkg/state/cluster.go.  A host is in the cluster when it has a Node      *)
(* object; the container runtime and the kubelet of every machine work.    *)

IsProvisioned == hosts \cap initialized # {}
Healthy == hosts \subseteq nodes \cap APIHealthy
BrokenHosts == (hosts \cap nodes) \ APIHealthy

EtcdHealthy == ring \cap etcdUp

\* Mutant: the quorum of the healthy members counts as tolerance.
WholeQuorum(healthyEtcd) == (healthyEtcd \div 2) + 1

\* Mutant: one host less.
OneLess(healthyEtcd) == healthyEtcd - ((healthyEtcd \div 2) + 1) - 1

EtcdToleranceRemain(healthyEtcd) == healthyEtcd - ((healthyEtcd \div 2) + 1)

\* Hosts with a dead etcd member are safe to delete, and as many of the
\* hosts with a dead API server as the tolerance allows after that.
SafeToDeleteHosts ==
    LET inCluster == hosts \cap nodes
        dead == inCluster \ EtcdHealthy
        candidates == (inCluster \cap EtcdHealthy) \ APIHealthy
        tolerance == EtcdToleranceRemain(Cardinality(inCluster \cap EtcdHealthy))
                     - Cardinality(dead)
    IN {dead \cup more : more \in
           {c \in SUBSET candidates :
               Cardinality(c) = IF tolerance <= 0 THEN 0
                                ELSE IF tolerance >= Cardinality(candidates)
                                     THEN Cardinality(candidates) ELSE tolerance}}

----------------------------------------------------------------------------
(* The environment.  Failures alone never stop etcd or the last API        *)
(* server; advice is dropped when something else breaks.                   *)

Tolerable(up, api) == Quorum(ring, up) /\ Serving(up, api) \cap hosts # {}

MayBreak ==
    OneAtATime => pc = "idle" /\ Healthy /\ ring = hosts /\ advice = {} /\ spare # {}

BreakEtcd(m) ==
    /\ m \in etcdUp /\ MayBreak
    /\ Tolerable(etcdUp \ {m}, apiUp)
    /\ etcdUp' = etcdUp \ {m}
    /\ advice' = {}
    /\ UNCHANGED <<hosts, spare, initialized, apiUp, ring, nodes, process>>

BreakAPIServer(m) ==
    /\ m \in apiUp /\ MayBreak
    /\ Tolerable(etcdUp, apiUp \ {m})
    /\ apiUp' = apiUp \ {m}
    /\ advice' = {}
    /\ UNCHANGED <<hosts, spare, initialized, etcdUp, ring, nodes, process>>

Recover(m) ==
    /\ "recover" \in world
    /\ m \in hosts \cap ring
    /\ \/ m \notin etcdUp /\ etcdUp' = etcdUp \cup {m} /\ UNCHANGED apiUp
       \/ m \notin apiUp /\ apiUp' = apiUp \cup {m} /\ UNCHANGED etcdUp
    /\ UNCHANGED <<hosts, spare, initialized, ring, nodes, process, advice>>

----------------------------------------------------------------------------
(* The operator.                                                           *)

\* An advised host is deleted and a new machine takes its place.
Replace(m, new) ==
    /\ pc = "idle"
    /\ m \in advice \cap hosts /\ new \in spare
    /\ hosts' = (hosts \ {m}) \cup {new}
    /\ spare' = spare \ {new}
    /\ etcdUp' = etcdUp \ {m} /\ apiUp' = apiUp \ {m}
    /\ advice' = advice \ {m}
    /\ UNCHANGED <<initialized, ring, nodes, process>>

\* A host leaves the manifest; its machine is deleted or left running.
ScaleDown(m) ==
    /\ pc = "idle" /\ Healthy /\ ring \subseteq hosts
    /\ m \in hosts /\ Cardinality(hosts) > MinHosts
    /\ hosts' = hosts \ {m}
    /\ advice' = {}
    /\ \/ UNCHANGED <<etcdUp, apiUp>>
       \/ etcdUp' = etcdUp \ {m} /\ apiUp' = apiUp \ {m} /\ Quorum(ring, etcdUp')
    /\ UNCHANGED <<spare, initialized, ring, nodes, process>>

----------------------------------------------------------------------------
(* kubeone.                                                                *)

Return(result) ==
    /\ pc' = "idle" /\ outcome' = result
    /\ toDelete' = {} /\ members' = {} /\ toJoin' = {}

\* runApply after the probes: install, repair, or nothing of interest here.
runApply ==
    /\ pc = "idle"
    /\ \E l \in hosts :
        /\ leader' = l
        /\ IF ~IsProvisioned
           THEN /\ pc' = "init" /\ toJoin' = hosts \ {l} /\ outcome' = "none"
                /\ advice' = {}
                /\ UNCHANGED <<toDelete, members>>
           ELSE /\ l \in APIHealthy
                /\ IF Healthy
                   THEN /\ advice' = {}
                        /\ IF Cardinality(ring) > Cardinality(hosts)
                           THEN pc' = "repair" /\ outcome' = "none"
                                /\ UNCHANGED <<toDelete, members, toJoin>>
                           ELSE Return("ok")
                   ELSE /\ IF BrokenHosts = {} \/ (ChecksRing /\ ~(ring \subseteq hosts))
                           THEN advice' = {}
                           ELSE advice' \in SafeToDeleteHosts
                        /\ IF hosts \subseteq nodes
                           THEN Return("error")
                           ELSE /\ pc' = "repair" /\ toJoin' = hosts \ {l}
                                /\ outcome' = "none"
                                /\ UNCHANGED <<toDelete, members>>
    /\ UNCHANGED machines

Joined(m) ==
    /\ ring' = ring \cup {m}
    /\ etcdUp' = etcdUp \cup {m} /\ apiUp' = apiUp \cup {m}
    /\ nodes' = nodes \cup {m}
    /\ initialized' = initialized \cup {m}

initKubernetesLeader ==
    /\ pc = "init"
    /\ IF leader \in initialized
       THEN UNCHANGED <<initialized, etcdUp, apiUp, ring, nodes>>
       ELSE Joined(leader)
    /\ pc' = "repair"
    /\ UNCHANGED <<hosts, spare, leader, toDelete, members, toJoin, advice, outcome>>

\* Mutant: only the members that the manifest lists are looked at.
DeadHosts == (ring \cap hosts) \ etcdUp

\* Mutant: every member without a healthy API server goes.
NotServing == ring \ (hosts \cap APIHealthy)

\* Members whose status cannot be read, and members the manifest does not list.
MembersToDelete == (ring \ etcdUp) \cup (ring \ hosts)

repairClusterIfNeeded ==
    /\ pc = "repair"
    /\ leader \in etcdUp /\ Quorum(ring, etcdUp)
    /\ toDelete' = MembersToDelete
    /\ members' = ring \ MembersToDelete
    /\ pc' = "remove"
    /\ UNCHANGED <<machines, leader, toJoin, advice, outcome>>

\* etcd refuses to remove a running member if that would cost the quorum.
MemberRemove(m) ==
    /\ pc = "remove" /\ m \in toDelete
    /\ leader \in etcdUp /\ Quorum(ring, etcdUp)
    /\ m \in etcdUp => Quorum(ring \ {m}, etcdUp \ {m})
    /\ ring' = ring \ {m}
    /\ etcdUp' = etcdUp \ {m}
    /\ toDelete' = toDelete \ {m}
    /\ UNCHANGED <<hosts, spare, initialized, apiUp, nodes,
                   pc, leader, members, toJoin, advice, outcome>>

\* The Node objects of hosts that are not members are deleted.
DeleteNodes ==
    /\ pc = "remove" /\ toDelete = {}
    /\ APIHealthy # {}
    /\ nodes' = nodes \cap members
    /\ pc' = "join"
    /\ UNCHANGED <<hosts, spare, initialized, etcdUp, apiUp, ring,
                   leader, toDelete, members, toJoin, advice, outcome>>

\* Mutant: a failed join is not noticed.
joinIgnoringErrors(m) ==
    /\ pc = "join" /\ m \in toJoin
    /\ UNCHANGED <<initialized, etcdUp, apiUp, ring, nodes>> \/ Joined(m)
    /\ toJoin' = toJoin \ {m}
    /\ UNCHANGED <<hosts, spare, pc, leader, toDelete, members, advice, outcome>>

\* kubeadm join, skipped on a host that has admin.conf.
joinControlplaneNode(m) ==
    /\ pc = "join" /\ m \in toJoin
    /\ IF m \in initialized
       THEN UNCHANGED <<initialized, etcdUp, apiUp, ring, nodes>>
       ELSE APIHealthy # {} /\ Joined(m)
    /\ toJoin' = toJoin \ {m}
    /\ UNCHANGED <<hosts, spare, pc, leader, toDelete, members, advice, outcome>>

EndInstall ==
    /\ pc = "join" /\ toJoin = {}
    /\ Return("ok")
    /\ UNCHANGED <<machines, leader, advice>>

\* A task gives up, or kubeone is killed.  The advice stays on the screen.
Fail ==
    /\ "kill" \in world /\ pc # "idle"
    /\ Return("error")
    /\ UNCHANGED <<machines, leader, advice>>

----------------------------------------------------------------------------
Init ==
    /\ hosts = InitialHosts
    /\ spare = Machines \ InitialHosts
    /\ initialized = {} /\ etcdUp = {} /\ apiUp = {}
    /\ ring = {} /\ nodes = {}
    /\ pc = "idle" /\ leader \in InitialHosts
    /\ toDelete = {} /\ members = {} /\ toJoin = {}
    /\ advice = {} /\ outcome = "none"
    /\ world \in Worlds

Kubeone ==
    \/ initKubernetesLeader
    \/ repairClusterIfNeeded
    \/ \E m \in Machines : MemberRemove(m) \/ joinControlplaneNode(m)
    \/ DeleteNodes
    \/ EndInstall

Operator ==
    \/ runApply
    \/ \E m, new \in Machines : Replace(m, new)

Next ==
    /\ \/ Operator \/ Kubeone \/ Fail
       \/ \E m \in Machines :
           BreakEtcd(m) \/ BreakAPIServer(m) \/ Recover(m) \/ ScaleDown(m)
    /\ UNCHANGED world

Spec == Init /\ [][Next]_vars

\* The running process goes on, and the operator follows the advice and
\* runs kubeone apply again.
FairSpec ==
    /\ Spec
    /\ WF_vars(Kubeone /\ UNCHANGED world)
    /\ WF_vars(runApply /\ UNCHANGED world)
    /\ SF_vars((\E m, new \in Machines : Replace(m, new)) /\ UNCHANGED world)

----------------------------------------------------------------------------
(* The type invariant; only initialized machines run etcd or an API server *)
(* and are members or Nodes, because Joined is the only way in.            *)
TypeOK ==
    /\ hosts \subseteq Machines /\ hosts # {}
    /\ spare \subseteq Machines \ hosts
    /\ initialized \subseteq Machines \ spare
    /\ etcdUp \subseteq initialized /\ apiUp \subseteq initialized
    /\ ring \subseteq initialized /\ nodes \subseteq initialized
    /\ pc \in {"idle", "init", "repair", "remove", "join"}
    /\ leader \in Machines
    /\ toDelete \subseteq Machines /\ members \subseteq Machines
    /\ toJoin \subseteq hosts
    /\ advice \subseteq Machines
    /\ outcome \in {"none", "ok", "error"}
    /\ world \in Worlds

(* The etcd quorum survives: whatever breaks, as long as failures alone    *)
(* leave a majority, no advice that SafeToDeleteHosts gives and no member  *)
(* removal of repairClusterIfNeeded costs the quorum, also when kubeone is *)
(* interrupted between a removal and the next join.                        *)
QuorumKept == ring # {} => Quorum(ring, etcdUp)

(* repairClusterIfNeeded removes only members that are dead or that the    *)
(* manifest does not list; the log says "for it's not alive".  That is so  *)
(* if members that died stay dead: repairClusterIfNeeded does not ask a    *)
(* second time before it removes.                                          *)
RemovedAreDead ==
    [][\A m \in ring \ ring' :
          m \in etcdUp /\ m \in hosts => "recover" \in world]_vars

(* When kubeone apply has succeeded the etcd cluster has no member outside *)
(* the manifest, whichever way it took: a dead member of a deleted machine *)
(* would count against the quorum for ever.                                *)
NoGhosts == [][outcome # "ok" /\ outcome' = "ok" => ring' \subseteq hosts']_vars

(* When kubeone apply has succeeded every control plane host of the        *)
(* manifest is an etcd member: a host that is broken and was taken out of  *)
(* the cluster is still reported, not skipped.                             *)
HostsAreMembers == [][outcome # "ok" /\ outcome' = "ok" => hosts' \subseteq ring']_vars

(* The operator who deletes the hosts that kubeone recommends, replaces    *)
(* them and runs kubeone apply again ends up with a healthy control plane. *)
Heals == []<>Healthy
=============================================================================
