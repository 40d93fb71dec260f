------------------------------ MODULE Upgrade ------------------------------
(***************************************************************************)
(* Upgrading Kubernetes: kubeone apply compares the kubelets with the      *)
(* manifest (pkg/state/cluster.go), and WithUpgrade (pkg/tasks/tasks.go)   *)
(* probes again, runs the preflight checks, upgrades the leader, the       *)
(* followers and the static workers one by one, and then all kubelets.     *)
(* A task fails and is retried or gives up, kubeone is killed, and the     *)
(* operator edits the manifest, clears the lock label of a host and runs   *)
(* kubeone apply again, perhaps from two terminals.                        *)
(*                                                                         *)
(* The control plane hosts are 1..NumControlPlane and the static workers   *)
(* the numbers after them, in the order of the manifest.  A version is a   *)
(* minor version.                                                          *)
(***************************************************************************)
EXTENDS Integers, FiniteSets, Sequences

CONSTANTS
    NumControlPlane, NumWorkers,
    MaxVersion,        \* the newest version the operator asks for
    FirstListed,       \* the control plane Node that a List returns first
    MigrationVersion,  \* upgrading to this version migrates the PVCs (1.31)
    Processes,         \* the terminals that run kubeone apply
    Flags,             \* the values of --force-upgrade that the operator uses
    Retargets,         \* the operator edits the version in the manifest
    Reelects,          \* the second probe may miss a healthy API server
    MaxFaults          \* how often a task fails or kubeone is killed

ControlPlane == 1..NumControlPlane
Hosts == 1..(NumControlPlane + NumWorkers)
Versions == 1..MaxVersion

ASSUME HostsAssumption ==
    /\ NumControlPlane \in Nat \ {0} /\ NumWorkers \in Nat
    /\ FirstListed \in ControlPlane
ASSUME VersionsAssumption ==
    MaxVersion \in Nat \ {0} /\ MigrationVersion \in Versions /\ MaxFaults \in Nat
ASSUME SwitchAssumption ==
    Flags \subseteq BOOLEAN /\ {Retargets, Reelects} \subseteq BOOLEAN

VARIABLES
    api,       \* version of the API server of a control plane host
    kubelet,   \* version of the kubelet of a host
    locked,    \* hosts whose Node has the label kubeone.io/upgrade-in-progress
    cordoned,  \* hosts whose Node is unschedulable
    migrated,  \* the PVCs were migrated
    target,    \* versions.kubernetes of the manifest
    faults,    \* failures and kills so far
    overruled, \* an upgrade went ahead against the version skew check
    proc       \* the kubeone processes

cluster == <<api, kubelet, locked, cordoned, migrated>>
vars == <<api, kubelet, locked, cordoned, migrated, target, faults, overruled, proc>>

\* A process that is not running.
Idle(result) ==
    [pc |-> "idle", force |-> FALSE, followers |-> <<>>, todo |-> <<>>,
     live |-> 0, outcome |-> result]

At(p, label) == proc[p].pc = label
Return(p, result) == proc' = [proc EXCEPT ![p] = Idle(result)]
Goto(p, label) == proc' = [proc EXCEPT ![p].pc = label]

\* The hosts from the i-th to the j-th, in the order of the manifest.
InOrder(i, j) == [k \in 1..(j - i + 1) |-> i + k - 1]
Workers == InOrder(NumControlPlane + 1, NumControlPlane + NumWorkers)

\* Mutant: the static workers are forgotten.
ControlPlaneOnly == InOrder(1, NumControlPlane)

RunTaskOnAllNodes == InOrder(1, NumControlPlane + NumWorkers)

----------------------------------------------------------------------------
(* Which upgrades are possible.                                            *)

\* The first host whose kubelet differs from the manifest decides.
UpgradeNeeded ==
    \E h \in Hosts : kubelet[h] < target /\ \A g \in 1..(h - 1) : kubelet[g] = target
Downgrade ==
    \E h \in Hosts : kubelet[h] > target /\ \A g \in 1..(h - 1) : kubelet[g] = target

verifyNoUpgradeLabels == locked \cap ControlPlane = {}

\* Mutant: --force-upgrade does not allow the same version.
verifyVersionUnforced(force) == target > kubelet[FirstListed]

verifyVersion(force) ==
    target > kubelet[FirstListed] \/ (force /\ target = kubelet[FirstListed])

checkVersionSkew(current, diff) == target > current /\ target - current <= diff

\* Mutant: the API servers are not compared with each other.
skewOfOneAPIServer ==
    /\ checkVersionSkew(api[FirstListed], 1)
    /\ \A c \in ControlPlane :
        checkVersionSkew(kubelet[c], 2) /\ kubelet[c] <= api[FirstListed]

\* --force-upgrade ignores this check.
verifyVersionSkew ==
    /\ \A c \in ControlPlane : api[c] = api[FirstListed]
    /\ checkVersionSkew(api[FirstListed], 1)
    /\ \A c \in ControlPlane :
        checkVersionSkew(kubelet[c], 2) /\ kubelet[c] <= api[FirstListed]

----------------------------------------------------------------------------
(* One kubeone process.                                                    *)

\* The probes found every host healthy, so the first host is the leader.
runApply(p, force) ==
    /\ At(p, "idle")
    /\ IF Downgrade THEN Return(p, "error")
       ELSE IF UpgradeNeeded \/ force
       THEN proc' = [proc EXCEPT ![p] =
                [Idle("none") EXCEPT !.pc = "probes", !.force = force,
                                     !.followers = InOrder(2, NumControlPlane)]]
       ELSE Return(p, "ok")
    /\ UNCHANGED <<cluster, target, faults, overruled>>

\* The probes of WithUpgrade elect a leader again; the list of followers is
\* the one that runApply made.
runProbes(p) ==
    /\ At(p, "probes")
    /\ \E leader \in ControlPlane :
        /\ Reelects \/ leader = 1
        /\ proc' = [proc EXCEPT ![p].pc = "preflight",
                       ![p].live = kubelet[1],
                       ![p].todo = <<leader>> \o proc[p].followers \o Workers]
    /\ UNCHANGED <<cluster, target, faults, overruled>>

\* Mutant: --force-upgrade overrides the lock.
preflightWithoutLock(p) ==
    /\ At(p, "preflight")
    /\ IF verifyVersion(proc[p].force) /\ (verifyVersionSkew \/ proc[p].force)
       THEN Goto(p, "label") /\ overruled' = (overruled \/ ~verifyVersionSkew)
       ELSE Return(p, "error") /\ UNCHANGED overruled
    /\ UNCHANGED <<cluster, target, faults>>

runPreflightChecks(p) ==
    /\ At(p, "preflight")
    /\ IF /\ verifyNoUpgradeLabels
          /\ verifyVersion(proc[p].force)
          /\ verifyVersionSkew \/ proc[p].force
       THEN Goto(p, "label") /\ overruled' = (overruled \/ ~verifyVersionSkew)
       ELSE Return(p, "error") /\ UNCHANGED overruled
    /\ UNCHANGED <<cluster, target, faults>>

\* upgradeLeaderExecutor, upgradeFollowerExecutor and
\* upgradeStaticWorkersExecutor on the next host, step by step.
labelNode(p) ==
    /\ At(p, "label")
    /\ locked' = locked \cup {Head(proc[p].todo)}
    /\ Goto(p, "cordon")
    /\ UNCHANGED <<api, kubelet, cordoned, migrated, target, faults, overruled>>

CordonAndDrain(p) ==
    /\ At(p, "cordon")
    /\ cordoned' = cordoned \cup {Head(proc[p].todo)}
    /\ Goto(p, "kubeadm")
    /\ UNCHANGED <<api, kubelet, locked, migrated, target, faults, overruled>>

\* kubeadm upgrade apply, which only the leader runs, refuses to go down or
\* to skip a minor version; the task then gives up.
IsLeader(p) ==
    Len(proc[p].todo) = Len(Workers) + Len(proc[p].followers) + 1
KubeadmAccepts(p, h) == IsLeader(p) => api[h] <= target /\ target <= api[h] + 1

kubeadmUpgrade(p) ==
    /\ At(p, "kubeadm")
    /\ LET h == Head(proc[p].todo)
       IN IF KubeadmAccepts(p, h)
          THEN /\ api' = [c \in ControlPlane |-> IF c = h THEN target ELSE api[c]]
               /\ Goto(p, "uncordon")
          ELSE Return(p, "error") /\ UNCHANGED api
    /\ UNCHANGED <<kubelet, locked, cordoned, migrated, target, faults, overruled>>

Uncordon(p) ==
    /\ At(p, "uncordon")
    /\ cordoned' = cordoned \ {Head(proc[p].todo)}
    /\ Goto(p, "unlabel")
    /\ UNCHANGED <<api, kubelet, locked, migrated, target, faults, overruled>>

unlabelNode(p) ==
    /\ At(p, "unlabel")
    /\ locked' = locked \ {Head(proc[p].todo)}
    /\ proc' = LET rest == Tail(proc[p].todo)
               IN IF rest = <<>>
                  THEN [proc EXCEPT ![p].pc = "kubelets",
                                    ![p].todo = RunTaskOnAllNodes]
                  ELSE [proc EXCEPT ![p].pc = "label", ![p].todo = rest]
    /\ UNCHANGED <<api, kubelet, cordoned, migrated, target, faults, overruled>>

updateAllKubelets(p) ==
    /\ At(p, "kubelets")
    /\ kubelet' = [kubelet EXCEPT ![Head(proc[p].todo)] = target]
    /\ LET rest == Tail(proc[p].todo)
       IN proc' = [proc EXCEPT ![p].pc = IF rest = <<>> THEN "migrate" ELSE "kubelets",
                               ![p].todo = rest]
    /\ UNCHANGED <<api, locked, cordoned, migrated, target, faults, overruled>>

\* The predicate looks at the kubelet that the probe saw on the first host.
migratePVCAllocatedResourceStatus(p) ==
    /\ At(p, "migrate")
    /\ migrated' = (migrated \/ (target = MigrationVersion
                                  /\ proc[p].live = MigrationVersion - 1))
    /\ Return(p, "ok")
    /\ UNCHANGED <<api, kubelet, locked, cordoned, target, faults, overruled>>

\* The task is run again from its first step.
Retry(p) ==
    /\ faults < MaxFaults /\ faults' = faults + 1
    /\ \/ /\ proc[p].pc \in {"cordon", "kubeadm", "uncordon", "unlabel"}
          /\ Goto(p, "label")
       \/ /\ At(p, "kubelets")
          /\ proc' = [proc EXCEPT ![p].todo = RunTaskOnAllNodes]
    /\ UNCHANGED <<cluster, target, overruled>>

\* The task has failed too often, or kubeone is killed.
Stop(p) ==
    /\ faults < MaxFaults /\ faults' = faults + 1
    /\ ~At(p, "idle")
    /\ Return(p, "error")
    /\ UNCHANGED <<cluster, target, overruled>>

----------------------------------------------------------------------------
(* The operator.                                                           *)

AllIdle == \A p \in Processes : At(p, "idle")

EditManifest(version) ==
    /\ Retargets /\ AllIdle
    /\ version # target /\ target' = version
    /\ UNCHANGED <<cluster, faults, overruled, proc>>

\* "fix problem manually and remove that label from the node"
ClearLock(h) ==
    /\ AllIdle
    /\ h \in locked
    /\ locked' = locked \ {h} /\ cordoned' = cordoned \ {h}
    /\ UNCHANGED <<api, kubelet, migrated, target, faults, overruled, proc>>

----------------------------------------------------------------------------
Init ==
    /\ api = [c \in ControlPlane |-> 1]
    /\ kubelet = [h \in Hosts |-> 1]
    /\ locked = {} /\ cordoned = {}
    /\ migrated = FALSE
    /\ target \in Versions
    /\ faults = 0 /\ overruled = FALSE
    /\ proc = [p \in Processes |-> Idle("none")]

Step(p) ==
    \/ runProbes(p) \/ runPreflightChecks(p)
    \/ labelNode(p) \/ CordonAndDrain(p) \/ kubeadmUpgrade(p)
    \/ Uncordon(p) \/ unlabelNode(p)
    \/ updateAllKubelets(p) \/ migratePVCAllocatedResourceStatus(p)

Apply(p) == \E force \in Flags : runApply(p, force)

Next ==
    \/ \E p \in Processes : Step(p) \/ Apply(p) \/ Retry(p) \/ Stop(p)
    \/ \E version \in Versions : EditManifest(version)
    \/ \E h \in Hosts : ClearLock(h)

Spec == Init /\ [][Next]_vars

\* Processes go on, and the operator runs kubeone apply again, with
\* --force-upgrade if that is a flag to use, and clears the locks that
\* failures left.
FairSpec ==
    /\ Spec
    /\ \A p \in Processes : WF_vars(Step(p)) /\ SF_vars(runApply(p, TRUE \in Flags))
    /\ \A h \in Hosts : SF_vars(ClearLock(h))

----------------------------------------------------------------------------
Working == {"label", "cordon", "kubeadm", "uncordon", "unlabel"}

(* The type invariant; a process that works on a host has a host to work   *)
(* on: the task lists of WithUpgrade end where their hosts end.            *)
TypeOK ==
    /\ api \in [ControlPlane -> Versions] /\ kubelet \in [Hosts -> Versions]
    /\ locked \subseteq Hosts /\ cordoned \subseteq Hosts
    /\ migrated \in BOOLEAN
    /\ target \in Versions /\ faults \in 0..MaxFaults /\ overruled \in BOOLEAN
    /\ proc \in [Processes ->
         [pc : {"idle", "probes", "preflight", "kubelets", "migrate"} \cup Working,
          force : BOOLEAN, followers : Seq(Hosts), todo : Seq(Hosts),
          live : 0..MaxVersion, outcome : {"none", "ok", "error"}]]
    /\ \A p \in Processes : proc[p].pc \in Working \cup {"kubelets"} => proc[p].todo # <<>>

(* The version skew policy.  "kubelet cannot be newer than apiserver"      *)
(* (runPreflightChecks): no interruption, retry or edit of the manifest    *)
(* lets updateAllKubelets overtake an API server.  API servers are at most *)
(* one minor version apart, and kubelets of control plane hosts at most    *)
(* two behind, unless the operator overruled the check with                *)
(* --force-upgrade.                                                        *)
SkewKept ==
    /\ \A h \in Hosts, c \in ControlPlane : kubelet[h] <= api[c]
    /\ ~overruled =>
        \A c, d \in ControlPlane : api[c] - api[d] <= 1 /\ api[c] - kubelet[d] <= 2

(* The lock label does its work: one control plane host at most is being   *)
(* upgraded or was left half upgraded, so at most one is out of service.   *)
OneOut == Cardinality((locked \cup cordoned) \cap ControlPlane) <= 1

(* An upgrade that succeeds leaves every component at the version of the   *)
(* manifest and no host locked or cordoned, whatever earlier attempts left *)
(* behind; without interruptions it has also migrated the PVCs.            *)
Completed ==
    [][\A p \in Processes : At(p, "migrate") /\ proc'[p].outcome = "ok" =>
          /\ \A c \in ControlPlane : api'[c] = target'
          /\ \A h \in Hosts : kubelet'[h] = target'
          /\ locked' = {} /\ cordoned' = {}
          /\ faults = 0 /\ target' = MigrationVersion => migrated']_vars

(* The leader can go to the version of the manifest in one step and        *)
(* nothing has to go back.                                                 *)
Admissible == target <= api[1] + 1 /\ \A c \in ControlPlane : api[c] <= target

(* After interruptions "it's enough to run kubeone apply again": once the  *)
(* manifest is left alone and asks for an admissible version, the cluster  *)
(* reaches it and stays there, and no host stays locked or cordoned.       *)
Resumes ==
    (\E version \in Versions : <>[](target = version /\ Admissible)) =>
        /\ <>[](\A c \in ControlPlane : api[c] = target)
        /\ <>[](\A h \in Hosts : kubelet[h] = target)
        /\ []<>(locked = {} /\ cordoned = {})
=============================================================================
