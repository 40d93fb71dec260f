----------------------------- MODULE LiveCluster -----------------------------
(* The API server of a cluster, the cloud behind it, and one kubeone process *)
(* that works on them: a command is a list of tasks, a task is a list of     *)
(* requests worked out when the task starts (pkg/tasks/task.go), and a       *)
(* request is one atomic step.  A request may fail, the process may be       *)
(* killed between two requests, and the operator repeats a command that did  *)
(* not succeed.                                                              *)
EXTENDS Addons

CONSTANTS Worlds,      \* scenarios: the commands of the operator, what the cluster holds, the faults
          Retries,     \* bound: how often a task is tried again (the code: 10)
          Workers,     \* names of MachineDeployments
          Machines,    \* bound: the Machines (and their VMs) of one MachineDeployment
          Edits,       \* bound: updates of a MachineDeployment
          Services,    \* Services of type LoadBalancer that users may create
          Claims,      \* PersistentVolumeClaims that users may create, each with the Pod that uses it
          Retained     \* the claims whose volume has the reclaim policy Retain

VARIABLES
    world,       \* the scenario; never changes
    script,      \* the operator's commands still to succeed
    status,      \* of the process: "idle", "running", "failed" or "killed"
    provisioned, \* what the probes of this run found: LiveCluster.IsProvisioned()
    todo,        \* the tasks after the current one
    task,        \* the current task
    steps,       \* the requests left of it
    tries,       \* how often it may still be tried again
    faults,      \* faults left
    skipped,     \* a reset took the workers for absent because it could not ask
    up,          \* the control plane serves
    uninitialized, \* Nodes carry the taint that only the CCM removes
    live,        \* pairs of an addon and an object of its
    secrets,     \* name -> contents
    releases,    \* revisions of Helm releases
    mds,         \* MachineDeployments
    machineSets, machines, vms,
    annotated,   \* the Machines whose Node is marked to be removed without eviction
    services, lbs,                    \* Services with their load balancers in the cloud
    claims, volumes, disks, pods,     \* claims, PVs, the disks in the cloud, the Pods that use a claim
    webhooks     \* resources whose creation kubeone reset has blocked

process == <<script, status, provisioned, todo, task, steps, tries, faults, skipped>>
objects == <<live, secrets, releases>>
workers == <<mds, machineSets, machines, vms, annotated>>
workload == <<services, lbs, claims, volumes, disks, pods>>
node == <<up, uninitialized>>
vars == <<world, process, node, objects, workers, workload, webhooks>>

MachineDeployment == [version : Nat, replicas : Nat, os : STRING, rv : Nat]
NoMD == [version |-> 0, replicas |-> 0, os |-> "", rv |-> 0]

\* A world is well formed: sequences, finite sets and MachineDeployments.
ASSUME ClusterAssumption ==
    /\ IsFiniteSet(Workers) /\ IsFiniteSet(Services) /\ IsFiniteSet(Claims)
    /\ Machines \in Nat
    /\ \A w \in Worlds :
          /\ w.mds \in [Workers -> MachineDeployment \cup {NoMD}]
          /\ w.script \in Seq(Range(w.script))
          /\ \A command \in Range(w.script) :
                /\ command = [cmd |-> command.cmd, manifest |-> command.manifest, flags |-> command.flags]
                /\ command.cmd \in {"apply", "reset"}
                /\ LET wanted == command.manifest
                   IN /\ wanted.version \in Nat
                      /\ DOMAIN wanted.workers \subseteq Workers
                      /\ \A x \in DOMAIN wanted.workers : wanted.workers[x] \in MachineDeployment
                      /\ wanted.addons \in Seq(Range(wanted.addons))
                      /\ wanted.helm \in Seq(Range(wanted.helm))
                      /\ IsFiniteSet(DOMAIN wanted.local)

\* The manifest and the flags of the command that runs.
m == Head(script).manifest
flags == Head(script).flags

\* What the cluster holds of an addon.
ObjectsOf(addon) == {p[2] : p \in {q \in live : q[1] = addon}}

Again == [op |-> "again"]

\* The request is answered; further requests may follow from the answer.
AnsweredWith(more) ==
    /\ steps' = more \o Tail(steps)
    /\ UNCHANGED <<script, status, provisioned, todo, task, tries, faults, skipped>>
Answered == AnsweredWith(<<>>)

\* A request that failed leaves these.
GoOnWith(requests) ==
    /\ steps' = requests
    /\ UNCHANGED <<script, status, provisioned, todo, task, tries, skipped>>

\* The task returns, with an error or without one.
TaskFails == GoOnWith(<<Again>>)
TaskEnds == GoOnWith(<<>>)

-----------------------------------------------------------------------------
(* The process.                                                              *)

\* The probes, and the list of tasks that the command picks.
StartCommand(tasks) ==
    /\ status # "running" /\ script # <<>>
    /\ status' = "running"
    /\ provisioned' = up
    /\ todo' = tasks /\ task' = "" /\ steps' = <<>>
    /\ UNCHANGED <<world, script, tries, faults, skipped, node, objects, workers, workload, webhooks>>

NextTask(requests) ==
    /\ status = "running" /\ steps = <<>> /\ todo # <<>>
    /\ task' = Head(todo) /\ todo' = Tail(todo) /\ tries' = Retries
    /\ steps' = requests
    /\ UNCHANGED <<world, script, status, provisioned, faults, skipped, node, objects, workers, workload, webhooks>>

RetryTask(requests) ==
    /\ status = "running" /\ steps # <<>> /\ Head(steps).op = "again"
    /\ \/ /\ tries > 0
          /\ tries' = tries - 1 /\ steps' = requests
          /\ UNCHANGED <<status, todo>>
       \/ /\ tries = 0
          /\ status' = "failed" /\ steps' = <<>> /\ todo' = <<>>
          /\ UNCHANGED tries
    /\ UNCHANGED <<world, script, provisioned, task, faults, skipped, node, objects, workers, workload, webhooks>>

Succeed ==
    /\ status = "running" /\ steps = <<>> /\ todo = <<>>
    /\ status' = "idle" /\ script' = Tail(script)
    /\ UNCHANGED <<world, provisioned, todo, task, steps, tries, faults, skipped, node, objects, workers, workload,
                   webhooks>>

Kill ==
    /\ status = "running" /\ "kill" \in world.faults /\ faults > 0
    /\ status' = "killed" /\ faults' = faults - 1
    /\ steps' = <<>> /\ todo' = <<>>
    /\ UNCHANGED <<world, script, provisioned, task, tries, skipped, node, objects, workers, workload, webhooks>>
=============================================================================
