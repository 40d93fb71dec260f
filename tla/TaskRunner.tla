----------------------------- MODULE TaskRunner -----------------------------
(***************************************************************************)
(* The engine every command runs on: Tasks.Run goes through a task list,   *)
(* Task.Run retries a task, and the task's function runs node tasks on     *)
(* groups of hosts with RunTaskOnNodes, one host after the other or with   *)
(* a goroutine per host.                                                   *)
(***************************************************************************)
EXTENDS Integers, Sequences, FiniteSets

CONSTANTS
    Hosts,
    Tasks   \* the list: predicate, retries and groups of hosts of each task

\* RunTaskOnAllNodes is two groups: the control plane, then the workers.
ASSUME TasksAssumption ==
    Tasks \in Seq([predicate : BOOLEAN, retries : Nat \ {0},
                   groups : Seq([hosts : Seq(Hosts), parallel : BOOLEAN])])

VARIABLES
    current,    \* index of the task
    attempt,    \* of the task
    group,      \* index of the group the function is at
    next,       \* index of the next host in RunTaskOnNodes' loop
    running,    \* hosts on which the node task runs now
    errors,     \* hosts of aggregateErrs
    applied,    \* hosts on which the current task has worked
    result,
    pc

vars == <<current, attempt, group, next, running, errors, applied, result, pc>>

Task == Tasks[current]
Group == Task.groups[group]

----------------------------------------------------------------------------
(* Task.Run, with wait.ExponentialBackoff.                                 *)

\* Mutant: every attempt starts with the full number of steps.
RetryAfresh ==
    IF attempt < Task.retries \/ Task.retries > 1
    THEN /\ attempt' = attempt /\ group' = 1 /\ pc' = "fn"
         /\ UNCHANGED result
    ELSE /\ result' = "error" /\ pc' = "done"
         /\ UNCHANGED <<attempt, group>>

Retry ==
    IF attempt < Task.retries
    THEN /\ attempt' = attempt + 1 /\ group' = 1 /\ pc' = "fn"
         /\ UNCHANGED result
    ELSE /\ result' = "error" /\ pc' = "done"
         /\ UNCHANGED <<attempt, group>>

----------------------------------------------------------------------------
(* Tasks.Run                                                               *)

RunSkips ==
    /\ pc = "list" /\ current <= Len(Tasks) /\ Task.predicate
    /\ current' = current + 1
    /\ UNCHANGED <<attempt, group, next, running, errors, applied, result, pc>>

Run ==
    /\ pc = "list" /\ current <= Len(Tasks)
    /\ attempt' = 1 /\ group' = 1
    /\ pc' = "fn"
    /\ UNCHANGED <<current, next, running, errors, applied, result>>

RunEnds ==
    /\ pc = "list" /\ current > Len(Tasks)
    /\ result' = "ok" /\ pc' = "done"
    /\ UNCHANGED <<current, attempt, group, next, running, errors, applied>>

----------------------------------------------------------------------------
(* The function of a task.                                                 *)

FnReturns ==
    /\ pc = "fn" /\ group > Len(Task.groups)
    /\ current' = current + 1 /\ applied' = {}
    /\ pc' = "list"
    /\ UNCHANGED <<attempt, group, next, running, errors, result>>

\* What the function does besides running node tasks fails: a Kubernetes
\* request, a local file.
FnFails ==
    /\ pc = "fn"
    /\ Retry
    /\ UNCHANGED <<current, next, running, errors, applied>>

FnRunsGroup ==
    /\ pc = "fn" /\ group <= Len(Task.groups)
    /\ next' = 1 /\ running' = {} /\ errors' = {}
    /\ pc' = "nodes"
    /\ UNCHANGED <<current, attempt, group, applied, result>>

----------------------------------------------------------------------------
(* State.RunTaskOnNodes                                                    *)

\* Mutant: the sequential loop goes on after an error.
StartNodeAfterError ==
    /\ pc = "nodes" /\ next <= Len(Group.hosts)
    /\ Group.parallel \/ running = {}
    /\ running' = running \cup {Group.hosts[next]}
    /\ next' = next + 1
    /\ UNCHANGED <<current, attempt, group, errors, applied, result, pc>>

StartNode ==
    /\ pc = "nodes" /\ next <= Len(Group.hosts)
    /\ Group.parallel \/ (running = {} /\ errors = {})
    /\ running' = running \cup {Group.hosts[next]}
    /\ next' = next + 1
    /\ UNCHANGED <<current, attempt, group, errors, applied, result, pc>>

runTask(h) ==
    /\ h \in running
    /\ running' = running \ {h}
    /\ applied' = applied \cup {h}
    /\ UNCHANGED <<current, attempt, group, next, errors, result, pc>>

\* No connection, or the node task returns an error.
runTaskFails(h) ==
    /\ h \in running
    /\ running' = running \ {h}
    /\ errors' = errors \cup {h}
    /\ UNCHANGED <<current, attempt, group, next, applied, result, pc>>

\* Mutant: wg.Wait is not called.
ReturnAtOnce ==
    /\ pc = "nodes"
    /\ next > Len(Group.hosts) \/ (~Group.parallel /\ errors # {})
    /\ IF errors = {}
       THEN group' = group + 1 /\ pc' = "fn" /\ UNCHANGED <<attempt, result>>
       ELSE Retry
    /\ UNCHANGED <<current, next, running, errors, applied>>

\* Mutant: a task has failed only if it failed on every host.
ReturnSomeErrors ==
    /\ pc = "nodes" /\ running = {}
    /\ next > Len(Group.hosts) \/ (~Group.parallel /\ errors # {})
    /\ IF Cardinality(errors) < Len(Group.hosts)
       THEN group' = group + 1 /\ pc' = "fn" /\ UNCHANGED <<attempt, result>>
       ELSE Retry
    /\ UNCHANGED <<current, next, running, errors, applied>>

\* The loop is over, wg.Wait returns, and NewAggregate of no errors is nil.
ReturnAggregate ==
    /\ pc = "nodes" /\ running = {}
    /\ next > Len(Group.hosts) \/ (~Group.parallel /\ errors # {})
    /\ IF errors = {}
       THEN group' = group + 1 /\ pc' = "fn" /\ UNCHANGED <<attempt, result>>
       ELSE Retry
    /\ UNCHANGED <<current, next, running, errors, applied>>

----------------------------------------------------------------------------
Init ==
    /\ current = 1 /\ attempt = 1 /\ group = 1 /\ next = 1
    /\ running = {} /\ errors = {} /\ applied = {}
    /\ result = "running" /\ pc = "list"

Next ==
    \/ RunSkips \/ Run \/ RunEnds
    \/ FnReturns \/ FnFails \/ FnRunsGroup
    \/ StartNode \/ ReturnAggregate
    \/ \E h \in Hosts : runTask(h) \/ runTaskFails(h)

Spec == Init /\ [][Next]_vars

\* The process keeps running and every node task returns.
FairSpec ==
    /\ Spec /\ WF_vars(Next)
    /\ \A h \in Hosts : WF_vars(runTask(h) \/ runTaskFails(h))

----------------------------------------------------------------------------
Labels == {"list", "fn", "nodes", "done"}

(* The type invariant; a task is attempted at most retries times, and a    *)
(* result is there exactly when the command has returned.                  *)
TypeOK ==
    /\ current \in 1..(Len(Tasks) + 1)
    /\ attempt \in Nat \ {0} /\ group \in Nat \ {0} /\ next \in Nat \ {0}
    /\ running \subseteq Hosts /\ errors \subseteq Hosts /\ applied \subseteq Hosts
    /\ result \in {"running", "ok", "error"} /\ pc \in Labels
    /\ (pc = "done") <=> (result # "running")
    /\ pc \in {"fn", "nodes"} =>
        /\ current <= Len(Tasks) /\ attempt <= Task.retries
        /\ group <= Len(Task.groups) + 1

(* RunTaskOnNodes is a barrier: when the function goes on, and when the    *)
(* command has returned, no goroutine works on a host any more.            *)
Barrier == pc # "nodes" => running = {}

(* Run sequentially, a node task is on one host at a time, and after an    *)
(* error the remaining hosts of the group are left alone in this attempt:  *)
(* what keeps a bad upgrade from going on to the next node.                *)
SequentialStops ==
    pc = "nodes" /\ ~Group.parallel =>
        /\ Cardinality(running) <= 1
        /\ errors # {} => running = {} /\ errors = {Group.hosts[next - 1]}

(* A command returns in the end.                                           *)
Terminates == <>(result # "running")

----------------------------------------------------------------------------
(* Running a list of tasks with retries and goroutines does what TaskList  *)
(* promises.  The mapping is the identity on current, applied and result.  *)

RangeOf(s) == {s[i] : i \in 1..Len(s)}
HostsOf == [t \in 1..Len(Tasks) |->
    UNION {RangeOf(Tasks[t].groups[g].hosts) : g \in 1..Len(Tasks[t].groups)}]
Optional == {t \in 1..Len(Tasks) : Tasks[t].predicate}

List == INSTANCE TaskList WITH NumTasks <- Len(Tasks)

(* No error is lost: the list never moves past a task that did not work on *)
(* all of its hosts, unless the task's predicate skipped it.               *)
Implements == List!Spec
=============================================================================
