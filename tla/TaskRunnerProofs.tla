-------------------------- MODULE TaskRunnerProofs --------------------------
(***************************************************************************)
(* For every task list and every set of hosts: RunTaskOnNodes is a         *)
(* barrier, and TaskRunner implements TaskList.                            *)
(***************************************************************************)
EXTENDS TaskRunner, FiniteSetTheorems, TLAPS

HostsIn(t, g) == RangeOf(Tasks[t].groups[g].hosts)

(* Within an attempt, the groups before the current one have been applied  *)
(* in full, and a host of the current group that the loop has started is   *)
(* still running, has reported an error, or has been applied.              *)
Accounted ==
    /\ pc = "list" => applied = {}
    /\ pc \in {"fn", "nodes"} =>
        /\ applied \subseteq HostsOf[current]
        /\ \A g \in 1..(group - 1) : HostsIn(current, g) \subseteq applied
    /\ pc = "nodes" =>
        /\ group <= Len(Task.groups)
        /\ next <= Len(Group.hosts) + 1
        /\ running \subseteq HostsIn(current, group)
        /\ \A i \in 1..(next - 1) : Group.hosts[i] \in running \cup errors \cup applied

Inv == TypeOK /\ Barrier /\ Accounted

(* What the assumption on the constants says of one task.                  *)
LEMMA TaskShape ==
    ASSUME NEW t \in 1..Len(Tasks)
    PROVE  /\ Tasks[t].predicate \in BOOLEAN
           /\ Tasks[t].retries \in Nat \ {0}
           /\ Tasks[t].groups \in Seq([hosts : Seq(Hosts), parallel : BOOLEAN])
           /\ Len(Tasks[t].groups) \in Nat
<1> DEFINE G == [hosts : Seq(Hosts), parallel : BOOLEAN]
<1> DEFINE T == [predicate : BOOLEAN, retries : Nat \ {0}, groups : Seq(G)]
<1>1. Tasks \in Seq(T)
    BY TasksAssumption
<1>2. Tasks[t] \in T
    <2> HIDE DEF T
    <2> QED BY <1>1
<1>3. /\ Tasks[t].predicate \in BOOLEAN /\ Tasks[t].retries \in Nat \ {0}
      /\ Tasks[t].groups \in Seq(G)
    BY <1>2
<1>4. Len(Tasks[t].groups) \in Nat
    <2> HIDE DEF G
    <2> QED BY <1>3
<1> QED BY <1>3, <1>4

(* What it says of one group of a task.                                    *)
LEMMA GroupShape ==
    ASSUME NEW t \in 1..Len(Tasks), NEW g \in 1..Len(Tasks[t].groups)
    PROVE  /\ Tasks[t].groups[g].hosts \in Seq(Hosts)
           /\ Len(Tasks[t].groups[g].hosts) \in Nat
           /\ HostsIn(t, g) \subseteq Hosts
           /\ HostsIn(t, g) \subseteq HostsOf[t]
<1> DEFINE G == [hosts : Seq(Hosts), parallel : BOOLEAN]
<1>1. Tasks[t].groups[g] \in G
    <2>1. Tasks[t].groups \in Seq(G)
        BY TaskShape
    <2> HIDE DEF G
    <2> QED BY <2>1
<1>2. Tasks[t].groups[g].hosts \in Seq(Hosts)
    BY <1>1
<1>3. HostsIn(t, g) \subseteq Hosts
    BY <1>2 DEF HostsIn, RangeOf
<1>4. HostsIn(t, g) \subseteq HostsOf[t]
    BY DEF HostsIn, HostsOf
<1> QED BY <1>2, <1>3, <1>4

(* A task's hosts are the hosts of its groups.                             *)
LEMMA HostsOfGroups ==
    ASSUME NEW t \in 1..Len(Tasks), NEW S,
           \A g \in 1..Len(Tasks[t].groups) : HostsIn(t, g) \subseteq S
    PROVE  HostsOf[t] \subseteq S
BY DEF HostsIn, HostsOf

LEMMA ListLength == Len(Tasks) \in Nat
BY TasksAssumption

(* Giving up or starting again keeps the invariant.                        *)
LEMMA RetryKeepsInv ==
    ASSUME Inv, pc \in {"fn", "nodes"}, running = {}, Retry,
           UNCHANGED <<current, next, running, errors, applied>>
    PROVE  Inv'
<1> USE DEF Inv
<1>1. current \in 1..Len(Tasks)
    BY ListLength DEF TypeOK
<1>2. Task.retries \in Nat \ {0} /\ Len(Task.groups) \in Nat
    BY <1>1, TaskShape DEF Task
<1>3. Task' = Task
    BY DEF Task
<1>4. TypeOK'
    BY <1>1, <1>2, <1>3 DEF TypeOK, Retry, Labels
<1>5. Accounted'
    BY DEF Accounted, Retry
<1> QED BY <1>4, <1>5 DEF Barrier

(* Every step keeps the invariant.                                         *)
LEMMA Inductive == Inv /\ [Next]_vars => Inv'
<1> SUFFICES ASSUME Inv, [Next]_vars PROVE Inv'
    OBVIOUS
<1> USE DEF Inv
<1>T. Len(Tasks) \in Nat
    BY ListLength
<1>C. pc \in {"fn", "nodes"} => /\ current \in 1..Len(Tasks)
                               /\ Len(Task.groups) \in Nat
                               /\ Task.retries \in Nat \ {0}
    BY <1>T, TaskShape DEF TypeOK, Task
<1>G. pc = "nodes" => /\ group \in 1..Len(Task.groups)
                     /\ Group.hosts \in Seq(Hosts)
                     /\ Len(Group.hosts) \in Nat
                     /\ HostsIn(current, group) \subseteq Hosts
                     /\ HostsIn(current, group) \subseteq HostsOf[current]
                     /\ HostsIn(current, group) = RangeOf(Group.hosts)
    <2> SUFFICES ASSUME pc = "nodes"
                 PROVE  /\ group \in 1..Len(Tasks[current].groups)
                        /\ Tasks[current].groups[group].hosts \in Seq(Hosts)
                        /\ Len(Tasks[current].groups[group].hosts) \in Nat
                        /\ HostsIn(current, group) \subseteq Hosts
                        /\ HostsIn(current, group) \subseteq HostsOf[current]
        BY DEF Task, Group, HostsIn
    <2>1. current \in 1..Len(Tasks) /\ group \in 1..Len(Tasks[current].groups)
        BY <1>C DEF TypeOK, Accounted, Task
    <2> QED BY <2>1, GroupShape
<1>1. CASE RunSkips
    BY <1>1, <1>T DEF RunSkips, TypeOK, Barrier, Accounted, Labels
<1>2. CASE Run
    <2>1. current \in 1..Len(Tasks) /\ current' = current
        BY <1>2, <1>T DEF Run, TypeOK
    <2>2. Task' = Task /\ Task.retries \in Nat \ {0} /\ Len(Task.groups) \in Nat
        BY <2>1, TaskShape DEF Task
    <2>3. TypeOK'
        BY <1>2, <2>1, <2>2 DEF Run, TypeOK, Labels
    <2>4. Accounted' /\ Barrier'
        BY <1>2 DEF Run, Accounted, Barrier
    <2> QED BY <2>3, <2>4
<1>3. CASE RunEnds
    BY <1>3 DEF RunEnds, TypeOK, Barrier, Accounted, Labels
<1>4. CASE FnReturns
    BY <1>4, <1>C, <1>T DEF FnReturns, TypeOK, Barrier, Accounted, Labels
<1>5. CASE FnFails
    BY <1>5, RetryKeepsInv DEF FnFails, Barrier
<1>6. CASE FnRunsGroup
    <2>1. Task' = Task /\ Group' = Group /\ group \in 1..Len(Task.groups)
        BY <1>6, <1>C DEF FnRunsGroup, Task, Group, TypeOK
    <2>2. Len(Group.hosts) \in Nat
        BY <1>6, <1>C, <2>1, GroupShape DEF FnRunsGroup, Task, Group
    <2>3. TypeOK' /\ Barrier'
        BY <1>6, <2>1 DEF FnRunsGroup, TypeOK, Barrier, Labels
    <2>4. Accounted'
        BY <1>6, <2>1, <2>2 DEF FnRunsGroup, Accounted
    <2> QED BY <2>3, <2>4
<1>7. CASE StartNode
    <2>1. Task' = Task /\ Group' = Group
        BY <1>7 DEF StartNode, Task, Group
    <2>2. next \in 1..Len(Group.hosts) /\ pc = "nodes"
        BY <1>7, <1>G DEF StartNode, TypeOK
    <2>3. Group.hosts[next] \in HostsIn(current, group)
        BY <2>2, <1>G DEF RangeOf
    <2>4. TypeOK' /\ Barrier'
        BY <1>7, <1>G, <2>1, <2>2, <2>3 DEF StartNode, TypeOK, Barrier, Labels
    <2>5. \A i \in 1..next : Group.hosts[i] \in running' \cup errors \cup applied
        BY <1>7, <2>2 DEF StartNode, Accounted
    <2>6. Accounted'
        BY <1>7, <1>G, <2>1, <2>2, <2>3, <2>5 DEF StartNode, Accounted
    <2> QED BY <2>4, <2>6
<1>8. CASE ReturnAggregate
    <2>1. CASE errors = {}
        <3>1. /\ pc = "nodes" /\ running = {} /\ next > Len(Group.hosts)
              /\ group' = group + 1 /\ pc' = "fn"
              /\ UNCHANGED <<attempt, result, current, next, running, errors, applied>>
            BY <1>8, <2>1 DEF ReturnAggregate
        <3>2. Task' = Task
            BY <3>1 DEF Task
        <3>3. HostsIn(current, group) \subseteq applied
            BY <3>1, <2>1, <1>G DEF Accounted, RangeOf, TypeOK
        <3>4. TypeOK' /\ Barrier'
            BY <3>1, <3>2, <1>C, <1>G DEF TypeOK, Barrier, Labels
        <3>5. \A g \in 1..group : HostsIn(current, g) \subseteq applied
            <4> SUFFICES ASSUME NEW g \in 1..group PROVE HostsIn(current, g) \subseteq applied
                OBVIOUS
            <4>1. CASE g = group
                BY <4>1, <3>3
            <4>2. CASE g \in 1..group - 1
                BY <4>2, <3>1 DEF Accounted
            <4> QED BY <4>1, <4>2, <1>G DEF TypeOK
        <3>6. Accounted'
            BY <3>1, <3>5, <1>G DEF Accounted, TypeOK
        <3> QED BY <3>4, <3>6
    <2>2. CASE errors # {}
        BY <1>8, <2>2, RetryKeepsInv DEF ReturnAggregate
    <2> QED BY <2>1, <2>2
<1>9. ASSUME NEW h \in Hosts, runTask(h) \/ runTaskFails(h) PROVE Inv'
    <2>1. /\ pc = "nodes" /\ h \in running
          /\ UNCHANGED <<current, attempt, group, next, result, pc>>
        BY <1>9 DEF runTask, runTaskFails, Barrier
    <2>2. Task' = Task /\ Group' = Group
        BY <2>1 DEF Task, Group
    <2>3. running' = running \ {h}
        BY <1>9 DEF runTask, runTaskFails
    <2>4. \/ applied' = applied \cup {h} /\ errors' = errors
          \/ applied' = applied /\ errors' = errors \cup {h}
        BY <1>9 DEF runTask, runTaskFails
    <2>5. TypeOK' /\ Barrier'
        BY <2>1, <2>2, <2>3, <2>4 DEF TypeOK, Barrier
    <2>6. h \in HostsOf[current]
        BY <2>1, <1>G DEF Accounted
    <2>7. Accounted'
        BY <2>1, <2>2, <2>3, <2>4, <2>6 DEF Accounted
    <2> QED BY <2>5, <2>7
<1>10. CASE UNCHANGED vars
    <2>1. Task' = Task /\ Group' = Group
        BY <1>10 DEF vars, Task, Group
    <2> QED BY <1>10, <2>1 DEF vars, TypeOK, Barrier, Accounted
<1> QED BY <1>1, <1>2, <1>3, <1>4, <1>5, <1>6, <1>7, <1>8, <1>9, <1>10 DEF Next

(* The inductive invariant holds in every reachable state.                 *)
LEMMA Invariance == Spec => []Inv
<1>1. Init => Inv
    BY ListLength DEF Init, Inv, TypeOK, Barrier, Accounted, Labels
<1> QED BY <1>1, Inductive, PTL DEF Spec

(* Tasks.Run, Task.Run and RunTaskOnNodes keep the type invariant.         *)
THEOREM TypeCorrect == Spec => []TypeOK
BY Invariance, PTL DEF Inv

(* RunTaskOnNodes returns only when no goroutine works on a host any more, *)
(* for every task list and any number of hosts.                            *)
THEOREM BarrierHolds == Spec => []Barrier
BY Invariance, PTL DEF Inv

(* In a sequential group, only the host that the loop started last can be  *)
(* running or have failed.                                                 *)
LastStarted == IF next = 1 THEN {} ELSE {Group.hosts[next - 1]}
Sequential ==
    pc = "nodes" /\ ~Group.parallel =>
        /\ running \subseteq LastStarted /\ errors \subseteq LastStarted
        /\ running = {} \/ errors = {}

LEMMA SequentialNext == Inv /\ Sequential /\ [Next]_vars => Sequential'
<1> SUFFICES ASSUME Inv, Sequential, [Next]_vars, pc' = "nodes", ~Group'.parallel
             PROVE  /\ running' \subseteq LastStarted' /\ errors' \subseteq LastStarted'
                    /\ running' = {} \/ errors' = {}
    BY DEF Sequential
<1>1. next \in Nat \ {0}
    BY DEF Inv, TypeOK
<1>2. CASE FnRunsGroup
    BY <1>2 DEF FnRunsGroup
<1>3. CASE StartNode
    <2>1. Group' = Group /\ running = {} /\ errors = {}
        BY <1>3 DEF StartNode, Group, Task
    <2>2. LastStarted' = {Group.hosts[next]}
        BY <1>1, <1>3, <2>1 DEF StartNode, LastStarted
    <2> QED BY <1>3, <2>1, <2>2 DEF StartNode
<1>4. ASSUME NEW h \in Hosts, runTask(h) \/ runTaskFails(h)
      PROVE  /\ running' \subseteq LastStarted' /\ errors' \subseteq LastStarted'
             /\ running' = {} \/ errors' = {}
    <2>1. Group' = Group /\ LastStarted' = LastStarted
        BY <1>4 DEF runTask, runTaskFails, Group, Task, LastStarted
    <2>2. running \subseteq LastStarted /\ errors = {} /\ h \in running
        BY <1>4, <2>1 DEF runTask, runTaskFails, Sequential
    <2>3. running = {h}
        BY <2>2 DEF LastStarted
    <2> QED BY <1>4, <2>1, <2>2, <2>3 DEF runTask, runTaskFails
<1>5. CASE RunSkips \/ Run \/ RunEnds \/ FnReturns \/ FnFails \/ ReturnAggregate
    BY <1>5 DEF RunSkips, Run, RunEnds, FnReturns, FnFails, ReturnAggregate, Retry
<1>6. CASE UNCHANGED vars
    <2>1. Group' = Group /\ LastStarted' = LastStarted
        BY <1>6 DEF vars, Group, Task, LastStarted
    <2> QED BY <1>6, <2>1 DEF vars, Sequential
<1> QED BY <1>2, <1>3, <1>4, <1>5, <1>6 DEF Next

(* Run sequentially, a node task is on one host at a time, and the first   *)
(* error ends the attempt with the remaining hosts untouched, for every    *)
(* task list and any number of hosts.                                      *)
THEOREM SequentialSafe == Spec => []SequentialStops
<1>1. Init => Sequential
    BY DEF Init, Sequential
<1>2. Inv /\ Sequential => SequentialStops
    <2> SUFFICES ASSUME Sequential, pc = "nodes", ~Group.parallel
                 PROVE  /\ Cardinality(running) <= 1
                        /\ errors # {} => running = {} /\ errors = {Group.hosts[next - 1]}
        BY DEF SequentialStops
    <2>1. running \subseteq {Group.hosts[next - 1]} /\ errors \subseteq {Group.hosts[next - 1]}
        BY DEF Sequential, LastStarted
    <2>2. Cardinality(running) <= 1
        <3>1. IsFiniteSet({Group.hosts[next - 1]}) /\ Cardinality({Group.hosts[next - 1]}) = 1
            BY FS_Singleton
        <3>2. Cardinality(running) <= Cardinality({Group.hosts[next - 1]})
            BY <2>1, <3>1, FS_Subset
        <3> QED BY <3>1, <3>2
    <2> QED BY <2>1, <2>2 DEF Sequential
<1> QED BY <1>1, <1>2, Invariance, SequentialNext, PTL DEF Spec

(* Every step of the engine is a step of TaskList or hidden from it.       *)
LEMMA StepSimulation == Inv /\ [Next]_vars => [List!Next]_(List!vars)
<1> SUFFICES ASSUME Inv, [Next]_vars PROVE [List!Next]_(List!vars)
    OBVIOUS
<1> USE DEF Inv
<1>T. Len(Tasks) \in Nat
    BY ListLength
<1>R. pc # "done" => result = "running"
    BY DEF TypeOK
<1>1. CASE RunSkips
    <2>1. List!Skip
        BY <1>1, <1>R, <1>T DEF RunSkips, List!Skip, Optional, Accounted, TypeOK, Task
    <2> QED BY <2>1 DEF List!Next
<1>2. CASE Run \/ FnRunsGroup \/ StartNode
    BY <1>2 DEF Run, FnRunsGroup, StartNode, List!vars
<1>3. CASE RunEnds
    <2>1. List!Finish
        BY <1>3, <1>R, <1>T DEF RunEnds, List!Finish, TypeOK
    <2> QED BY <2>1 DEF List!Next
<1>4. CASE FnReturns
    <2>1. current \in 1..Len(Tasks) /\ Len(Task.groups) \in Nat
        BY <1>4, <1>T, TaskShape DEF FnReturns, TypeOK, Task
    <2>2. \A g \in 1..Len(Task.groups) : HostsIn(current, g) \subseteq applied
        BY <1>4, <2>1 DEF FnReturns, Accounted, TypeOK
    <2>3. applied = HostsOf[current]
        BY <1>4, <2>1, <2>2, HostsOfGroups DEF FnReturns, Accounted, Task
    <2>4. List!Advance
        BY <1>4, <2>1, <2>3, <1>R DEF FnReturns, List!Advance
    <2> QED BY <2>4 DEF List!Next
<1>5. ASSUME Retry, pc \in {"fn", "nodes"}, UNCHANGED <<current, applied>>
      PROVE  [List!Next]_(List!vars)
    <2>1. current <= Len(Tasks) /\ result = "running"
        BY <1>5, <1>R DEF TypeOK
    <2>2. List!Fail \/ UNCHANGED <<current, applied, result>>
        BY <1>5, <2>1 DEF Retry, List!Fail
    <2> QED BY <2>2 DEF List!Next, List!vars
<1>6. CASE FnFails
    BY <1>5, <1>6 DEF FnFails
<1>7. CASE ReturnAggregate
    <2>1. CASE errors = {}
        BY <1>7, <2>1 DEF ReturnAggregate, List!vars
    <2>2. CASE errors # {}
        BY <1>5, <1>7, <2>2 DEF ReturnAggregate
    <2> QED BY <2>1, <2>2
<1>8. ASSUME NEW h \in Hosts, runTask(h) PROVE [List!Next]_(List!vars)
    <2>1. pc = "nodes" /\ h \in running
        BY <1>8 DEF runTask, Barrier
    <2>2. current \in 1..Len(Tasks) /\ group \in 1..Len(Task.groups)
        BY <2>1, <1>T, TaskShape DEF Accounted, TypeOK, Task
    <2>3. h \in HostsOf[current]
        BY <2>1, <2>2, GroupShape DEF Accounted, Task
    <2>4. List!Apply
        BY <1>8, <2>1, <2>2, <2>3, <1>R DEF runTask, List!Apply
    <2> QED BY <2>4 DEF List!Next
<1>9. ASSUME NEW h \in Hosts, runTaskFails(h) PROVE [List!Next]_(List!vars)
    BY <1>9 DEF runTaskFails, List!vars
<1>10. CASE UNCHANGED vars
    BY <1>10 DEF vars, List!vars
<1> QED BY <1>1, <1>2, <1>3, <1>4, <1>6, <1>7, <1>8, <1>9, <1>10 DEF Next

(* Retries, goroutines and early returns lose no error: whatever the task  *)
(* list, the hosts and the failures, running the list is a behaviour of    *)
(* TaskList.                                                               *)
THEOREM Refinement == Spec => Implements
<1>1. Init => List!Init
    BY DEF Init, List!Init
<1> QED BY <1>1, Invariance, StepSimulation, PTL DEF Spec, Implements, List!Spec
=============================================================================
