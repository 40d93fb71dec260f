------------------------------ MODULE TaskList ------------------------------
(***************************************************************************)
(* What running a list of tasks promises: the tasks take effect one after  *)
(* the other, the next one only when the previous one worked on all of its *)
(* hosts or was skipped, and an error ends the list at the task that       *)
(* failed.  Retries, goroutines and the order of the hosts are hidden.     *)
(***************************************************************************)
EXTENDS Naturals

CONSTANTS
    NumTasks,   \* length of the list
    HostsOf,    \* the hosts a task runs on
    Optional    \* tasks with a predicate

VARIABLES current, applied, result

vars == <<current, applied, result>>

Init == current = 1 /\ applied = {} /\ result = "running"

\* The task works on some more of its hosts.
Apply ==
    /\ result = "running" /\ current <= NumTasks
    /\ \E h \in HostsOf[current] : applied' = applied \cup {h}
    /\ UNCHANGED <<current, result>>

Advance ==
    /\ result = "running" /\ current <= NumTasks
    /\ applied = HostsOf[current]
    /\ current' = current + 1 /\ applied' = {}
    /\ UNCHANGED result

Skip ==
    /\ result = "running" /\ current <= NumTasks
    /\ current \in Optional /\ applied = {}
    /\ current' = current + 1
    /\ UNCHANGED <<applied, result>>

Fail ==
    /\ result = "running" /\ current <= NumTasks
    /\ result' = "error"
    /\ UNCHANGED <<current, applied>>

Finish ==
    /\ result = "running" /\ current = NumTasks + 1
    /\ result' = "ok"
    /\ UNCHANGED <<current, applied>>

Next == Apply \/ Advance \/ Skip \/ Fail \/ Finish

Spec == Init /\ [][Next]_vars
=============================================================================
