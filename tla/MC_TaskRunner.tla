--------------------------- MODULE MC_TaskRunner ---------------------------
(* A task on all nodes in parallel, an optional one on the control plane   *)
(* host by host, and one on the leader that is tried once.                 *)
EXTENDS TaskRunner

CONSTANTS cp1, cp2, cp3, w1

const_Hosts == {cp1, cp2, cp3, w1}
const_Tasks == <<
    [predicate |-> FALSE, retries |-> 3,
     groups |-> << [hosts |-> <<cp1, cp2, cp3>>, parallel |-> TRUE],
                   [hosts |-> <<w1>>, parallel |-> TRUE] >>],
    [predicate |-> TRUE, retries |-> 2,
     groups |-> << [hosts |-> <<cp1, cp2, cp3>>, parallel |-> FALSE] >>],
    [predicate |-> FALSE, retries |-> 1,
     groups |-> << [hosts |-> <<cp1>>, parallel |-> FALSE] >>] >>
=============================================================================
