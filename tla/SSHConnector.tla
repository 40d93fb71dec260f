---------------------------- MODULE SSHConnector ----------------------------
(***************************************************************************)
(* The SSH connection to one host and the goroutines that share it:        *)
(* Connector.Open caches the connection, commands run in sessions of it    *)
(* (pkg/ssh, pkg/runner), the Kubernetes and etcd clients tunnel through   *)
(* it (pkg/kubeconfig, pkg/tunnel), and whoever meets an error closes it.  *)
(* Dialling fails, the network drops a connection, commands exit with an   *)
(* error.                                                                  *)
(***************************************************************************)
EXTENDS Integers, FiniteSets

CONSTANTS
    Tasks,      \* goroutines that run commands
    Tunnels,    \* goroutines that tunnel for the Kubernetes client
    Probes,     \* goroutines that tunnel for a health check or for etcd
    MaxFaults   \* how often something fails

ASSUME UsersAssumption ==
    /\ Tasks \cap Tunnels = {} /\ (Tasks \cup Tunnels) \cap Probes = {}
    /\ MaxFaults \in Nat

Users == Tasks \cup Tunnels \cup Probes
None == "none"
ASSUME NoneAssumption == None \notin Users

\* A connection is only replaced after a fault.
Connections == 1..(MaxFaults + 1)

VARIABLES
    lock,      \* Connector.lock: the goroutine that holds it
    cache,     \* Connector.connections of the host, 0 if there is none
    dialled,   \* the number of connections so far
    open,      \* connections that nobody has closed
    broken,    \* connections that the network dropped
    client,    \* connections whose sshclient is not nil
    mu,        \* connection.mu: the goroutine that holds it
    pc, conn,  \* what a goroutine does, and with which connection
    faults,    \* faults so far
    failures   \* attempts of a task or of the Kubernetes client that failed

vars == <<lock, cache, dialled, open, broken, client, mu, pc, conn, faults, failures>>

Fault == faults < MaxFaults /\ faults' = faults + 1
Goto(u, label) == pc' = [pc EXCEPT ![u] = label]
Usable(c) == c \in open \ broken

----------------------------------------------------------------------------
(* Connector.Open.  The lock is held while NewConnection dials.            *)

Open(u) ==
    /\ pc[u] = "idle" /\ lock = None
    /\ IF cache # 0
       THEN /\ conn' = [conn EXCEPT ![u] = cache]
            /\ Goto(u, "opened") /\ UNCHANGED lock
       ELSE /\ lock' = u
            /\ Goto(u, "dial") /\ UNCHANGED conn
    /\ UNCHANGED <<cache, dialled, open, broken, client, mu, faults, failures>>

NewConnection(u) ==
    /\ pc[u] = "dial" /\ dialled + 1 \in Connections
    /\ dialled' = dialled + 1
    /\ cache' = dialled' /\ conn' = [conn EXCEPT ![u] = dialled']
    /\ open' = open \cup {dialled'} /\ client' = client \cup {dialled'}
    /\ lock' = None
    /\ Goto(u, "opened")
    /\ UNCHANGED <<broken, mu, faults, failures>>

DialFails(u) ==
    /\ pc[u] = "dial" /\ Fault
    /\ failures' = [failures EXCEPT ![u] = @ + 1]
    /\ lock' = None
    /\ Goto(u, "idle")
    /\ UNCHANGED <<cache, dialled, open, broken, client, mu, conn>>

----------------------------------------------------------------------------
(* Runner.RunRaw with connection.POpen.                                    *)

\* Mutant: a connection that gives no session is not closed.
sessionKeepsConnection(u) ==
    /\ u \in Tasks /\ pc[u] = "opened" /\ mu[conn[u]] = None
    /\ IF conn[u] \in client /\ Usable(conn[u])
       THEN Goto(u, "run") /\ UNCHANGED failures
       ELSE Goto(u, "idle") /\ failures' = [failures EXCEPT ![u] = @ + 1]
    /\ UNCHANGED <<lock, cache, dialled, open, broken, client, mu, conn, faults>>

session(u) ==
    /\ u \in Tasks /\ pc[u] = "opened" /\ mu[conn[u]] = None
    /\ IF conn[u] \in client /\ Usable(conn[u]) THEN Goto(u, "run") ELSE Goto(u, "close")
    /\ UNCHANGED <<lock, cache, dialled, open, broken, client, mu, conn, faults, failures>>

\* The command ends; it fails if the connection went away.
RunEnds(u) ==
    /\ pc[u] = "run"
    /\ IF Usable(conn[u]) THEN Goto(u, "idle") ELSE Goto(u, "close")
    /\ UNCHANGED <<lock, cache, dialled, open, broken, client, mu, conn, faults, failures>>

\* The command itself fails, and RunRaw closes the connection.
RunRawFails(u) ==
    /\ pc[u] = "run" /\ Fault
    /\ Goto(u, "close")
    /\ UNCHANGED <<lock, cache, dialled, open, broken, client, mu, conn, failures>>

----------------------------------------------------------------------------
(* connection.TunnelTo.  It looks at sshclient twice and does not lock mu. *)
(* TunnelDialerFactory closes the connection on an error; the dialers of   *)
(* pkg/tunnel do not.                                                      *)

TunnelFails(u) == Goto(u, IF u \in Tunnels THEN "close" ELSE "idle")

TunnelToCheck(u) ==
    /\ u \in Tunnels \cup Probes /\ pc[u] = "opened"
    /\ IF conn[u] \in client THEN Goto(u, "tunnel") ELSE TunnelFails(u)
    /\ UNCHANGED <<lock, cache, dialled, open, broken, client, mu, conn, faults, failures>>

TunnelToDial(u) ==
    /\ pc[u] = "tunnel"
    /\ IF conn[u] \in client /\ ~Usable(conn[u])
       THEN TunnelFails(u)
       ELSE Goto(u, IF conn[u] \in client THEN "idle" ELSE "panic")
    /\ UNCHANGED <<lock, cache, dialled, open, broken, client, mu, conn, faults, failures>>

\* Nobody listens at the far end of the tunnel.
TunnelRefused(u) ==
    /\ pc[u] = "tunnel" /\ conn[u] \in client /\ Fault
    /\ TunnelFails(u)
    /\ UNCHANGED <<lock, cache, dialled, open, broken, client, mu, conn, failures>>

----------------------------------------------------------------------------
(* connection.Close: sshclient.Close, forgetConnection, sshclient = nil,   *)
(* in this order, under mu.                                                *)

\* Mutant: sshclient.Close is not called.
CloseLeaks(u) ==
    /\ pc[u] = "close" /\ mu[conn[u]] = None
    /\ IF conn[u] \in client
       THEN /\ mu' = [mu EXCEPT ![conn[u]] = u]
            /\ Goto(u, "forget") /\ UNCHANGED failures
       ELSE /\ failures' = [failures EXCEPT ![u] = @ + 1]
            /\ Goto(u, "idle") /\ UNCHANGED mu
    /\ UNCHANGED <<lock, cache, dialled, open, broken, client, conn, faults>>

Close(u) ==
    /\ pc[u] = "close" /\ mu[conn[u]] = None
    /\ IF conn[u] \in client
       THEN /\ mu' = [mu EXCEPT ![conn[u]] = u]
            /\ open' = open \ {conn[u]}
            /\ Goto(u, "forget") /\ UNCHANGED failures
       ELSE /\ failures' = [failures EXCEPT ![u] = @ + 1]
            /\ Goto(u, "idle") /\ UNCHANGED <<mu, open>>
    /\ UNCHANGED <<lock, cache, dialled, broken, client, conn, faults>>

forgetConnection(u) ==
    /\ pc[u] = "forget" /\ lock = None
    /\ cache' = IF cache = conn[u] THEN 0 ELSE cache
    /\ Goto(u, "closed")
    /\ UNCHANGED <<lock, dialled, open, broken, client, mu, conn, faults, failures>>

\* Mutant: mu is not unlocked.
CloseStaysLocked(u) ==
    /\ pc[u] = "closed"
    /\ client' = client \ {conn[u]}
    /\ failures' = [failures EXCEPT ![u] = @ + 1]
    /\ Goto(u, "idle")
    /\ UNCHANGED <<lock, cache, dialled, open, broken, mu, conn, faults>>

CloseReturns(u) ==
    /\ pc[u] = "closed"
    /\ client' = client \ {conn[u]}
    /\ mu' = [mu EXCEPT ![conn[u]] = None]
    /\ failures' = [failures EXCEPT ![u] = @ + 1]
    /\ Goto(u, "idle")
    /\ UNCHANGED <<lock, cache, dialled, open, broken, conn, faults>>

\* The network drops the connection.
Drop(c) ==
    /\ Usable(c) /\ Fault
    /\ broken' = broken \cup {c}
    /\ UNCHANGED <<lock, cache, dialled, open, client, mu, pc, conn, failures>>

----------------------------------------------------------------------------
Init ==
    /\ lock = None /\ cache = 0 /\ dialled = 0
    /\ open = {} /\ broken = {} /\ client = {}
    /\ mu = [c \in Connections |-> None]
    /\ pc = [u \in Users |-> "idle"] /\ conn = [u \in Users |-> 0]
    /\ faults = 0 /\ failures = [u \in Users |-> 0]

Progress(u) ==
    \/ Open(u) \/ NewConnection(u)
    \/ session(u) \/ RunEnds(u)
    \/ TunnelToCheck(u) \/ TunnelToDial(u)
    \/ Close(u) \/ forgetConnection(u) \/ CloseReturns(u)

\* A panic ends the process.
Next ==
    /\ \A u \in Users : pc[u] # "panic"
    /\ \/ \E u \in Users :
            Progress(u) \/ DialFails(u) \/ RunRawFails(u) \/ TunnelRefused(u)
       \/ \E c \in Connections : Drop(c)

Spec == Init /\ [][Next]_vars

\* Goroutines go on and Go's mutexes are starvation free: a goroutine that
\* keeps asking for a lock that is free again and again gets it.
FairSpec == Spec /\ \A u \in Users : SF_vars(Progress(u))

----------------------------------------------------------------------------
Labels == {"idle", "dial", "opened", "run", "tunnel", "close", "forget", "closed", "panic"}

(* The type invariant; Open's lock is held by the goroutine that dials.    *)
TypeOK ==
    /\ lock \in Users \cup {None}
    /\ cache \in 0..dialled /\ dialled \in 0..(MaxFaults + 1)
    /\ (open \cup client \cup broken) \subseteq 1..dialled
    /\ mu \in [Connections -> Users \cup {None}]
    /\ pc \in [Users -> Labels] /\ conn \in [Users -> 0..dialled]
    /\ \A u \in Users :
        /\ pc[u] \notin {"idle", "dial"} => conn[u] # 0
        /\ pc[u] = "dial" => lock = u
    /\ faults \in 0..MaxFaults /\ failures \in [Users -> Nat]

(* The host never has two open connections, and the one in the map has a   *)
(* client: Open dials under the lock, and Close takes the connection out   *)
(* of the map between closing it and setting sshclient to nil, so that     *)
(* nobody is handed a connection that cannot be used any more.             *)
OneOpen == Cardinality(open) <= 1 /\ (cache # 0 => cache \in client)

(* A fault costs a task or the Kubernetes client one attempt at most,      *)
(* although everyone who shares the connection loses it: the retry that    *)
(* follows a failure finds the broken connection forgotten.  So the ten    *)
(* attempts of Task.Run survive nine faults.                               *)
OneFailurePerFault == \A u \in Tasks \cup Tunnels : failures[u] <= faults

(* A goroutine that keeps trying gets a working session in the end, unless *)
(* the process panics: no deadlock on Connector.lock and connection.mu, no *)
(* lock kept by a goroutine that met an error, and no broken connection    *)
(* stays in the cache.                                                     *)
Serves == \A u \in Tasks : []<>(pc[u] = "run" \/ \E v \in Users : pc[v] = "panic")
=============================================================================
