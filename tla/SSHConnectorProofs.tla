------------------------- MODULE SSHConnectorProofs -------------------------
(***************************************************************************)
(* For any number of goroutines and of faults: one connection to a host is *)
(* open at a time, and a fault costs nobody two attempts.                  *)
(***************************************************************************)
EXTENDS SSHConnector, FiniteSetTheorems, TLAPS

(* Who dials has found no connection in the map, so an open connection is  *)
(* the one in the map; Close has closed a connection before it takes it    *)
(* out of the map and has taken it out before it sets sshclient to nil.    *)
CacheInv ==
    /\ open \subseteq {cache}
    /\ cache # 0 => cache \in client
    /\ \A u \in Users :
        /\ pc[u] = "dial" => cache = 0
        /\ pc[u] \in {"forget", "closed"} => conn[u] \notin open
        /\ pc[u] = "closed" => conn[u] # cache

(* The connections that nobody can go on with.  A fault has made them so.  *)
Dead == {c \in 1..dialled : ~Usable(c) \/ \E u \in Users : pc[u] = "close" /\ conn[u] = c}

(* The attempts that u may still lose to faults of the past: one on the    *)
(* connection it holds, and one on that in the map, if they are dead.      *)
Pending(u) == pc[u] \notin {"idle", "dial"} /\ conn[u] \in Dead
Owed(u) ==
    IF cache \in Dead /\ Pending(u) /\ conn[u] # cache THEN 2
    ELSE IF cache \in Dead \/ Pending(u) THEN 1 ELSE 0

FaultInv == \A u \in Tasks \cup Tunnels : failures[u] + Owed(u) <= faults

Inv == TypeOK /\ CacheInv /\ FaultInv

(* The initial state.                                                      *)
LEMMA InitInv == Init => Inv
BY UsersAssumption, NoneAssumption
   DEF Init, Inv, TypeOK, CacheInv, FaultInv, Owed, Pending, Dead, Labels, Connections, Users

(* Every step keeps the types and what is said of the connection in the    *)
(* map.                                                                    *)
LEMMA CacheNext == TypeOK /\ CacheInv /\ [Next]_vars => TypeOK' /\ CacheInv'
<1> SUFFICES ASSUME TypeOK, CacheInv, [Next]_vars PROVE TypeOK' /\ CacheInv'
    OBVIOUS
<1> USE UsersAssumption, NoneAssumption DEF TypeOK, CacheInv, Labels, Connections
<1>1. ASSUME NEW u \in Users, Open(u) PROVE TypeOK' /\ CacheInv'
    <2>1. CASE cache # 0
        <3>1. TypeOK'
            <4>1. pc' \in [Users -> Labels]
                BY <1>1, <2>1 DEF Open, Goto
            <4>4. conn' \in [Users -> 0..dialled]
                <5>1. conn' = [conn EXCEPT ![u] = cache] /\ cache \in 0..dialled
                    BY <1>1, <2>1 DEF Open
                <5> QED BY <5>1
            <4>2. \A w \in Users : w # u => pc'[w] = pc[w] /\ conn'[w] = conn[w]
                BY <1>1, <2>1 DEF Open, Goto
            <4>3. pc'[u] \notin {"idle", "dial"} /\ conn'[u] # 0
                BY <1>1, <2>1 DEF Open, Goto
            <4> QED BY <1>1, <2>1, <4>1, <4>2, <4>3, <4>4 DEF Open
        <3>2. CacheInv'
            BY <1>1, <2>1 DEF Open, Goto
        <3> QED BY <3>1, <3>2
    <2>2. CASE cache = 0
        BY <1>1, <2>2 DEF Open, Goto
    <2> QED BY <2>1, <2>2
<1>2. ASSUME NEW u \in Users, NewConnection(u) PROVE TypeOK' /\ CacheInv'
    BY <1>2 DEF NewConnection, Goto
<1>3. ASSUME NEW u \in Users, DialFails(u) PROVE TypeOK' /\ CacheInv'
    BY <1>3 DEF DialFails, Goto, Fault
<1>4. ASSUME NEW u \in Users, session(u) PROVE TypeOK' /\ CacheInv'
    BY <1>4, SMTT(30) DEF session, Goto
<1>5. ASSUME NEW u \in Users, RunEnds(u) PROVE TypeOK' /\ CacheInv'
    BY <1>5 DEF RunEnds, Goto
<1>6. ASSUME NEW u \in Users, RunRawFails(u) PROVE TypeOK' /\ CacheInv'
    BY <1>6 DEF RunRawFails, Goto, Fault
<1>7. ASSUME NEW u \in Users, TunnelToCheck(u) PROVE TypeOK' /\ CacheInv'
    BY <1>7 DEF TunnelToCheck, Goto, TunnelFails
<1>8. ASSUME NEW u \in Users, TunnelToDial(u) PROVE TypeOK' /\ CacheInv'
    BY <1>8 DEF TunnelToDial, Goto, TunnelFails
<1>9. ASSUME NEW u \in Users, TunnelRefused(u) PROVE TypeOK' /\ CacheInv'
    BY <1>9 DEF TunnelRefused, Goto, Fault, TunnelFails
<1>10. ASSUME NEW u \in Users, Close(u) PROVE TypeOK' /\ CacheInv'
    <2>1. CASE conn[u] \in client
        <3>1. TypeOK'
            <4>1. pc' \in [Users -> Labels]
                BY <1>10, <2>1 DEF Close, Goto
            <4>2. mu' \in [Connections -> Users \cup {None}]
                <5>1. mu' \in {mu, [mu EXCEPT ![conn[u]] = u]}
                    BY <1>10, <2>1 DEF Close
                <5> QED BY <5>1
            <4>3. failures' \in [Users -> Nat]
                BY <1>10, <2>1 DEF Close
            <4> QED BY <1>10, <2>1, <4>1, <4>2, <4>3 DEF Close, Goto
        <3>2. CacheInv'
            BY <1>10, <2>1 DEF Close, Goto
        <3> QED BY <3>1, <3>2
    <2>2. CASE conn[u] \notin client
        <3>1. TypeOK'
            <4>1. pc' \in [Users -> Labels]
                BY <1>10, <2>2 DEF Close, Goto
            <4>2. mu' \in [Connections -> Users \cup {None}]
                <5>1. mu' \in {mu, [mu EXCEPT ![conn[u]] = u]}
                    BY <1>10, <2>2 DEF Close
                <5> QED BY <5>1
            <4>3. failures' \in [Users -> Nat]
                BY <1>10, <2>2 DEF Close
            <4> QED BY <1>10, <2>2, <4>1, <4>2, <4>3 DEF Close, Goto
        <3>2. CacheInv'
            BY <1>10, <2>2 DEF Close, Goto
        <3> QED BY <3>1, <3>2
    <2> QED BY <2>1, <2>2
<1>11. ASSUME NEW u \in Users, forgetConnection(u) PROVE TypeOK' /\ CacheInv'
    BY <1>11 DEF forgetConnection, Goto
<1>12. ASSUME NEW u \in Users, CloseReturns(u) PROVE TypeOK' /\ CacheInv'
    BY <1>12 DEF CloseReturns, Goto
<1>13. ASSUME NEW c \in Connections, Drop(c) PROVE TypeOK' /\ CacheInv'
    BY <1>13 DEF Drop, Fault, Usable
<1>14. CASE UNCHANGED vars
    BY <1>14 DEF vars
<1> QED
    BY <1>1, <1>2, <1>3, <1>4, <1>5, <1>6, <1>7, <1>8, <1>9, <1>10, <1>11, <1>12, <1>13, <1>14
    DEF Next, Progress

(* A connection that is being closed is dead.                              *)
LEMMA ClosingDead ==
    TypeOK /\ CacheInv =>
        \A u \in Users : pc[u] \in {"close", "forget", "closed"} => conn[u] \in Dead
BY DEF TypeOK, CacheInv, Dead, Usable

(* Whom a step leaves alone owes no more than before, unless a connection  *)
(* has died; then there has been a fault.                                  *)
LEMMA OthersKeep ==
    ASSUME TypeOK, FaultInv, TypeOK',
           NEW v \in Tasks \cup Tunnels, NEW c,
           pc'[v] = pc[v], conn'[v] = conn[v], failures'[v] = failures[v],
           cache' = cache \/ cache' \notin Dead',
           \/ Dead' = Dead /\ faults' \in {faults, faults + 1}
           \/ Dead' = Dead \cup {c} /\ faults' = faults + 1
    PROVE  failures'[v] + Owed(v)' <= faults'
<1>1. failures[v] \in Nat /\ faults \in Nat /\ failures[v] + Owed(v) <= faults
    BY DEF TypeOK, FaultInv, Users
<1>2. Owed(v) \in 0..2 /\ Owed(v)' \in 0..2
    BY DEF Owed
<1>3. Owed(v)' <= Owed(v) + (faults' - faults)
    BY <1>1 DEF Owed, Pending
<1> QED BY <1>1, <1>2, <1>3

(* Every step keeps the account of faults and failures: a connection dies  *)
(* only with a fault, and an attempt fails only with a dead connection or  *)
(* with a fault.                                                           *)
LEMMA FaultNext ==
    TypeOK /\ CacheInv /\ FaultInv /\ TypeOK' /\ CacheInv' /\ [Next]_vars => FaultInv'
<1> SUFFICES ASSUME TypeOK, CacheInv, FaultInv, TypeOK', CacheInv', [Next]_vars,
                    NEW v \in Tasks \cup Tunnels
             PROVE  failures'[v] + Owed(v)' <= faults'
    BY DEF FaultInv
<1>0. /\ failures[v] + Owed(v) <= faults /\ v \in Users
      /\ failures[v] \in Nat /\ faults \in Nat /\ dialled \in Nat /\ conn[v] \in 0..dialled
    BY DEF FaultInv, TypeOK, Users
<1>1. ASSUME NEW u \in Users, Open(u) PROVE failures'[v] + Owed(v)' <= faults'
    <2>1. Dead' = Dead
        BY <1>1, UsersAssumption, NoneAssumption DEF Open, Goto, Dead, Usable, TypeOK, CacheInv
    <2>2. CASE v = u
        BY <1>0, <1>1, <2>1, <2>2, ClosingDead DEF Open, Goto, Owed, Pending, TypeOK, CacheInv
    <2>3. CASE v # u
        <3>1. pc'[v] = pc[v] /\ conn'[v] = conn[v] /\ failures'[v] = failures[v]
            BY <1>0, <1>1, <2>3 DEF Open, Goto, TypeOK
        <3> QED BY <1>1, <2>1, <3>1, OthersKeep DEF Open
    <2> QED BY <2>2, <2>3
<1>2. ASSUME NEW u \in Users, NewConnection(u) PROVE failures'[v] + Owed(v)' <= faults'
    <2>1. Dead' = Dead /\ cache' \notin Dead'
        BY <1>2, UsersAssumption, NoneAssumption DEF NewConnection, Goto, Dead, Usable, TypeOK, CacheInv
    <2>2. CASE v = u
        BY <1>0, <1>2, <2>1, <2>2, ClosingDead DEF NewConnection, Goto, Owed, Pending, TypeOK, CacheInv
    <2>3. CASE v # u
        <3>1. pc'[v] = pc[v] /\ conn'[v] = conn[v] /\ failures'[v] = failures[v]
            BY <1>0, <1>2, <2>3 DEF NewConnection, Goto, TypeOK
        <3> QED BY <1>2, <2>1, <3>1, OthersKeep DEF NewConnection
    <2> QED BY <2>2, <2>3
<1>3. ASSUME NEW u \in Users, DialFails(u) PROVE failures'[v] + Owed(v)' <= faults'
    <2>1. Dead' = Dead
        BY <1>3, UsersAssumption, NoneAssumption DEF DialFails, Goto, Fault, Dead, Usable, TypeOK, CacheInv
    <2>2. CASE v = u
        BY <1>0, <1>3, <2>1, <2>2, ClosingDead DEF DialFails, Goto, Fault, Owed, Pending, TypeOK, CacheInv
    <2>3. CASE v # u
        <3>1. pc'[v] = pc[v] /\ conn'[v] = conn[v] /\ failures'[v] = failures[v]
            BY <1>0, <1>3, <2>3 DEF DialFails, Goto, Fault, TypeOK
        <3> QED BY <1>3, <2>1, <3>1, OthersKeep DEF DialFails, Fault
    <2> QED BY <2>2, <2>3
<1>4. ASSUME NEW u \in Users, session(u) PROVE failures'[v] + Owed(v)' <= faults'
    <2>1. Dead' = Dead
        BY <1>4, UsersAssumption, NoneAssumption DEF session, Goto, Dead, Usable, TypeOK, CacheInv
    <2>2. CASE v = u
        BY <1>0, <1>4, <2>1, <2>2, ClosingDead DEF session, Goto, Owed, Pending, TypeOK, CacheInv
    <2>3. CASE v # u
        <3>1. pc'[v] = pc[v] /\ conn'[v] = conn[v] /\ failures'[v] = failures[v]
            BY <1>0, <1>4, <2>3 DEF session, Goto, TypeOK
        <3> QED BY <1>4, <2>1, <3>1, OthersKeep DEF session
    <2> QED BY <2>2, <2>3
<1>5. ASSUME NEW u \in Users, RunEnds(u) PROVE failures'[v] + Owed(v)' <= faults'
    <2>1. Dead' = Dead
        BY <1>5, UsersAssumption, NoneAssumption DEF RunEnds, Goto, Dead, Usable, TypeOK, CacheInv
    <2>2. CASE v = u
        BY <1>0, <1>5, <2>1, <2>2, ClosingDead DEF RunEnds, Goto, Owed, Pending, TypeOK, CacheInv
    <2>3. CASE v # u
        <3>1. pc'[v] = pc[v] /\ conn'[v] = conn[v] /\ failures'[v] = failures[v]
            BY <1>0, <1>5, <2>3 DEF RunEnds, Goto, TypeOK
        <3> QED BY <1>5, <2>1, <3>1, OthersKeep DEF RunEnds
    <2> QED BY <2>2, <2>3
<1>6. ASSUME NEW u \in Users, RunRawFails(u) PROVE failures'[v] + Owed(v)' <= faults'
    <2>1. Dead' = Dead \cup {conn[u]}
        BY <1>6, UsersAssumption, NoneAssumption DEF RunRawFails, Goto, Fault, Dead, Usable, TypeOK, CacheInv
    <2>2. CASE v = u
        BY <1>0, <1>6, <2>1, <2>2, ClosingDead DEF RunRawFails, Goto, Fault, Owed, Pending, TypeOK, CacheInv
    <2>3. CASE v # u
        <3>1. pc'[v] = pc[v] /\ conn'[v] = conn[v] /\ failures'[v] = failures[v]
            BY <1>0, <1>6, <2>3 DEF RunRawFails, Goto, Fault, TypeOK
        <3> QED BY <1>6, <2>1, <3>1, OthersKeep DEF RunRawFails, Fault
    <2> QED BY <2>2, <2>3
<1>7. ASSUME NEW u \in Users, TunnelToCheck(u) PROVE failures'[v] + Owed(v)' <= faults'
    <2>1. Dead' = Dead
        BY <1>7, UsersAssumption, NoneAssumption DEF TunnelToCheck, Goto, TunnelFails, Dead, Usable, TypeOK, CacheInv
    <2>2. CASE v = u
        BY <1>0, <1>7, <2>1, <2>2, ClosingDead DEF TunnelToCheck, Goto, TunnelFails, Owed, Pending, TypeOK, CacheInv
    <2>3. CASE v # u
        <3>1. pc'[v] = pc[v] /\ conn'[v] = conn[v] /\ failures'[v] = failures[v]
            BY <1>0, <1>7, <2>3 DEF TunnelToCheck, Goto, TunnelFails, TypeOK
        <3> QED BY <1>7, <2>1, <3>1, OthersKeep DEF TunnelToCheck, TunnelFails
    <2> QED BY <2>2, <2>3
<1>8. ASSUME NEW u \in Users, TunnelToDial(u) PROVE failures'[v] + Owed(v)' <= faults'
    <2>1. Dead' = Dead
        BY <1>8, UsersAssumption, NoneAssumption DEF TunnelToDial, Goto, TunnelFails, Dead, Usable, TypeOK, CacheInv
    <2>2. CASE v = u
        BY <1>0, <1>8, <2>1, <2>2, ClosingDead DEF TunnelToDial, Goto, TunnelFails, Owed, Pending, TypeOK, CacheInv
    <2>3. CASE v # u
        <3>1. pc'[v] = pc[v] /\ conn'[v] = conn[v] /\ failures'[v] = failures[v]
            BY <1>0, <1>8, <2>3 DEF TunnelToDial, Goto, TunnelFails, TypeOK
        <3> QED BY <1>8, <2>1, <3>1, OthersKeep DEF TunnelToDial, TunnelFails
    <2> QED BY <2>2, <2>3
<1>9. ASSUME NEW u \in Users, TunnelRefused(u) PROVE failures'[v] + Owed(v)' <= faults'
    <2>1. Dead' = IF u \in Tunnels THEN Dead \cup {conn[u]} ELSE Dead
        BY <1>9, UsersAssumption, NoneAssumption DEF TunnelRefused, Goto, Fault, TunnelFails, Dead, Usable, TypeOK, CacheInv
    <2>2. CASE v = u
        BY <1>0, <1>9, <2>1, <2>2, ClosingDead DEF TunnelRefused, Goto, Fault, TunnelFails, Owed, Pending, TypeOK, CacheInv
    <2>3. CASE v # u
        <3>1. pc'[v] = pc[v] /\ conn'[v] = conn[v] /\ failures'[v] = failures[v]
            BY <1>0, <1>9, <2>3 DEF TunnelRefused, Goto, Fault, TunnelFails, TypeOK
        <3> QED BY <1>9, <2>1, <3>1, OthersKeep DEF TunnelRefused, Fault, TunnelFails
    <2> QED BY <2>2, <2>3
<1>10. ASSUME NEW u \in Users, Close(u) PROVE failures'[v] + Owed(v)' <= faults'
    <2>1. Dead' = Dead
        BY <1>10, UsersAssumption, NoneAssumption DEF Close, Goto, Dead, Usable, TypeOK, CacheInv
    <2>2. CASE v = u
        BY <1>0, <1>10, <2>1, <2>2, ClosingDead DEF Close, Goto, Owed, Pending, TypeOK, CacheInv
    <2>3. CASE v # u
        <3>1. pc'[v] = pc[v] /\ conn'[v] = conn[v] /\ failures'[v] = failures[v]
            BY <1>0, <1>10, <2>3 DEF Close, Goto, TypeOK
        <3> QED BY <1>10, <2>1, <3>1, OthersKeep DEF Close
    <2> QED BY <2>2, <2>3
<1>11. ASSUME NEW u \in Users, forgetConnection(u) PROVE failures'[v] + Owed(v)' <= faults'
    <2>1. Dead' = Dead /\ 0 \notin Dead
        BY <1>11, UsersAssumption, NoneAssumption DEF forgetConnection, Goto, Dead, Usable, TypeOK, CacheInv
    <2>2. CASE v = u
        BY <1>0, <1>11, <2>1, <2>2, ClosingDead DEF forgetConnection, Goto, Owed, Pending, TypeOK, CacheInv
    <2>3. CASE v # u
        <3>1. pc'[v] = pc[v] /\ conn'[v] = conn[v] /\ failures'[v] = failures[v]
            BY <1>0, <1>11, <2>3 DEF forgetConnection, Goto, TypeOK
        <3> QED BY <1>11, <2>1, <3>1, OthersKeep DEF forgetConnection
    <2> QED BY <2>2, <2>3
<1>12. ASSUME NEW u \in Users, CloseReturns(u) PROVE failures'[v] + Owed(v)' <= faults'
    <2>1. Dead' = Dead
        BY <1>12, UsersAssumption, NoneAssumption DEF CloseReturns, Goto, Dead, Usable, TypeOK, CacheInv
    <2>2. CASE v = u
        BY <1>0, <1>12, <2>1, <2>2, ClosingDead DEF CloseReturns, Goto, Owed, Pending, TypeOK, CacheInv
    <2>3. CASE v # u
        <3>1. pc'[v] = pc[v] /\ conn'[v] = conn[v] /\ failures'[v] = failures[v]
            BY <1>0, <1>12, <2>3 DEF CloseReturns, Goto, TypeOK
        <3> QED BY <1>12, <2>1, <3>1, OthersKeep DEF CloseReturns
    <2> QED BY <2>2, <2>3
<1>13. ASSUME NEW c \in Connections, Drop(c) PROVE failures'[v] + Owed(v)' <= faults'
    <2>1. Dead' = Dead \cup {c}
        BY <1>13 DEF Drop, Fault, Usable, Dead, TypeOK
    <2> QED BY <1>0, <1>13, <2>1, OthersKeep DEF Drop, Fault
<1>14. CASE UNCHANGED vars
    BY <1>0, <1>14 DEF vars, Owed, Pending, Dead, Usable
<1> QED
    BY <1>1, <1>2, <1>3, <1>4, <1>5, <1>6, <1>7, <1>8, <1>9, <1>10, <1>11, <1>12, <1>13, <1>14
    DEF Next, Progress

(* Inv is an invariant.                                                    *)
LEMMA Invariant == Spec => []Inv
<1>1. Inv /\ [Next]_vars => Inv'
    BY CacheNext, FaultNext DEF Inv
<1> QED BY InitInv, <1>1, PTL DEF Spec

(* For any number of goroutines that run commands or tunnel, and any       *)
(* faults, the host never has two open connections, and the connection in  *)
(* Connector.connections has a client.                                     *)
THEOREM OneConnection == Spec => []OneOpen
<1>1. Inv => OneOpen
    <2> SUFFICES ASSUME Inv PROVE OneOpen
        OBVIOUS
    <2>1. IsFiniteSet({cache}) /\ Cardinality({cache}) = 1
        BY FS_Singleton
    <2>2. Cardinality(open) <= Cardinality({cache})
        BY <2>1, FS_Subset DEF Inv, CacheInv
    <2> QED BY <2>1, <2>2 DEF Inv, CacheInv, OneOpen
<1> QED BY Invariant, <1>1, PTL

(* For any number of goroutines and of faults, a task or the Kubernetes    *)
(* client fails no more often than something went wrong, however many      *)
(* share the connection that was closed.                                   *)
THEOREM FailuresBounded == Spec => []OneFailurePerFault
<1>1. Inv => OneFailurePerFault
    BY UsersAssumption DEF Inv, TypeOK, FaultInv, OneFailurePerFault, Owed, Pending, Users
<1> QED BY Invariant, <1>1, PTL
=============================================================================
