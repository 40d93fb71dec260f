------------------------ MODULE ClusterRepairProofs ------------------------
(***************************************************************************)
(* For any number of machines, hosts and failures: neither the advice of   *)
(* SafeToDeleteHosts nor the removals of repairClusterIfNeeded cost etcd   *)
(* its quorum, if advice is ignored while etcd has members outside the     *)
(* manifest.  What an apply that succeeds leaves: no member outside the    *)
(* manifest and, if failures come one at a time, no host that is no member.*)
(***************************************************************************)
EXTENDS ClusterRepair, FiniteSetTheorems, TLAPS

(* The hosts of the manifest change between the commands only.             *)
ProcessInv == IF pc = "idle" THEN toJoin = {} ELSE leader \in hosts

(* Every member has a Node, so that SafeToDeleteHosts, which counts hosts  *)
(* with a Node, counts all members.                                        *)
MembersInv ==
    /\ ring \subseteq nodes
    /\ pc = "remove" => ring \subseteq members \cup toDelete

(* The quorum is kept even when all of the advice is followed.  While      *)
(* kubeone runs, the advice holds every dead member, and so every member   *)
(* that repairClusterIfNeeded is about to remove.                          *)
AdviceInv ==
    /\ advice \subseteq initialized
    /\ ring # {} => Quorum(ring, etcdUp \ advice)
    /\ pc = "init" => advice = {}
    /\ pc # "idle" /\ advice # {} => ring \subseteq hosts /\ ring \ etcdUp \subseteq advice
    /\ pc = "remove" /\ advice # {} => toDelete \subseteq advice

Inv == TypeOK /\ ProcessInv /\ MembersInv /\ AdviceInv

(* Sets of machines are finite.                                            *)
LEMMA Finite ==
    ASSUME NEW S \in SUBSET Machines
    PROVE  IsFiniteSet(S) /\ Cardinality(S) \in Nat
BY MachinesAssumption, FS_Subset, FS_CardinalityType

(* A quorum of r survives when more run, when a member that runs joins,    *)
(* and when a member that does not run goes.                               *)
LEMMA QuorumGrows ==
    ASSUME NEW r \in SUBSET Machines, NEW up, NEW more, up \cap r \subseteq more, Quorum(r, up)
    PROVE  Quorum(r, more)
<1>1. r \cap up \in SUBSET (r \cap more) /\ r \cap more \in SUBSET Machines
    OBVIOUS
<1>2. Cardinality(r \cap up) <= Cardinality(r \cap more)
    BY <1>1, Finite, FS_Subset
<1>3. Cardinality(r) \in Nat /\ Cardinality(r \cap up) \in Nat /\ Cardinality(r \cap more) \in Nat
    BY <1>1, Finite
<1> QED BY <1>2, <1>3 DEF Quorum

LEMMA QuorumJoins ==
    ASSUME NEW r \in SUBSET Machines, NEW up, NEW m \in Machines \ r,
           r # {} => Quorum(r, up)
    PROVE  Quorum(r \cup {m}, up \cup {m})
<1>1. (r \cup {m}) \cap (up \cup {m}) = (r \cap up) \cup {m} /\ r \cap up \in SUBSET Machines
    OBVIOUS
<1>2. Cardinality(r \cup {m}) = Cardinality(r) + 1
    BY Finite, FS_AddElement
<1>3. Cardinality((r \cup {m}) \cap (up \cup {m})) = Cardinality(r \cap up) + 1
    <2>1. m \notin r \cap up
        OBVIOUS
    <2>2. Cardinality((r \cap up) \cup {m}) = Cardinality(r \cap up) + 1
        BY <1>1, <2>1, Finite, FS_AddElement
    <2> QED BY <1>1, <2>2
<1>4. Cardinality(r) \in Nat /\ Cardinality(r \cap up) \in Nat
    BY <1>1, Finite
<1>5. 2 * (Cardinality(r \cap up) + 1) > Cardinality(r) + 1
    <2>1. CASE r = {}
        BY <1>4, <2>1, FS_EmptySet
    <2>2. CASE r # {}
        BY <1>4, <2>2 DEF Quorum
    <2> QED BY <2>1, <2>2
<1> QED BY <1>2, <1>3, <1>5 DEF Quorum

LEMMA QuorumLeaves ==
    ASSUME NEW r \in SUBSET Machines, NEW up, NEW m, m \notin up, Quorum(r, up)
    PROVE  Quorum(r \ {m}, up)
<1>1. (r \ {m}) \cap up = r \cap up /\ r \cap up \in SUBSET Machines /\ r \ {m} \in SUBSET Machines
    OBVIOUS
<1>2. Cardinality(r \ {m}) <= Cardinality(r)
    BY Finite, FS_Subset
<1>3. Cardinality(r) \in Nat /\ Cardinality(r \ {m}) \in Nat /\ Cardinality(r \cap up) \in Nat
    BY <1>1, Finite
<1> QED BY <1>1, <1>2, <1>3 DEF Quorum

(* What SafeToDeleteHosts may answer keeps the quorum, if every member is  *)
(* a host with a Node.                                                     *)
LEMMA AdviceSafe ==
    ASSUME TypeOK, ring \subseteq hosts \cap nodes, Quorum(ring, etcdUp),
           NEW a \in SafeToDeleteHosts
    PROVE  /\ a \subseteq hosts \cap nodes
           /\ ring \ etcdUp \subseteq a
           /\ Quorum(ring, etcdUp \ a)
<1> DEFINE inCluster == hosts \cap nodes
           dead == inCluster \ EtcdHealthy
           candidates == (inCluster \cap EtcdHealthy) \ APIHealthy
           up == ring \cap etcdUp
           tolerance == EtcdToleranceRemain(Cardinality(up)) - Cardinality(dead)
<1>1. inCluster \cap EtcdHealthy = up /\ dead = inCluster \ up /\ candidates \subseteq up
    BY DEF EtcdHealthy
<1>2. PICK c \in SUBSET candidates :
        /\ a = dead \cup c
        /\ Cardinality(c) = IF tolerance <= 0 THEN 0
                            ELSE IF tolerance >= Cardinality(candidates)
                                 THEN Cardinality(candidates) ELSE tolerance
    BY <1>1 DEF SafeToDeleteHosts
<1> HIDE DEF candidates, tolerance
<1>3. /\ a \subseteq inCluster /\ ring \ etcdUp \subseteq dead
      /\ ring \cap (etcdUp \ a) = up \ c /\ ring = up \cup (ring \ etcdUp)
    BY <1>1, <1>2 DEF EtcdHealthy
<1>4. /\ {ring, up, dead, c, candidates, ring \ etcdUp} \subseteq SUBSET Machines
      /\ c \subseteq up
    BY <1>1 DEF TypeOK
<1> DEFINE n(S) == Cardinality(S)
<1>5. /\ n(ring) \in Nat /\ n(up) \in Nat /\ n(dead) \in Nat /\ n(c) \in Nat
      /\ n(candidates) \in Nat /\ n(ring \ etcdUp) \in Nat /\ n(up \ c) \in Nat
    BY <1>4, Finite
<1>6. n(up \ c) = n(up) - n(c)
    <2>1. IsFiniteSet(up) /\ IsFiniteSet(c) /\ up \cap c = c
        BY <1>4, Finite
    <2>2. n(up \ c) = n(up) - n(up \cap c)
        BY <2>1, FS_Difference
    <2> QED BY <2>1, <2>2
<1>7. n(ring) <= n(up) + n(dead)
    <2>1. n(ring \ etcdUp) <= n(dead)
        BY <1>3, <1>4, Finite, FS_Subset
    <2>2. IsFiniteSet(ring) /\ IsFiniteSet(up) /\ ring \cap up = up /\ ring \ up = ring \ etcdUp
        BY <1>4, Finite
    <2>3. n(ring \ up) = n(ring) - n(ring \cap up)
        BY <2>2, FS_Difference
    <2>4. n(ring \ etcdUp) = n(ring) - n(up)
        BY <2>2, <2>3
    <2> HIDE DEF n
    <2> QED BY <1>5, <2>1, <2>4
<1>8. 2 * n(up \ c) > n(ring)
    <2> HIDE DEF up, dead, n
    <2>1. tolerance = n(up) - ((n(up) \div 2) + 1) - n(dead) /\ tolerance \in Int
        BY <1>5 DEF tolerance, EtcdToleranceRemain, n
    <2>2. CASE tolerance <= 0
        BY <1>2, <1>5, <1>6, <2>2 DEF Quorum, n, up
    <2>3. CASE tolerance > 0
        <3>1. n(c) <= tolerance
            BY <1>2, <1>5, <2>1, <2>3 DEF n
        <3>2. 2 * (n(up) \div 2) >= n(up) - 1 /\ n(up) \div 2 \in Nat
            BY <1>5
        <3> QED BY <1>5, <1>6, <1>7, <2>1, <3>1, <3>2
    <2> QED BY <2>1, <2>2, <2>3
<1>9. Quorum(ring, etcdUp \ a)
    <2>1. Cardinality(ring \cap (etcdUp \ a)) = n(up \ c)
        BY <1>3
    <2> HIDE DEF up
    <2> QED BY <1>8, <2>1 DEF Quorum
<1> QED BY <1>2, <1>3, <1>9

(* The etcd members and what is known of them when kubeone stops.          *)
LEMMA InitInv == Init => Inv
BY MachinesAssumption DEF Init, Inv, TypeOK, ProcessInv, MembersInv, AdviceInv

(* Types.                                                                  *)
LEMMA TypeNext == TypeOK /\ ProcessInv /\ [Next]_vars => TypeOK' /\ ProcessInv'
<1> SUFFICES ASSUME TypeOK, ProcessInv, [Next]_vars PROVE TypeOK' /\ ProcessInv'
    OBVIOUS
<1> USE MachinesAssumption DEF TypeOK, ProcessInv, machines, process
<1>1. CASE runApply /\ UNCHANGED world
    <2>1. PICK l \in hosts : leader' = l /\ (advice' = {} \/ advice' \in SafeToDeleteHosts)
        BY <1>1 DEF runApply
    <2>2. advice' \subseteq Machines
        BY <2>1 DEF SafeToDeleteHosts
    <2>3. toDelete' \subseteq Machines /\ members' \subseteq Machines /\ toJoin' \subseteq hosts
        BY <1>1 DEF runApply, Return
    <2>4. /\ pc' \in {"idle", "init", "repair"} /\ outcome' \in {"none", "ok", "error"}
          /\ pc' = "idle" => toJoin' = {}
        BY <1>1 DEF runApply, Return
    <2> QED BY <1>1, <2>1, <2>2, <2>3, <2>4 DEF runApply
<1>2. ASSUME NEW m \in Machines, NEW new \in Machines, Replace(m, new), UNCHANGED world PROVE TypeOK' /\ ProcessInv'
    BY <1>2 DEF Replace
<1>3. CASE initKubernetesLeader /\ UNCHANGED world
    BY <1>3 DEF initKubernetesLeader, Joined
<1>4. CASE repairClusterIfNeeded /\ UNCHANGED world
    BY <1>4 DEF repairClusterIfNeeded, MembersToDelete
<1>5. ASSUME NEW m \in Machines, MemberRemove(m), UNCHANGED world PROVE TypeOK' /\ ProcessInv'
    BY <1>5 DEF MemberRemove
<1>6. ASSUME NEW m \in Machines, joinControlplaneNode(m), UNCHANGED world PROVE TypeOK' /\ ProcessInv'
    BY <1>6 DEF joinControlplaneNode, Joined
<1>7. CASE (DeleteNodes \/ EndInstall \/ Fail) /\ UNCHANGED world
    BY <1>7 DEF DeleteNodes, EndInstall, Fail, Return
<1>8. ASSUME NEW m \in Machines, BreakEtcd(m) \/ BreakAPIServer(m), UNCHANGED world PROVE TypeOK' /\ ProcessInv'
    BY <1>8 DEF BreakEtcd, BreakAPIServer
<1>9. ASSUME NEW m \in Machines, Recover(m), UNCHANGED world PROVE TypeOK' /\ ProcessInv'
    BY <1>9 DEF Recover
<1>10. ASSUME NEW m \in Machines, ScaleDown(m), UNCHANGED world PROVE TypeOK' /\ ProcessInv'
    <2>1. hosts' # {}
        <3>1. Cardinality({m}) = 1
            BY FS_Singleton
        <3>2. hosts # {m}
            BY <1>10, <3>1 DEF ScaleDown
        <3> QED BY <1>10, <3>2 DEF ScaleDown
    <2> QED BY <1>10, <2>1 DEF ScaleDown
<1>11. CASE UNCHANGED vars
    BY <1>11 DEF vars
<1> QED BY <1>1, <1>2, <1>3, <1>4, <1>5, <1>6, <1>7, <1>8, <1>9, <1>10, <1>11 DEF Next, Operator, Kubeone

(* Members keep their Nodes.                                               *)
LEMMA MembersNext == TypeOK /\ MembersInv /\ [Next]_vars => MembersInv'
<1> SUFFICES ASSUME TypeOK, MembersInv, [Next]_vars PROVE MembersInv'
    OBVIOUS
<1> USE DEF MembersInv, machines, process
<1>1. CASE runApply
    BY <1>1 DEF runApply, Return
<1>2. CASE initKubernetesLeader \/ repairClusterIfNeeded
    BY <1>2 DEF initKubernetesLeader, Joined, repairClusterIfNeeded
<1>3. ASSUME NEW m \in Machines, MemberRemove(m) \/ joinControlplaneNode(m) PROVE MembersInv'
    BY <1>3 DEF MemberRemove, joinControlplaneNode, Joined
<1>4. CASE DeleteNodes \/ EndInstall \/ Fail
    BY <1>4 DEF DeleteNodes, EndInstall, Fail, Return
<1>5. ASSUME NEW m \in Machines, NEW new \in Machines,
             BreakEtcd(m) \/ BreakAPIServer(m) \/ Recover(m) \/ ScaleDown(m) \/ Replace(m, new)
      PROVE  MembersInv'
    BY <1>5 DEF BreakEtcd, BreakAPIServer, Recover, ScaleDown, Replace
<1>6. CASE UNCHANGED vars
    BY <1>6 DEF vars
<1> QED BY <1>1, <1>2, <1>3, <1>4, <1>5, <1>6 DEF Next, Operator, Kubeone

(* Every step keeps the quorum that is left when the advice is followed.   *)
LEMMA AdviceNext ==
    ASSUME ChecksRing
    PROVE  Inv /\ [Next]_vars => AdviceInv'
<1> SUFFICES ASSUME Inv, [Next]_vars PROVE AdviceInv'
    OBVIOUS
<1> USE DEF Inv, machines, process
<1>0. /\ ring \in SUBSET Machines /\ advice \subseteq initialized
      /\ ring # {} => Quorum(ring, etcdUp \ advice) /\ Quorum(ring, etcdUp)
    BY QuorumGrows DEF TypeOK, AdviceInv
<1>1. CASE runApply
    <2>1. UNCHANGED <<initialized, etcdUp, ring, hosts>> /\ pc' # "remove" /\ (pc' = "init" => advice' = {})
        BY <1>1 DEF runApply, Return
    <2>2. CASE advice' = {}
        BY <1>0, <2>1, <2>2 DEF AdviceInv
    <2>3. CASE advice' # {}
        <3>1. advice' \in SafeToDeleteHosts /\ ring \subseteq hosts /\ APIHealthy # {}
            BY <1>1, <2>3 DEF runApply
        <3>2. ring # {}
            BY <3>1 DEF APIHealthy, Serving
        <3>3. /\ advice' \subseteq hosts \cap nodes /\ ring \ etcdUp \subseteq advice'
              /\ Quorum(ring, etcdUp \ advice')
            BY <1>0, <3>1, <3>2, AdviceSafe DEF MembersInv
        <3> QED BY <2>1, <2>3, <3>1, <3>3 DEF AdviceInv, TypeOK
    <2> QED BY <2>2, <2>3
<1>2. ASSUME NEW m \in Machines, NEW new \in Machines, Replace(m, new) PROVE AdviceInv'
    <2>1. etcdUp' \ advice' = etcdUp \ advice \/ m \notin advice
        BY <1>2 DEF Replace
    <2> QED BY <1>0, <1>2, <2>1 DEF Replace, AdviceInv
<1>3. ASSUME NEW m \in hosts \ initialized, Joined(m), pc' # "remove", pc' # "init", pc # "idle",
             UNCHANGED <<advice, hosts>>, pc = "init" => advice = {}
      PROVE  AdviceInv'
    <2>1. m \in Machines \ ring /\ m \notin advice
        BY <1>3, <1>0 DEF TypeOK
    <2>2. (etcdUp \ advice) \cup {m} = etcdUp' \ advice'
        BY <1>3, <2>1 DEF Joined
    <2>3. Quorum(ring', etcdUp' \ advice')
        BY <1>0, <1>3, <2>1, <2>2, QuorumJoins DEF Joined
    <2> QED BY <1>0, <1>3, <2>3 DEF Joined, AdviceInv
<1>4. CASE initKubernetesLeader
    BY <1>3, <1>4 DEF initKubernetesLeader, AdviceInv, ProcessInv
<1>5. ASSUME NEW m \in Machines, joinControlplaneNode(m) PROVE AdviceInv'
    BY <1>3, <1>5 DEF joinControlplaneNode, AdviceInv, TypeOK
<1>6. CASE repairClusterIfNeeded
    BY <1>0, <1>6 DEF repairClusterIfNeeded, MembersToDelete, AdviceInv
<1>7. ASSUME NEW m \in Machines, MemberRemove(m) PROVE AdviceInv'
    <2>1. /\ pc = "remove" /\ m \in toDelete /\ ring' = ring \ {m} /\ etcdUp' = etcdUp \ {m}
          /\ toDelete' = toDelete \ {m}
          /\ m \in etcdUp => Quorum(ring \ {m}, etcdUp \ {m})
          /\ UNCHANGED <<hosts, initialized, advice, pc>>
        BY <1>7 DEF MemberRemove
    <2>2. CASE m \notin etcdUp \ advice
        <3>1. etcdUp' \ advice = etcdUp \ advice
            BY <2>1, <2>2
        <3>2. ring # {} => Quorum(ring \ {m}, etcdUp \ advice)
            BY <1>0, <2>2, QuorumLeaves
        <3>3. ring' # {} => Quorum(ring', etcdUp' \ advice')
            BY <2>1, <3>1, <3>2
        <3> QED BY <2>1, <3>3 DEF AdviceInv
    <2>3. CASE m \in etcdUp \ advice
        <3>1. advice = {}
            BY <2>1, <2>3 DEF AdviceInv
        <3>2. etcdUp' \ advice' = etcdUp \ {m}
            BY <2>1, <3>1
        <3>3. Quorum(ring', etcdUp' \ advice')
            BY <2>1, <2>3, <3>2
        <3> QED BY <2>1, <3>1, <3>3 DEF AdviceInv
    <2> QED BY <2>2, <2>3
<1>8. CASE DeleteNodes \/ EndInstall \/ Fail
    BY <1>8 DEF DeleteNodes, EndInstall, Fail, Return, AdviceInv
<1>9. ASSUME NEW m \in Machines, BreakEtcd(m) \/ BreakAPIServer(m) \/ ScaleDown(m) PROVE AdviceInv'
    <2>1. advice' = {} /\ UNCHANGED <<ring, initialized, pc>> /\ (ring # {} => Quorum(ring, etcdUp'))
        BY <1>0, <1>9 DEF BreakEtcd, BreakAPIServer, ScaleDown, Tolerable
    <2> QED BY <2>1, <1>9 DEF AdviceInv
<1>10. ASSUME NEW m \in Machines, Recover(m) PROVE AdviceInv'
    <2>1. etcdUp \subseteq etcdUp' /\ UNCHANGED <<ring, hosts, initialized, advice, pc, toDelete>>
        BY <1>10 DEF Recover
    <2>2. ring # {} => Quorum(ring, etcdUp' \ advice)
        BY <1>0, <2>1, QuorumGrows
    <2> QED BY <2>1, <2>2 DEF AdviceInv
<1>11. CASE UNCHANGED vars
    BY <1>11 DEF vars, AdviceInv
<1> QED BY <1>1, <1>2, <1>4, <1>5, <1>6, <1>7, <1>8, <1>9, <1>10, <1>11 DEF Next, Operator, Kubeone

(* The etcd quorum survives for any number of machines and failures, if    *)
(* the operator ignores advice while etcd has members outside the          *)
(* manifest: neither what SafeToDeleteHosts recommends nor the removals of *)
(* repairClusterIfNeeded, interrupted anywhere, cost it.                   *)
THEOREM QuorumSafe ==
    ASSUME ChecksRing
    PROVE  Spec => []QuorumKept
<1>1. Inv /\ [Next]_vars => Inv'
    BY TypeNext, MembersNext, AdviceNext DEF Inv
<1>2. Inv => QuorumKept
    BY QuorumGrows DEF Inv, TypeOK, AdviceInv, QuorumKept
<1> QED BY InitInv, <1>1, <1>2, PTL DEF Spec

(* What is listed for removal was dead or no host when it was listed, and  *)
(* everything else is a host.                                              *)
RemovalInv ==
    /\ pc = "remove" => ring \subseteq hosts \cup toDelete
    /\ pc = "remove" /\ "recover" \notin world => toDelete \cap etcdUp \cap hosts = {}
    /\ pc = "join" => ring \subseteq hosts

LEMMA RemovalNext == TypeOK /\ RemovalInv /\ [Next]_vars => RemovalInv'
<1> SUFFICES ASSUME TypeOK, RemovalInv, [Next]_vars PROVE RemovalInv'
    OBVIOUS
<1> USE DEF RemovalInv, machines, process
<1>1. CASE runApply
    BY <1>1 DEF runApply, Return
<1>2. CASE initKubernetesLeader
    BY <1>2 DEF initKubernetesLeader
<1>3. CASE repairClusterIfNeeded
    BY <1>3 DEF repairClusterIfNeeded, MembersToDelete
<1>4. ASSUME NEW m \in Machines, MemberRemove(m), UNCHANGED world PROVE RemovalInv'
    BY <1>4 DEF MemberRemove
<1>5. ASSUME NEW m \in Machines, joinControlplaneNode(m) PROVE RemovalInv'
    BY <1>5 DEF joinControlplaneNode, Joined, TypeOK
<1>6. CASE DeleteNodes \/ EndInstall \/ Fail
    BY <1>6 DEF DeleteNodes, EndInstall, Fail, Return
<1>7. ASSUME NEW m \in Machines, NEW new \in Machines, UNCHANGED world,
             BreakEtcd(m) \/ BreakAPIServer(m) \/ Recover(m) \/ ScaleDown(m) \/ Replace(m, new)
      PROVE  RemovalInv'
    BY <1>7 DEF BreakEtcd, BreakAPIServer, Recover, ScaleDown, Replace
<1>8. CASE UNCHANGED vars
    BY <1>8 DEF vars
<1> QED BY <1>1, <1>2, <1>3, <1>4, <1>5, <1>6, <1>7, <1>8 DEF Next, Operator, Kubeone

LEMMA RemovalInvariant == Spec => [](TypeOK /\ ProcessInv /\ RemovalInv)
<1>1. Init => TypeOK /\ ProcessInv /\ RemovalInv
    BY InitInv DEF Inv, Init, RemovalInv
<1> QED BY <1>1, TypeNext, RemovalNext, PTL DEF Spec

(* A member that is removed is dead or no host of the manifest, unless it  *)
(* came back after repairClusterIfNeeded had looked at it.                 *)
THEOREM RemovalsJustified == Spec => RemovedAreDead
<1>1. ASSUME TypeOK, RemovalInv, [Next]_vars, NEW m \in ring \ ring', m \in etcdUp, m \in hosts
      PROVE  "recover" \in world
    <2>1. PICK x \in Machines : MemberRemove(x)
        BY <1>1 DEF Next, Operator, Kubeone, machines, process, vars, runApply, initKubernetesLeader, Joined,
                    repairClusterIfNeeded, joinControlplaneNode, DeleteNodes, EndInstall, Fail,
                    BreakEtcd, BreakAPIServer, Recover, ScaleDown, Replace
    <2> QED BY <1>1, <2>1 DEF MemberRemove, RemovalInv
<1>2. TypeOK /\ RemovalInv /\ [Next]_vars
        => [\A m \in ring \ ring' : m \in etcdUp /\ m \in hosts => "recover" \in world]_vars
    BY <1>1
<1> QED BY <1>2, RemovalInvariant, PTL DEF Spec, RemovedAreDead

(* When kubeone apply succeeds, etcd has no member outside the manifest,   *)
(* for any number of hosts and wherever earlier runs were interrupted.     *)
THEOREM GhostsRemoved == Spec => NoGhosts
<1>1. ASSUME TypeOK, RemovalInv, [Next]_vars, outcome # "ok", outcome' = "ok"
      PROVE  ring' \subseteq hosts'
    <2>1. CASE runApply
        <3>1. hosts \subseteq ring /\ ~(Cardinality(ring) > Cardinality(hosts)) /\ UNCHANGED <<ring, hosts>>
            BY <1>1, <2>1 DEF runApply, Return, Healthy, APIHealthy, Serving, machines
        <3>2. IsFiniteSet(ring) /\ Cardinality(ring) \in Nat /\ Cardinality(hosts) \in Nat
            BY <1>1, Finite DEF TypeOK
        <3>3. Cardinality(hosts) <= Cardinality(ring) /\ (Cardinality(ring) = Cardinality(hosts) => ring = hosts)
            BY <3>1, <3>2, FS_Subset
        <3> QED BY <3>1, <3>2, <3>3
    <2>2. CASE EndInstall
        BY <1>1, <2>2 DEF EndInstall, machines, RemovalInv
    <2> QED BY <1>1, <2>1, <2>2
        DEF Next, Operator, Kubeone, machines, process, vars, initKubernetesLeader, repairClusterIfNeeded,
            MemberRemove, joinControlplaneNode, DeleteNodes, Fail, Return,
            BreakEtcd, BreakAPIServer, Recover, ScaleDown, Replace
<1>2. TypeOK /\ RemovalInv /\ [Next]_vars
        => [outcome # "ok" /\ outcome' = "ok" => ring' \subseteq hosts']_vars
    BY <1>1
<1> QED BY <1>2, RemovalInvariant, PTL DEF Spec, NoGhosts

(* Where failures come one at a time, one host at most is weak: it runs no *)
(* etcd or no API server, or it is to be deleted.                          *)
Weak == ((hosts \cap initialized) \ (etcdUp \cap apiUp)) \cup (advice \cap hosts)

(* A host that has been initialized is a member.  One whose etcd is dead   *)
(* keeps apply from repairing until it is replaced, so that no host is     *)
(* removed; and hosts that are not yet members are still to join.          *)
HostsInv ==
    /\ hosts \cap initialized \subseteq ring
    /\ \A x, y \in Weak : x = y
    /\ (hosts \cap ring) \ etcdUp # {} => pc = "idle" /\ hosts \subseteq nodes
    /\ pc = "remove" => toDelete \cap hosts = {}
    /\ pc = "init" => hosts \subseteq toJoin \cup {leader}
    /\ pc \in {"repair", "remove", "join"} => hosts \subseteq ring \cup toJoin

(* The advice names weak hosts only: where an API server answers, etcd has *)
(* its quorum, and a healthy member with an API server is not advised.     *)
LEMMA AdviceWeak ==
    ASSUME TypeOK, HostsInv, APIHealthy # {}, NEW a \in SafeToDeleteHosts
    PROVE  a \subseteq (hosts \cap initialized) \ (etcdUp \cap apiUp)
<1>1. APIHealthy = ring \cap etcdUp \cap apiUp
    BY DEF APIHealthy, Serving
<1>2. a \subseteq (hosts \cap nodes) \ APIHealthy
    BY <1>1 DEF SafeToDeleteHosts, EtcdHealthy
<1> QED BY <1>1, <1>2 DEF TypeOK, HostsInv

(* Every step keeps the hosts members, if failures come one at a time.     *)
LEMMA HostsNext ==
    ASSUME OneAtATime
    PROVE  TypeOK /\ ProcessInv /\ HostsInv /\ [Next]_vars => HostsInv'
<1> SUFFICES ASSUME TypeOK, ProcessInv, HostsInv, [Next]_vars PROVE HostsInv'
    OBVIOUS
<1> USE DEF machines, process
<1>0. Healthy => hosts \subseteq nodes \cap ring \cap etcdUp \cap apiUp
    BY DEF Healthy, APIHealthy, Serving
<1>1. CASE runApply
    <2>1. UNCHANGED <<hosts, initialized, ring, etcdUp, apiUp, nodes>> /\ pc = "idle" /\ toJoin = {}
        BY <1>1 DEF runApply, ProcessInv
    <2>2. \A x, y \in Weak' : x = y
        <3>1. advice' = {} \/ (APIHealthy # {} /\ advice' \in SafeToDeleteHosts)
            BY <1>1 DEF runApply
        <3>2. Weak' \subseteq Weak
            BY <2>1, <3>1, AdviceWeak DEF Weak
        <3> QED BY <3>2 DEF HostsInv
    <2>3. PICK l \in hosts :
            \/ ~IsProvisioned /\ pc' = "init" /\ leader' = l /\ toJoin' = hosts \ {l}
            \/ Healthy /\ pc' = "repair" /\ UNCHANGED toJoin
            \/ ~(hosts \subseteq nodes) /\ l \in APIHealthy /\ pc' = "repair" /\ toJoin' = hosts \ {l}
            \/ pc' = "idle"
        BY <1>1 DEF runApply, Return
    <2>4. (hosts \cap ring) \ etcdUp # {} => pc' = "idle" /\ hosts \subseteq nodes
        BY <1>0, <2>3 DEF HostsInv, IsProvisioned, TypeOK
    <2>5. /\ pc' \in {"idle", "init", "repair"}
          /\ pc' = "init" => hosts \subseteq toJoin' \cup {leader'}
          /\ pc' = "repair" => hosts \subseteq ring \cup toJoin'
        BY <1>0, <2>3 DEF APIHealthy, Serving
    <2> QED BY <2>1, <2>2, <2>4, <2>5 DEF HostsInv
<1>2. ASSUME NEW m \in Machines, NEW new \in Machines, Replace(m, new) PROVE HostsInv'
    <2>1. /\ pc = "idle" /\ m \in advice \cap hosts /\ new \notin initialized /\ new # m
          /\ hosts' = (hosts \ {m}) \cup {new} /\ advice' = advice \ {m}
          /\ etcdUp' = etcdUp \ {m} /\ apiUp' = apiUp \ {m}
          /\ UNCHANGED <<initialized, ring, nodes, pc>>
        BY <1>2 DEF Replace, TypeOK
    <2>2. /\ Weak = {m} /\ (hosts \cap ring) \ etcdUp \subseteq {m}
        BY <2>1 DEF HostsInv, Weak, TypeOK
    <2>3. (hosts' \cap ring') \ etcdUp' = {}
        BY <2>1, <2>2 DEF TypeOK
    <2>4. \A x, y \in Weak' : x = y
        <3>1. Weak' \subseteq {new}
            BY <2>1, <2>2 DEF Weak
        <3> QED BY <3>1
    <2>5. hosts' \cap initialized' \subseteq ring'
        BY <2>1 DEF HostsInv
    <2> QED BY <2>1, <2>3, <2>4, <2>5 DEF HostsInv
<1>3. ASSUME NEW m \in hosts \ initialized, Joined(m), pc # "idle", UNCHANGED <<advice, hosts>>
      PROVE  /\ hosts' \cap initialized' \subseteq ring'
             /\ (hosts' \cap ring') \ etcdUp' = {}
             /\ \A x, y \in Weak' : x = y
    <2>1. Weak' \subseteq Weak
        BY <1>3 DEF Joined, Weak
    <2> QED BY <1>3, <2>1 DEF Joined, HostsInv
<1>4. CASE initKubernetesLeader
    <2>1. CASE leader \in initialized
        BY <1>4, <2>1 DEF initKubernetesLeader, HostsInv, Weak, ProcessInv
    <2>2. CASE leader \notin initialized
        BY <1>3, <1>4, <2>2 DEF initKubernetesLeader, HostsInv, ProcessInv, Joined
    <2> QED BY <2>1, <2>2
<1>5. ASSUME NEW m \in Machines, joinControlplaneNode(m) PROVE HostsInv'
    <2>1. m \in hosts
        BY <1>5 DEF joinControlplaneNode, TypeOK
    <2>2. CASE m \in initialized
        BY <1>5, <2>1, <2>2 DEF joinControlplaneNode, HostsInv, Weak
    <2>3. CASE m \notin initialized
        BY <1>3, <1>5, <2>1, <2>3 DEF joinControlplaneNode, HostsInv, Joined
    <2> QED BY <2>2, <2>3
<1>6. CASE repairClusterIfNeeded
    BY <1>6 DEF repairClusterIfNeeded, MembersToDelete, HostsInv, Weak
<1>7. ASSUME NEW m \in Machines, MemberRemove(m) PROVE HostsInv'
    BY <1>7 DEF MemberRemove, HostsInv, Weak
<1>8. CASE DeleteNodes \/ EndInstall \/ Fail
    BY <1>8 DEF DeleteNodes, EndInstall, Fail, Return, HostsInv, Weak
<1>9. ASSUME NEW m \in Machines, BreakEtcd(m) \/ BreakAPIServer(m) PROVE HostsInv'
    <2>1. /\ pc = "idle" /\ Healthy /\ advice' = {}
          /\ etcdUp \ {m} \subseteq etcdUp' /\ apiUp \ {m} \subseteq apiUp'
          /\ UNCHANGED <<hosts, initialized, ring, nodes, pc>>
        BY <1>9 DEF BreakEtcd, BreakAPIServer, MayBreak
    <2>2. Weak' \subseteq {m}
        BY <1>0, <2>1 DEF Weak
    <2> QED BY <1>0, <2>1, <2>2 DEF HostsInv
<1>10. ASSUME NEW m \in Machines, Recover(m) PROVE HostsInv'
    <2>1. /\ etcdUp \subseteq etcdUp' /\ apiUp \subseteq apiUp'
          /\ UNCHANGED <<hosts, initialized, ring, nodes, advice, process>>
        BY <1>10 DEF Recover
    <2>2. Weak' \subseteq Weak
        BY <2>1 DEF Weak
    <2> QED BY <2>1, <2>2 DEF HostsInv
<1>11. ASSUME NEW m \in Machines, ScaleDown(m) PROVE HostsInv'
    <2>1. /\ pc = "idle" /\ Healthy /\ advice' = {} /\ hosts' = hosts \ {m}
          /\ etcdUp \ {m} \subseteq etcdUp' /\ apiUp \ {m} \subseteq apiUp'
          /\ UNCHANGED <<initialized, ring, nodes, pc>>
        BY <1>11 DEF ScaleDown
    <2>2. Weak' = {} /\ (hosts' \cap ring') \ etcdUp' = {}
        BY <1>0, <2>1 DEF Weak
    <2> QED BY <2>1, <2>2 DEF HostsInv
<1>12. CASE UNCHANGED vars
    BY <1>12 DEF vars, HostsInv, Weak
<1> QED BY <1>1, <1>2, <1>4, <1>5, <1>6, <1>7, <1>8, <1>9, <1>10, <1>11, <1>12 DEF Next, Operator, Kubeone

(* When kubeone apply succeeds, every control plane host of the manifest   *)
(* is an etcd member, for any number of hosts, if components break only    *)
(* between the commands and in a healthy cluster.  kubeone may be killed   *)
(* anywhere and broken components may come back: joinControlplaneNode      *)
(* skips the hosts that are initialized, and none of those has been taken  *)
(* out of the cluster.                                                     *)
THEOREM HostsJoined ==
    ASSUME OneAtATime
    PROVE  Spec => HostsAreMembers
<1> DEFINE I == TypeOK /\ ProcessInv /\ HostsInv
<1>1. Init => I
    BY InitInv DEF Inv, Init, HostsInv, Weak
<1>2. I /\ [Next]_vars => I'
    BY TypeNext, HostsNext
<1>3. ASSUME I, [Next]_vars, outcome # "ok", outcome' = "ok"
      PROVE  hosts' \subseteq ring'
    <2>1. CASE runApply
        BY <1>3, <2>1 DEF runApply, Return, Healthy, APIHealthy, Serving, machines
    <2>2. CASE EndInstall
        BY <1>3, <2>2 DEF EndInstall, machines, HostsInv
    <2> QED BY <1>3, <2>1, <2>2
        DEF Next, Operator, Kubeone, machines, process, vars, initKubernetesLeader, repairClusterIfNeeded,
            MemberRemove, joinControlplaneNode, DeleteNodes, Fail, Return,
            BreakEtcd, BreakAPIServer, Recover, ScaleDown, Replace
<1>4. I /\ [Next]_vars => [outcome # "ok" /\ outcome' = "ok" => hosts' \subseteq ring']_vars
    BY <1>3
<1> QED BY <1>1, <1>2, <1>4, PTL DEF Spec, HostsAreMembers
=============================================================================
