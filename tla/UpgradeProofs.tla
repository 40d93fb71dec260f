--------------------------- MODULE UpgradeProofs ----------------------------
(***************************************************************************)
(* For any number of hosts, versions and faults: one control plane host is *)
(* out at most, the version skew policy holds, and an upgrade that         *)
(* succeeds is complete.  One process runs at a time, and both probes      *)
(* elect the first host.                                                   *)
(***************************************************************************)
EXTENDS Upgrade, FiniteSetTheorems, SequenceTheorems, TLAPS

----------------------------------------------------------------------------
(* The steps of an upgrade: the hosts are taken in the order of the        *)
(* manifest, and where each step takes the process that runs it.           *)

OneTerminal == \A p, q \in Processes : p = q

N == NumControlPlane + NumWorkers

(* The host that p is at.                                                  *)
Position(p) == N - Len(proc[p].todo) + 1

(* A process takes the hosts in the order of the manifest.                 *)
OrderInv ==
    \A p \in Processes :
        /\ ~At(p, "idle") => proc[p].followers = InOrder(2, NumControlPlane)
        /\ proc[p].pc \in Working \cup {"preflight", "kubelets"} =>
            /\ Position(p) \in Hosts
            /\ proc[p].todo = InOrder(Position(p), N)
        /\ At(p, "preflight") => Position(p) = 1

(* The part of TypeOK about the processes.                                 *)
ProcSet ==
    [pc : {"idle", "probes", "preflight", "kubelets", "migrate"} \cup Working,
     force : BOOLEAN, followers : Seq(Hosts), todo : Seq(Hosts),
     live : 0..MaxVersion, outcome : {"none", "ok", "error"}]
ProcType ==
    /\ proc \in [Processes -> ProcSet]
    /\ \A p \in Processes : proc[p].pc \in Working \cup {"kubelets"} => proc[p].todo # <<>>

(* The number of hosts and the versions.                                   *)
LEMMA HostsFacts ==
    /\ N \in Nat \ {0} /\ NumControlPlane \in Nat \ {0} /\ NumWorkers \in Nat
    /\ Hosts = 1..N /\ ControlPlane \subseteq Hosts /\ 1 \in ControlPlane
    /\ MaxVersion \in Nat \ {0} /\ Versions = 1..MaxVersion
BY HostsAssumption, VersionsAssumption DEF N, Hosts, ControlPlane, Versions

(* The hosts from the i-th on.                                             *)
LEMMA InOrderFacts ==
    ASSUME NEW i \in 1..N
    PROVE  /\ InOrder(i, N) \in Seq(Hosts) /\ InOrder(i, N) # <<>>
           /\ Len(InOrder(i, N)) = N - i + 1 /\ Head(InOrder(i, N)) = i
           /\ Tail(InOrder(i, N)) \in Seq(Hosts)
           /\ Len(Tail(InOrder(i, N))) = N - i
           /\ Tail(InOrder(i, N)) = InOrder(i + 1, N)
           /\ Tail(InOrder(i, N)) = <<>> <=> i = N
<1>1. InOrder(i, N) \in Seq(Hosts) /\ Len(InOrder(i, N)) = N - i + 1
    BY HostsFacts DEF InOrder
<1>2. InOrder(i, N) # <<>> /\ Head(InOrder(i, N)) = i
    BY <1>1, HostsFacts DEF InOrder
<1>3. Tail(InOrder(i, N)) \in Seq(Hosts) /\ Len(Tail(InOrder(i, N))) = N - i
    BY <1>1, <1>2, HostsFacts
<1>4. /\ InOrder(i + 1, N) \in Seq(Hosts) /\ Len(InOrder(i + 1, N)) = N - i
      /\ \A k \in 1..(N - i) : InOrder(i + 1, N)[k] = i + k
    BY HostsFacts DEF InOrder
<1>5. \A k \in 1..(N - i) : Tail(InOrder(i, N))[k] = i + k
    <2>1. \A k \in 1..(N - i) : Tail(InOrder(i, N))[k] = InOrder(i, N)[k + 1]
        BY <1>1, <1>2, HostsFacts
    <2>2. \A k \in 1..(N - i) : InOrder(i, N)[k + 1] = i + k
        BY HostsFacts DEF InOrder
    <2> QED BY <2>1, <2>2, Zenon
<1>6. Tail(InOrder(i, N)) = InOrder(i + 1, N)
    BY <1>3, <1>4, <1>5, SeqEqual, Zenon
<1>7. Tail(InOrder(i, N)) = <<>> <=> i = N
    <2>1. \A t \in Seq(Hosts) : t = <<>> <=> Len(t) = 0
        BY EmptySeq, Zenon
    <2>2. N - i = 0 <=> i = N
        BY HostsFacts
    <2> QED BY <1>3, <2>1, <2>2, Zenon
<1> QED BY <1>1, <1>2, <1>3, <1>6, <1>7, Zenon

(* Hosts in order after hosts in order are hosts in order.                 *)
LEMMA Joined ==
    ASSUME NEW s \in Seq(Hosts), NEW t \in Seq(Hosts),
           \A k \in 1..Len(s) : s[k] = k, \A k \in 1..Len(t) : t[k] = Len(s) + k
    PROVE  /\ s \o t \in Seq(Hosts) /\ Len(s \o t) = Len(s) + Len(t)
           /\ \A k \in 1..(Len(s) + Len(t)) : (s \o t)[k] = k
<1> DEFINE u == s \o t
           a == Len(s)
           b == Len(t)
<1>1. /\ u \in Seq(Hosts) /\ Len(u) = a + b
      /\ \A k \in 1..(a + b) : u[k] = IF k <= a THEN s[k] ELSE t[k - a]
    BY ConcatProperties, Zenon
<1>2. /\ a \in Nat /\ b \in Nat
      /\ (\A k \in 1..a : s[k] = k) /\ \A k \in 1..b : t[k] = a + k
    OBVIOUS
<1> HIDE DEF u, a, b
<1>3. \A k \in 1..(a + b) : k <= a => u[k] = k
    BY <1>1, <1>2
<1>4. \A k \in 1..(a + b) : ~ (k <= a) => u[k] = k
    <2> SUFFICES ASSUME NEW k \in 1..(a + b), ~ (k <= a) PROVE u[k] = k
        BY Zenon
    <2>1. k - a \in 1..b /\ a + (k - a) = k
        BY <1>2
    <2> QED BY <1>1, <1>2, <2>1, Zenon
<1> QED BY <1>1, <1>3, <1>4, Zenon DEF u, a, b

(* The leader, the followers and the workers are all hosts, in order.      *)
LEMMA AllInOrder ==
    /\ InOrder(2, NumControlPlane) \in Seq(Hosts) /\ Len(InOrder(2, NumControlPlane)) = NumControlPlane - 1
    /\ Workers \in Seq(Hosts) /\ Len(Workers) = NumWorkers
    /\ <<1>> \o InOrder(2, NumControlPlane) \o Workers = InOrder(1, N)
    /\ RunTaskOnAllNodes = InOrder(1, N)
<1> DEFINE l == <<1>>
           f == InOrder(2, NumControlPlane)
           w == Workers
           g == l \o f
<1>1. l \in Seq(Hosts) /\ Len(l) = 1 /\ \A k \in 1..1 : l[k] = k
    BY HostsFacts
<1>2. f \in Seq(Hosts) /\ Len(f) = NumControlPlane - 1 /\ \A k \in 1..(NumControlPlane - 1) : f[k] = 1 + k
    BY HostsFacts DEF InOrder, N
<1>3. w \in Seq(Hosts) /\ Len(w) = NumWorkers /\ \A k \in 1..NumWorkers : w[k] = NumControlPlane + k
    BY HostsFacts DEF InOrder, Workers, N
<1>4. InOrder(1, N) \in Seq(Hosts) /\ Len(InOrder(1, N)) = N /\ \A k \in 1..N : InOrder(1, N)[k] = k
    BY HostsFacts DEF InOrder
<1>5. RunTaskOnAllNodes = InOrder(1, N)
    BY Zenon DEF RunTaskOnAllNodes, N
<1>6. /\ NumControlPlane - 1 \in Nat /\ 1 + (NumControlPlane - 1) = NumControlPlane
      /\ NumControlPlane + NumWorkers = N /\ 1 \in Nat /\ NumControlPlane \in Nat /\ NumWorkers \in Nat
    BY HostsFacts DEF N
<1> HIDE DEF l, f, w
<1>7. g \in Seq(Hosts) /\ Len(g) = NumControlPlane /\ \A k \in 1..NumControlPlane : g[k] = k
    <2>1. /\ g \in Seq(Hosts) /\ Len(g) = 1 + (NumControlPlane - 1)
          /\ \A k \in 1..(1 + (NumControlPlane - 1)) : g[k] = k
        <3>1. Len(l) = 1 /\ Len(f) = NumControlPlane - 1
            BY <1>1, <1>2, Zenon
        <3>2. (\A k \in 1..Len(l) : l[k] = k) /\ \A k \in 1..Len(f) : f[k] = Len(l) + k
            BY <1>1, <1>2, <3>1, Zenon
        <3>3. /\ g \in Seq(Hosts) /\ Len(g) = Len(l) + Len(f)
              /\ \A k \in 1..(Len(l) + Len(f)) : g[k] = k
            BY <1>1, <1>2, <3>2, Joined, Zenon
        <3> QED BY <3>1, <3>3, Zenon
    <2> QED BY <1>6, <2>1, Zenon
<1> HIDE DEF g
<1>8. g \o w \in Seq(Hosts) /\ Len(g \o w) = N /\ \A k \in 1..N : (g \o w)[k] = k
    <2>1. /\ g \o w \in Seq(Hosts) /\ Len(g \o w) = NumControlPlane + NumWorkers
          /\ \A k \in 1..(NumControlPlane + NumWorkers) : (g \o w)[k] = k
        <3>1. (\A k \in 1..Len(g) : g[k] = k) /\ \A k \in 1..Len(w) : w[k] = Len(g) + k
            BY <1>3, <1>7, Zenon
        <3>2. /\ g \o w \in Seq(Hosts) /\ Len(g \o w) = Len(g) + Len(w)
              /\ \A k \in 1..(Len(g) + Len(w)) : (g \o w)[k] = k
            BY <1>3, <1>7, <3>1, Joined, Zenon
        <3> QED BY <1>3, <1>7, <3>2, Zenon
    <2> QED BY <1>6, <2>1, Zenon
<1>9. g \o w = InOrder(1, N)
    BY <1>4, <1>8, SeqEqual, Zenon
<1> QED BY <1>2, <1>3, <1>5, <1>9, Zenon DEF l, f, w, g

(* The host that a process works on, and those after it.                   *)
LEMMA Current ==
    ASSUME TypeOK, OrderInv, NEW p \in Processes,
           proc[p].pc \in Working \cup {"preflight", "kubelets"}
    PROVE  /\ Position(p) \in Hosts /\ Position(p) \in 1..N /\ Head(proc[p].todo) = Position(p)
           /\ Tail(proc[p].todo) \in Seq(Hosts)
           /\ Tail(proc[p].todo) = InOrder(Position(p) + 1, N)
           /\ Len(Tail(proc[p].todo)) = N - Position(p)
           /\ Tail(proc[p].todo) = <<>> <=> Position(p) = N
<1>1. Position(p) \in 1..N /\ proc[p].todo = InOrder(Position(p), N)
    BY HostsFacts, Zenon DEF OrderInv
<1> DEFINE i == Position(p)
<1> HIDE DEF i
<1>2. i \in 1..N /\ proc[p].todo = InOrder(i, N)
    BY <1>1, Zenon DEF i
<1>3. /\ i \in Hosts /\ i \in 1..N /\ Head(proc[p].todo) = i
      /\ Tail(proc[p].todo) \in Seq(Hosts)
      /\ Tail(proc[p].todo) = InOrder(i + 1, N)
      /\ Len(Tail(proc[p].todo)) = N - i
      /\ Tail(proc[p].todo) = <<>> <=> i = N
    BY <1>2, InOrderFacts, HostsFacts, Zenon
<1> QED BY <1>3, Zenon DEF i

(* A step changes where the process is, or ends it.                        *)
LEMMA GotoEffect ==
    ASSUME TypeOK, NEW p \in Processes,
           NEW label \in {"idle", "probes", "preflight", "kubelets", "migrate"} \cup Working,
           Goto(p, label)
    PROVE  /\ proc' = [proc EXCEPT ![p] = [proc[p] EXCEPT !.pc = label]]
           /\ proc'[p] = [proc[p] EXCEPT !.pc = label]
           /\ proc'[p].pc = label /\ proc'[p].followers = proc[p].followers
           /\ proc'[p].todo = proc[p].todo /\ proc'[p].live = proc[p].live
           /\ Position(p)' = Position(p)
<1>1. /\ proc'[p] = [proc[p] EXCEPT !.pc = label]
      /\ proc' = [proc EXCEPT ![p] = [proc[p] EXCEPT !.pc = label]]
    BY Zenon DEF Goto, TypeOK
<1>2. /\ proc'[p].pc = label /\ proc'[p].followers = proc[p].followers
      /\ proc'[p].todo = proc[p].todo /\ proc'[p].live = proc[p].live
    BY <1>1 DEF TypeOK
<1> QED BY <1>1, <1>2, Zenon DEF Position

LEMMA ReturnEffect ==
    ASSUME TypeOK, NEW p \in Processes, NEW result \in {"none", "ok", "error"}, Return(p, result)
    PROVE  proc'[p].pc = "idle" /\ proc'[p].outcome = result
BY Zenon DEF Return, Idle, TypeOK

(* Processes stay well-formed.                                             *)
LEMMA GotoType ==
    ASSUME TypeOK, NEW p \in Processes,
           NEW label \in {"idle", "probes", "preflight", "kubelets", "migrate"} \cup Working,
           Goto(p, label),
           label \in Working \cup {"kubelets"} => proc[p].todo # <<>>
    PROVE  ProcType'
<1>1. proc' = [proc EXCEPT ![p] = [proc[p] EXCEPT !.pc = label]]
    BY GotoEffect, Zenon
<1>2. [proc[p] EXCEPT !.pc = label] \in ProcSet
    BY Zenon DEF TypeOK, ProcSet
<1>3. proc' \in [Processes -> ProcSet]
    BY <1>1, <1>2, Zenon DEF TypeOK, ProcSet
<1>4. \A q \in Processes : proc'[q].pc \in Working \cup {"kubelets"} => proc'[q].todo # <<>>
    BY <1>1, GotoEffect DEF TypeOK
<1> QED BY <1>3, <1>4, Zenon DEF ProcType

LEMMA ReturnType ==
    ASSUME TypeOK, NEW p \in Processes, NEW result \in {"none", "ok", "error"}, Return(p, result)
    PROVE  ProcType'
<1>1. Idle(result) \in ProcSet /\ Idle(result).pc = "idle"
    BY EmptySeq, VersionsAssumption DEF Idle, ProcSet
<1>2. proc' \in [Processes -> ProcSet]
    BY <1>1, Zenon DEF TypeOK, ProcSet, Return
<1>3. \A q \in Processes : proc'[q].pc \in Working \cup {"kubelets"} => proc'[q].todo # <<>>
    BY <1>1, Zenon DEF TypeOK, Return, Working
<1> QED BY <1>2, <1>3, Zenon DEF ProcType

LEMMA ApplyEffect ==
    ASSUME TypeOK, NEW p \in Processes, NEW force \in BOOLEAN, runApply(p, force)
    PROVE  /\ ProcType'
           /\ \/ proc'[p].pc = "idle"
              \/ /\ proc'[p].pc = "probes" /\ proc'[p].followers = InOrder(2, NumControlPlane)
                 /\ ~Downgrade
<1> DEFINE f == InOrder(2, NumControlPlane)
           r == [Idle("none") EXCEPT !.pc = "probes", !.force = force, !.followers = f]
<1>1. CASE \E result \in {"ok", "error"} : Return(p, result)
    BY <1>1, ReturnType, ReturnEffect, Zenon
<1>2. CASE proc' = [proc EXCEPT ![p] = r] /\ ~Downgrade
    <2>1. f \in Seq(Hosts) /\ Idle("none") \in ProcSet
        BY AllInOrder, EmptySeq, VersionsAssumption DEF Idle, ProcSet
    <2>2. r \in ProcSet /\ r.pc = "probes" /\ r.followers = f
        <3> HIDE DEF f
        <3> QED BY <2>1, Zenon DEF ProcSet
    <2> HIDE DEF r
    <2>3. proc' \in [Processes -> ProcSet] /\ proc'[p] = r
        BY <1>2, <2>2, Zenon DEF TypeOK, ProcSet
    <2>4. \A q \in Processes : proc'[q].pc \in Working \cup {"kubelets"} => proc'[q].todo # <<>>
        BY <1>2, <2>2, Zenon DEF TypeOK, Working
    <2> QED BY <1>2, <2>2, <2>3, <2>4, Zenon DEF ProcType
<1> QED BY <1>1, <1>2, Zenon DEF runApply

LEMMA ProbesEffect ==
    ASSUME TypeOK, OrderInv, ~Reelects, NEW p \in Processes, runProbes(p)
    PROVE  /\ ProcType'
           /\ proc'[p].pc = "preflight" /\ proc'[p].live = kubelet[1]
           /\ proc'[p].followers = InOrder(2, NumControlPlane)
           /\ proc'[p].todo = InOrder(1, N) /\ Position(p)' = 1
<1> DEFINE r == [proc[p] EXCEPT !.pc = "preflight", !.live = kubelet[1], !.todo = InOrder(1, N)]
<1>1. proc[p].followers = InOrder(2, NumControlPlane)
    BY Zenon DEF OrderInv, runProbes, At
<1>2. proc' = [proc EXCEPT ![p].pc = "preflight", ![p].live = kubelet[1],
                           ![p].todo = <<1>> \o proc[p].followers \o Workers]
    BY Zenon DEF runProbes
<1>3. proc' = [proc EXCEPT ![p].pc = "preflight", ![p].live = kubelet[1],
                           ![p].todo = InOrder(1, N)]
    BY <1>1, <1>2, AllInOrder, Zenon
<1>4. proc' = [proc EXCEPT ![p] = r]
    BY <1>3, Zenon DEF TypeOK
<1>5. InOrder(1, N) \in Seq(Hosts) /\ Len(InOrder(1, N)) = N /\ kubelet[1] \in 0..MaxVersion
    <2>1. 1 \in 1..N
        BY HostsFacts, Zenon
    <2>2. InOrder(1, N) \in Seq(Hosts) /\ Len(InOrder(1, N)) = N - 1 + 1
        BY <2>1, InOrderFacts, Zenon
    <2>3. kubelet[1] \in 0..MaxVersion
        BY HostsFacts DEF TypeOK
    <2> QED BY <2>2, <2>3, HostsFacts
<1>6. /\ r \in ProcSet /\ r.pc = "preflight" /\ r.live = kubelet[1]
      /\ r.followers = proc[p].followers /\ r.todo = InOrder(1, N)
    BY <1>5, Zenon DEF TypeOK, ProcSet
<1> HIDE DEF r
<1>7. proc' \in [Processes -> ProcSet] /\ proc'[p] = r
    BY <1>4, <1>6, Zenon DEF TypeOK, ProcSet
<1>8. \A q \in Processes : proc'[q].pc \in Working \cup {"kubelets"} => proc'[q].todo # <<>>
    BY <1>4, <1>6, Zenon DEF TypeOK, Working
<1>9. Position(p)' = 1
    <2>1. Len(proc'[p].todo) = N
        BY <1>5, <1>6, <1>7, Zenon
    <2> QED BY <2>1, HostsFacts DEF Position
<1> QED BY <1>1, <1>6, <1>7, <1>8, <1>9, Zenon DEF ProcType

(* A change of pc and todo.                                                *)
LEMMA TodoEffect ==
    ASSUME TypeOK, NEW p \in Processes, NEW label \in {"label", "kubelets", "migrate"},
           NEW rest \in Seq(Hosts), label \in {"label", "kubelets"} => rest # <<>>,
           proc' = [proc EXCEPT ![p].pc = label, ![p].todo = rest]
    PROVE  /\ ProcType'
           /\ proc'[p].pc = label /\ proc'[p].todo = rest
           /\ proc'[p].live = proc[p].live /\ proc'[p].followers = proc[p].followers
           /\ Position(p)' = N - Len(rest) + 1
<1> DEFINE r == [proc[p] EXCEPT !.pc = label, !.todo = rest]
<1>1. proc' = [proc EXCEPT ![p] = r]
    BY Zenon DEF TypeOK
<1>2. /\ r \in ProcSet /\ r.pc = label /\ r.live = proc[p].live
      /\ r.followers = proc[p].followers /\ r.todo = rest
    BY Zenon DEF TypeOK, ProcSet, Working
<1> HIDE DEF r
<1>3. proc' \in [Processes -> ProcSet] /\ proc'[p] = r
    <2>1. proc \in [Processes -> ProcSet]
        BY Zenon DEF TypeOK, ProcSet
    <2> QED BY <1>1, <1>2, <2>1, Zenon
<1>4. \A q \in Processes : proc'[q].pc \in Working \cup {"kubelets"} => proc'[q].todo # <<>>
    BY <1>1, <1>2, Zenon DEF TypeOK, Working
<1> QED BY <1>2, <1>3, <1>4, Zenon DEF ProcType, Position

LEMMA AllEffect ==
    ASSUME TypeOK, NEW p \in Processes,
           proc' = [proc EXCEPT ![p].pc = "kubelets", ![p].todo = RunTaskOnAllNodes]
    PROVE  /\ ProcType'
           /\ proc'[p].pc = "kubelets" /\ proc'[p].todo = InOrder(1, N)
           /\ proc'[p].live = proc[p].live /\ proc'[p].followers = proc[p].followers
           /\ Position(p)' = 1
<1> DEFINE all == InOrder(1, N)
<1>1. 1 \in 1..N
    BY HostsFacts, Zenon
<1>2. all \in Seq(Hosts) /\ all # <<>> /\ Len(all) = N - 1 + 1
    BY <1>1, InOrderFacts, Zenon
<1>3. proc' = [proc EXCEPT ![p].pc = "kubelets", ![p].todo = all]
    BY AllInOrder, Zenon
<1> HIDE DEF all
<1>4. /\ ProcType'
      /\ proc'[p].pc = "kubelets" /\ proc'[p].todo = all
      /\ proc'[p].live = proc[p].live /\ proc'[p].followers = proc[p].followers
      /\ Position(p)' = N - Len(all) + 1
    BY <1>2, <1>3, TodoEffect, Zenon
<1>5. N - Len(all) + 1 = 1
    BY <1>2, HostsFacts
<1> QED BY <1>4, <1>5, Zenon DEF all

LEMMA UnlabelEffect ==
    ASSUME TypeOK, OrderInv, NEW p \in Processes, unlabelNode(p)
    PROVE  /\ ProcType'
           /\ proc'[p].live = proc[p].live /\ proc'[p].followers = proc[p].followers
           /\ \/ /\ Position(p) = N /\ proc'[p].pc = "kubelets"
                 /\ proc'[p].todo = InOrder(1, N) /\ Position(p)' = 1
              \/ /\ Position(p) < N /\ proc'[p].pc = "label"
                 /\ Position(p)' = Position(p) + 1
                 /\ proc'[p].todo = InOrder(Position(p) + 1, N)
<1> DEFINE rest == Tail(proc[p].todo)
           i == Position(p)
<1>1. /\ i \in 1..N /\ rest \in Seq(Hosts) /\ rest = InOrder(i + 1, N)
      /\ Len(rest) = N - i /\ (rest = <<>> <=> i = N)
    BY Current, Zenon DEF unlabelNode, At, Working
<1>2. \/ rest = <<>> /\ proc' = [proc EXCEPT ![p].pc = "kubelets", ![p].todo = RunTaskOnAllNodes]
      \/ rest # <<>> /\ proc' = [proc EXCEPT ![p].pc = "label", ![p].todo = rest]
    BY Zenon DEF unlabelNode
<1> HIDE DEF rest, i
<1>3. CASE rest = <<>>
    BY <1>1, <1>2, <1>3, AllEffect, Zenon DEF i
<1>4. CASE rest # <<>>
    <2>1. /\ ProcType'
          /\ proc'[p].pc = "label" /\ proc'[p].todo = rest
          /\ proc'[p].live = proc[p].live /\ proc'[p].followers = proc[p].followers
          /\ Position(p)' = N - Len(rest) + 1
        BY <1>1, <1>2, <1>4, TodoEffect, Zenon
    <2>2. i < N /\ N - Len(rest) + 1 = i + 1
        BY <1>1, <1>4, HostsFacts
    <2> QED BY <1>1, <2>1, <2>2, Zenon DEF i
<1> QED BY <1>3, <1>4, Zenon

LEMMA KubeletsEffect ==
    ASSUME TypeOK, OrderInv, NEW p \in Processes, updateAllKubelets(p)
    PROVE  /\ ProcType' /\ Position(p) \in Hosts
           /\ kubelet' = [kubelet EXCEPT ![Position(p)] = target]
           /\ proc'[p].live = proc[p].live /\ proc'[p].followers = proc[p].followers
           /\ \/ Position(p) = N /\ proc'[p].pc = "migrate"
              \/ /\ Position(p) < N /\ proc'[p].pc = "kubelets"
                 /\ Position(p)' = Position(p) + 1
                 /\ proc'[p].todo = InOrder(Position(p) + 1, N)
<1> DEFINE rest == Tail(proc[p].todo)
           i == Position(p)
           label == IF rest = <<>> THEN "migrate" ELSE "kubelets"
<1>1. /\ i \in 1..N /\ rest \in Seq(Hosts) /\ rest = InOrder(i + 1, N) /\ Head(proc[p].todo) = i
      /\ Len(rest) = N - i /\ (rest = <<>> <=> i = N) /\ i \in Hosts
    BY Current, Zenon DEF updateAllKubelets, At
<1>2. proc' = [proc EXCEPT ![p].pc = label, ![p].todo = rest]
    BY Zenon DEF updateAllKubelets
<1>3. kubelet' = [kubelet EXCEPT ![i] = target]
    BY <1>1, Zenon DEF updateAllKubelets
<1> HIDE DEF rest, i
<1>4. /\ ProcType'
      /\ proc'[p].pc = label /\ proc'[p].todo = rest
      /\ proc'[p].live = proc[p].live /\ proc'[p].followers = proc[p].followers
      /\ Position(p)' = N - Len(rest) + 1
    <2>1. label \in {"label", "kubelets", "migrate"} /\ (label \in {"label", "kubelets"} => rest # <<>>)
        BY Zenon
    <2> HIDE DEF label
    <2> QED BY <1>1, <1>2, <2>1, TodoEffect, Zenon
<1>5. CASE rest = <<>>
    BY <1>1, <1>3, <1>4, <1>5, Zenon DEF i
<1>6. CASE rest # <<>>
    <2>1. i < N /\ N - Len(rest) + 1 = i + 1
        BY <1>1, <1>6, HostsFacts
    <2> QED BY <1>1, <1>3, <1>4, <1>6, <2>1, Zenon DEF i
<1> QED BY <1>5, <1>6, Zenon

LEMMA PreflightTodo ==
    ASSUME TypeOK, OrderInv, NEW p \in Processes, At(p, "preflight")
    PROVE  proc[p].todo # <<>>
<1>1. Position(p) \in 1..N /\ proc[p].todo = InOrder(Position(p), N)
    BY HostsFacts, Zenon DEF OrderInv, At
<1> QED BY <1>1, InOrderFacts, Zenon

(* Retrying updateAllKubelets.                                             *)
LEMMA RetryEffect ==
    ASSUME TypeOK, NEW p \in Processes, At(p, "kubelets"),
           proc' = [proc EXCEPT ![p].todo = RunTaskOnAllNodes]
    PROVE  /\ ProcType'
           /\ proc'[p].pc = "kubelets" /\ proc'[p].todo = InOrder(1, N)
           /\ proc'[p].live = proc[p].live /\ proc'[p].followers = proc[p].followers
           /\ Position(p)' = 1
<1>1. [proc EXCEPT ![p].todo = RunTaskOnAllNodes]
        = [proc EXCEPT ![p].pc = "kubelets", ![p].todo = RunTaskOnAllNodes]
    BY Zenon DEF TypeOK, At
<1> QED BY <1>1, AllEffect, Zenon

----------------------------------------------------------------------------
(* The lock and the versions.                                              *)

(* The lock: a cordoned host is locked, and the only control plane host    *)
(* that can be locked while a process works is the one it works on.        *)
LockInv ==
    /\ cordoned \subseteq locked
    /\ \A c, d \in locked \cap ControlPlane : c = d
    /\ \A p \in Processes :
        /\ proc[p].pc \in Working => locked \cap ControlPlane \subseteq {Position(p)}
        /\ proc[p].pc \in {"cordon", "kubeadm", "uncordon", "unlabel"} => Position(p) \in locked
        /\ At(p, "unlabel") => Position(p) \notin cordoned
        /\ proc[p].pc \in Working => \A h \in 1..(Position(p) - 1) : h \notin locked
        /\ proc[p].pc \in {"kubelets", "migrate"} => locked = {}

(* The kubelets are upgraded in the order of the manifest, and none before *)
(* all API servers.                                                        *)
VersionInv ==
    /\ \A g, h \in Hosts : g < h => kubelet[h] <= kubelet[g]
    /\ \A h \in Hosts, c \in ControlPlane : kubelet[h] <= api[c]
    /\ \A p \in Processes :
        /\ ~At(p, "idle") => \A h \in Hosts : kubelet[h] <= target
        /\ proc[p].pc \in Working =>
            \A c \in ControlPlane : c < Position(p) => api[c] = target
        /\ proc[p].pc \in {"uncordon", "unlabel"} /\ Position(p) \in ControlPlane =>
            api[Position(p)] = target
        /\ proc[p].pc \in {"kubelets", "migrate"} => \A c \in ControlPlane : api[c] = target
        /\ At(p, "kubelets") => \A h \in 1..(Position(p) - 1) : kubelet[h] = target
        /\ At(p, "migrate") => \A h \in Hosts : kubelet[h] = target

(* An upgrade that passed the version skew check goes up by one version.   *)
SkewInv ==
    ~overruled =>
        /\ \A c, d \in ControlPlane : api[c] - api[d] <= 1 /\ api[c] - kubelet[d] <= 2
        /\ \A p \in Processes : proc[p].pc \in Working \cup {"kubelets", "migrate"} =>
            \A c \in ControlPlane : api[c] \in {target - 1, target} /\ target - kubelet[c] <= 2

Inv == TypeOK /\ OrderInv /\ LockInv /\ VersionInv /\ SkewInv

(* The first host with another version than the manifest decides, and the  *)
(* kubelets of the hosts after it are not newer.                           *)
LEMMA NoDowngrade ==
    ASSUME TypeOK, VersionInv, ~Downgrade PROVE \A h \in Hosts : kubelet[h] <= target
<1>1. kubelet[1] <= target /\ 1 \in Hosts
    <2>1. 1 \in Hosts /\ 1..(1 - 1) = {} /\ kubelet[1] \in Nat /\ target \in Nat
        BY HostsFacts DEF TypeOK
    <2> QED BY <2>1 DEF Downgrade
<1>2. \A h \in Hosts : h = 1 \/ kubelet[h] <= kubelet[1]
    BY HostsFacts DEF VersionInv
<1> QED BY <1>1, <1>2, HostsFacts DEF TypeOK

(* The initial state.                                                      *)
LEMMA InitInv == Init => Inv
<1> SUFFICES ASSUME Init PROVE Inv
    BY Zenon
<1>1. Idle("none") \in ProcSet /\ Idle("none").pc = "idle"
    BY EmptySeq, VersionsAssumption DEF Idle, ProcSet
<1>2. ProcType /\ \A p \in Processes : proc[p].pc = "idle"
    BY <1>1, Zenon DEF Init, ProcType, Working
<1>3. TypeOK
    <2>1. 1 \in Versions /\ 0 \in 0..MaxFaults
        BY HostsFacts, VersionsAssumption
    <2>2. api \in [ControlPlane -> Versions] /\ kubelet \in [Hosts -> Versions]
        BY <2>1, Zenon DEF Init
    <2> QED BY <1>2, <2>1, <2>2, Zenon DEF Init, TypeOK, ProcType, ProcSet
<1>4. OrderInv /\ LockInv
    BY <1>2, Zenon DEF Init, OrderInv, LockInv, At, Working
<1>5. VersionInv /\ SkewInv
    BY <1>2, HostsFacts DEF Init, VersionInv, SkewInv, At, Working
<1> QED BY <1>3, <1>4, <1>5, Zenon DEF Inv

(* Every step keeps the invariant.                                         *)
LEMMA InvNext ==
    ASSUME OneTerminal, ~Reelects, Inv, [Next]_vars PROVE Inv'
<1> USE DEF Inv
<1>a. \A p, q \in Processes : p = q
    BY Zenon DEF OneTerminal
<1>b. TypeOK /\ OrderInv /\ LockInv /\ VersionInv /\ SkewInv
    BY Zenon
<1>c. /\ api \in [ControlPlane -> Nat] /\ kubelet \in [Hosts -> Nat] /\ target \in Nat
      /\ ControlPlane \subseteq Hosts /\ Hosts = 1..N /\ N \in Nat /\ 1 \in ControlPlane
    BY HostsFacts DEF TypeOK
<1>1. ASSUME NEW p \in Processes, NEW force \in Flags, runApply(p, force) PROVE Inv'
    <2>1. /\ ProcType'
          /\ \/ proc'[p].pc = "idle"
             \/ /\ proc'[p].pc = "probes" /\ proc'[p].followers = InOrder(2, NumControlPlane)
                /\ ~Downgrade
        BY <1>b, <1>1, ApplyEffect, SwitchAssumption, Zenon
    <2>3. TypeOK'
        BY <1>b, <1>1, <2>1, Zenon DEF runApply, TypeOK, ProcType, ProcSet, cluster
    <2>4. OrderInv'
        BY <1>a, <1>b, <1>c, <1>1, <2>1, Zenon DEF runApply, OrderInv, At, Working
    <2>5. LockInv'
        BY <1>a, <1>b, <1>c, <1>1, <2>1, Zenon DEF runApply, LockInv, At, Working, cluster
    <2>6. VersionInv'
        BY <1>a, <1>b, <1>c, <1>1, <2>1, NoDowngrade, Zenon DEF runApply, VersionInv, At, Working, cluster
    <2>7. SkewInv'
        BY <1>a, <1>b, <1>c, <1>1, <2>1 DEF runApply, VersionInv, SkewInv, At, Working, cluster
    <2> QED BY <2>3, <2>4, <2>5, <2>6, <2>7, Zenon
<1>2. ASSUME NEW p \in Processes, runProbes(p) PROVE Inv'
    <2>1. /\ ProcType'
          /\ proc'[p].pc = "preflight" /\ proc'[p].followers = InOrder(2, NumControlPlane)
          /\ proc'[p].todo = InOrder(1, N) /\ Position(p)' = 1
        BY <1>b, <1>2, ProbesEffect, Zenon
    <2>3. TypeOK'
        BY <1>b, <1>2, <2>1, Zenon DEF runProbes, TypeOK, ProcType, ProcSet, cluster
    <2>4. OrderInv'
        BY <1>a, <1>b, <1>c, <1>2, <2>1, Zenon DEF runProbes, OrderInv, At, Working
    <2>5. LockInv'
        BY <1>a, <1>b, <1>c, <1>2, <2>1, Zenon DEF runProbes, LockInv, At, Working, cluster
    <2>6. VersionInv'
        BY <1>a, <1>b, <1>c, <1>2, <2>1, Zenon DEF runProbes, VersionInv, At, Working, cluster
    <2>7. SkewInv'
        BY <1>a, <1>b, <1>c, <1>2, <2>1, Zenon DEF runProbes, VersionInv, SkewInv, At, Working, cluster
    <2> QED BY <2>3, <2>4, <2>5, <2>6, <2>7, Zenon
<1>3. ASSUME NEW p \in Processes, runPreflightChecks(p) PROVE Inv'
    <2>1. /\ UNCHANGED <<api, kubelet, locked, cordoned, migrated, target, faults>>
          /\ At(p, "preflight") /\ Position(p) = 1 /\ overruled' \in BOOLEAN
        BY <1>b, <1>3, Zenon DEF runPreflightChecks, cluster, OrderInv, TypeOK
    <2>2. CASE Return(p, "error") /\ UNCHANGED overruled
        <3>1. ProcType' /\ proc'[p].pc = "idle"
            BY <1>b, <2>2, ReturnEffect, ReturnType, Zenon
        <3>2. TypeOK'
            BY <1>b, <2>1, <3>1, Zenon DEF TypeOK, ProcType, ProcSet
        <3>3. OrderInv' /\ LockInv' /\ VersionInv'
            BY <1>a, <1>b, <2>1, <3>1 DEF OrderInv, LockInv, VersionInv, At, Working
        <3>4. SkewInv'
            BY <1>a, <1>b, <2>1, <2>2, <3>1, Zenon DEF SkewInv, Working
        <3> QED BY <3>2, <3>3, <3>4, Zenon
    <2>3. CASE /\ Goto(p, "label") /\ verifyNoUpgradeLabels
               /\ overruled' = (overruled \/ ~verifyVersionSkew)
        <3>1. /\ ProcType' /\ proc'[p].pc = "label" /\ proc'[p].followers = proc[p].followers
              /\ proc'[p].todo = proc[p].todo /\ Position(p)' = 1
            BY <1>b, <2>1, <2>3, GotoEffect, GotoType, PreflightTodo, Zenon DEF Working
        <3>2. TypeOK'
            BY <1>b, <2>1, <3>1, Zenon DEF TypeOK, ProcType, ProcSet
        <3>3. OrderInv'
            BY <1>a, <1>b, <1>c, <2>1, <3>1, Zenon DEF OrderInv, At, Working
        <3>4. LockInv'
            BY <1>a, <1>b, <1>c, <2>1, <2>3, <3>1 DEF LockInv, verifyNoUpgradeLabels, At, Working
        <3>5. VersionInv'
            BY <1>a, <1>b, <1>c, <2>1, <3>1 DEF VersionInv, At, Working
        <3>6. verifyVersionSkew => \A c \in ControlPlane : api[c] = target - 1 /\ target - kubelet[c] <= 2
            <4> SUFFICES ASSUME verifyVersionSkew, NEW c \in ControlPlane
                         PROVE  api[c] = target - 1 /\ target - kubelet[c] <= 2
                BY Zenon
            <4>1. /\ api[c] = api[FirstListed] /\ target > api[FirstListed]
                  /\ target - api[FirstListed] <= 1 /\ target - kubelet[c] <= 2
                BY Zenon DEF verifyVersionSkew, checkVersionSkew
            <4>2. api[c] \in Nat /\ target \in Nat
                BY <1>c, Zenon
            <4> QED BY <4>1, <4>2
        <3>7. SkewInv'
            BY <1>a, <1>b, <2>1, <2>3, <3>1, <3>6, Zenon DEF SkewInv
        <3> QED BY <3>2, <3>3, <3>4, <3>5, <3>7, Zenon
    <2> QED BY <1>3, <2>2, <2>3, Zenon DEF runPreflightChecks
<1>4. ASSUME NEW p \in Processes, labelNode(p) PROVE Inv'
    <2>1. /\ ProcType'
          /\ proc'[p].pc = "cordon" /\ proc'[p].followers = proc[p].followers
          /\ proc'[p].todo = proc[p].todo /\ Position(p)' = Position(p)
        BY <1>b, <1>4, GotoEffect, GotoType, Zenon DEF labelNode, TypeOK, At, Working
    <2>2. /\ Position(p) \in Hosts /\ Position(p) \in 1..N /\ Head(proc[p].todo) = Position(p)
          /\ proc[p].todo = InOrder(Position(p), N)
        BY <1>b, <1>4, Current, Zenon DEF OrderInv, At, Working, labelNode
    <2>3. TypeOK'
        BY <1>b, <1>4, <2>1, <2>2, Zenon DEF labelNode, TypeOK, ProcType, ProcSet, cluster
    <2>4. OrderInv'
        BY <1>a, <1>b, <1>c, <1>4, <2>1, <2>2, Zenon DEF labelNode, OrderInv, At, Working
    <2>5. LockInv'
        BY <1>a, <1>b, <1>c, <1>4, <2>1, <2>2 DEF labelNode, LockInv, At, Working, cluster
    <2>6. VersionInv'
        BY <1>a, <1>b, <1>c, <1>4, <2>1, <2>2 DEF labelNode, VersionInv, At, Working, cluster
    <2>7. SkewInv'
        BY <1>a, <1>b, <1>c, <1>4, <2>1, <2>2, Zenon DEF labelNode, VersionInv, SkewInv, At, Working, cluster
    <2> QED BY <2>3, <2>4, <2>5, <2>6, <2>7, Zenon
<1>5. ASSUME NEW p \in Processes, CordonAndDrain(p) PROVE Inv'
    <2>1. /\ ProcType'
          /\ proc'[p].pc = "kubeadm" /\ proc'[p].followers = proc[p].followers
          /\ proc'[p].todo = proc[p].todo /\ Position(p)' = Position(p)
        BY <1>b, <1>5, GotoEffect, GotoType, Zenon DEF CordonAndDrain, TypeOK, At, Working
    <2>2. /\ Position(p) \in Hosts /\ Position(p) \in 1..N /\ Head(proc[p].todo) = Position(p)
          /\ proc[p].todo = InOrder(Position(p), N)
        BY <1>b, <1>5, Current, Zenon DEF OrderInv, At, Working, CordonAndDrain
    <2>3. TypeOK'
        BY <1>b, <1>5, <2>1, <2>2, Zenon DEF CordonAndDrain, TypeOK, ProcType, ProcSet, cluster
    <2>4. OrderInv'
        BY <1>a, <1>b, <1>c, <1>5, <2>1, <2>2, Zenon DEF CordonAndDrain, OrderInv, At, Working
    <2>5. LockInv'
        BY <1>a, <1>b, <1>c, <1>5, <2>1, <2>2 DEF CordonAndDrain, LockInv, At, Working, cluster
    <2>6. VersionInv'
        BY <1>a, <1>b, <1>c, <1>5, <2>1, <2>2 DEF CordonAndDrain, VersionInv, At, Working, cluster
    <2>7. SkewInv'
        BY <1>a, <1>b, <1>c, <1>5, <2>1, <2>2, Zenon DEF CordonAndDrain, VersionInv, SkewInv, At, Working, cluster
    <2> QED BY <2>3, <2>4, <2>5, <2>6, <2>7, Zenon
<1>6. ASSUME NEW p \in Processes, kubeadmUpgrade(p) PROVE Inv'
    <2> DEFINE i == Position(p)
    <2>1. /\ UNCHANGED <<kubelet, locked, cordoned, migrated, target, faults, overruled>>
          /\ proc[p].pc = "kubeadm" /\ proc[p].todo # <<>>
        BY <1>b, <1>6, Zenon DEF kubeadmUpgrade, TypeOK, At, Working
    <2>2. /\ i \in Hosts /\ i \in Nat /\ Head(proc[p].todo) = i /\ proc[p].todo = InOrder(i, N)
        BY <1>b, <2>1, Current DEF OrderInv, Working
    <2>3. CASE Return(p, "error") /\ UNCHANGED api
        <3>1. ProcType' /\ proc'[p].pc = "idle"
            BY <1>b, <2>3, ReturnEffect, ReturnType, Zenon
        <3>2. TypeOK'
            BY <1>b, <2>1, <2>3, <3>1, Zenon DEF TypeOK, ProcType, ProcSet
        <3>3. OrderInv' /\ LockInv' /\ VersionInv'
            BY <1>a, <1>b, <2>1, <2>3, <3>1 DEF OrderInv, LockInv, VersionInv, At, Working
        <3>4. SkewInv'
            BY <1>a, <1>b, <2>1, <2>3, <3>1, Zenon DEF SkewInv, Working
        <3> QED BY <3>2, <3>3, <3>4, Zenon
    <2>4. CASE /\ api' = [c \in ControlPlane |-> IF c = i THEN target ELSE api[c]]
               /\ Goto(p, "uncordon")
        <3>1. /\ ProcType' /\ proc'[p].pc = "uncordon" /\ proc'[p].followers = proc[p].followers
              /\ proc'[p].todo = proc[p].todo /\ Position(p)' = i
            BY <1>b, <2>1, <2>4, GotoEffect, GotoType, Zenon DEF Working
        <3> HIDE DEF i
        <3>2. TypeOK'
            BY <1>b, <2>1, <2>4, <3>1, Zenon DEF TypeOK, ProcType, ProcSet
        <3>3. OrderInv'
            BY <1>a, <1>b, <2>1, <2>2, <3>1, Zenon DEF OrderInv, At, Working
        <3>4. LockInv'
            BY <1>a, <1>b, <2>1, <2>2, <3>1 DEF LockInv, At, Working, i
        <3>5. \A c \in ControlPlane : api'[c] = IF c = i THEN target ELSE api[c]
            BY <2>4, Zenon
        <3>6. VersionInv'
            <4>1. /\ \A h \in Hosts : kubelet[h] <= target
                  /\ \A c \in ControlPlane : c < i => api[c] = target
                BY <1>b, <2>1, Zenon DEF VersionInv, At, Working, i
            <4>2. \A h \in Hosts, c \in ControlPlane : kubelet[h] <= api'[c]
                BY <1>b, <3>5, <4>1, Zenon DEF VersionInv
            <4>3. /\ \A c \in ControlPlane : c < i => api'[c] = target
                  /\ i \in ControlPlane => api'[i] = target
                BY <3>5, <4>1, Zenon
            <4> QED BY <1>a, <1>b, <2>1, <3>1, <4>1, <4>2, <4>3, Zenon DEF VersionInv, At, Working
        <3>7. SkewInv'
            <4> SUFFICES ASSUME ~overruled PROVE SkewInv'
                BY <2>1, Zenon DEF SkewInv
            <4>1. \A c \in ControlPlane : api[c] \in {target - 1, target} /\ target - kubelet[c] <= 2
                BY <1>b, <2>1, Zenon DEF SkewInv, Working
            <4>2. \A c \in ControlPlane : api'[c] \in {target - 1, target}
                BY <3>5, <4>1, Zenon
            <4>3. \A c, d \in ControlPlane : api'[c] - api'[d] <= 1 /\ api'[c] - kubelet[d] <= 2
                <5> SUFFICES ASSUME NEW c \in ControlPlane, NEW d \in ControlPlane
                             PROVE  api'[c] - api'[d] <= 1 /\ api'[c] - kubelet[d] <= 2
                    BY Zenon
                <5>1. kubelet[d] \in Nat /\ target \in Nat /\ target - kubelet[d] <= 2
                    BY <1>c, <4>1, Zenon
                <5>2. api'[c] \in {target - 1, target} /\ api'[d] \in {target - 1, target}
                    BY <4>2, Zenon
                <5> QED BY <5>1, <5>2
            <4> QED BY <2>1, <4>1, <4>2, <4>3, Zenon DEF SkewInv
        <3> QED BY <3>2, <3>3, <3>4, <3>6, <3>7, Zenon
    <2> QED BY <1>6, <2>2, <2>3, <2>4, Zenon DEF kubeadmUpgrade
<1>7. ASSUME NEW p \in Processes, Uncordon(p) PROVE Inv'
    <2>1. /\ ProcType'
          /\ proc'[p].pc = "unlabel" /\ proc'[p].followers = proc[p].followers
          /\ proc'[p].todo = proc[p].todo /\ Position(p)' = Position(p)
        BY <1>b, <1>7, GotoEffect, GotoType, Zenon DEF Uncordon, TypeOK, At, Working
    <2>2. /\ Position(p) \in Hosts /\ Position(p) \in 1..N /\ Head(proc[p].todo) = Position(p)
          /\ proc[p].todo = InOrder(Position(p), N)
        BY <1>b, <1>7, Current, Zenon DEF OrderInv, At, Working, Uncordon
    <2>3. TypeOK'
        BY <1>b, <1>7, <2>1, <2>2, Zenon DEF Uncordon, TypeOK, ProcType, ProcSet, cluster
    <2>4. OrderInv'
        BY <1>a, <1>b, <1>c, <1>7, <2>1, <2>2, Zenon DEF Uncordon, OrderInv, At, Working
    <2>5. LockInv'
        BY <1>a, <1>b, <1>c, <1>7, <2>1, <2>2 DEF Uncordon, LockInv, At, Working, cluster
    <2>6. VersionInv'
        BY <1>a, <1>b, <1>c, <1>7, <2>1, <2>2 DEF Uncordon, VersionInv, At, Working, cluster
    <2>7. SkewInv'
        BY <1>a, <1>b, <1>c, <1>7, <2>1, <2>2, Zenon DEF Uncordon, VersionInv, SkewInv, At, Working, cluster
    <2> QED BY <2>3, <2>4, <2>5, <2>6, <2>7, Zenon
<1>8. ASSUME NEW p \in Processes, unlabelNode(p) PROVE Inv'
    <2> DEFINE i == Position(p)
    <2>1. /\ UNCHANGED <<api, kubelet, cordoned, migrated, target, faults, overruled>>
          /\ proc[p].pc = "unlabel"
        BY <1>8, Zenon DEF unlabelNode, At
    <2>2. i \in Hosts /\ i \in Nat /\ locked' = locked \ {i}
        BY <1>b, <1>8, <2>1, Current DEF unlabelNode, Working
    <2>3. /\ ProcType' /\ proc'[p].followers = proc[p].followers
          /\ \/ /\ i = N /\ proc'[p].pc = "kubelets"
                /\ proc'[p].todo = InOrder(1, N) /\ Position(p)' = 1
             \/ /\ i < N /\ proc'[p].pc = "label" /\ Position(p)' = i + 1
                /\ proc'[p].todo = InOrder(i + 1, N)
        BY <1>b, <1>8, UnlabelEffect, Zenon
    <2>4. /\ locked \subseteq Hosts /\ cordoned \subseteq locked \ {i} /\ locked \cap ControlPlane \subseteq {i}
          /\ \A h \in 1..(i - 1) : h \notin locked
        BY <1>b, <2>1, Zenon DEF TypeOK, LockInv, At, Working
    <2>5. /\ \A h \in Hosts : kubelet[h] <= target
          /\ \A c \in ControlPlane : c < i => api[c] = target
          /\ i \in ControlPlane => api[i] = target
        BY <1>b, <2>1, Zenon DEF VersionInv, At, Working
    <2> HIDE DEF i
    <2>6. TypeOK'
        BY <1>b, <2>1, <2>2, <2>3, Zenon DEF TypeOK, ProcType, ProcSet
    <2>7. SkewInv'
        BY <1>a, <1>b, <2>1, <2>3, Zenon DEF SkewInv, Working
    <2>8. CASE i = N
        <3>1. OrderInv'
            BY <1>a, <1>b, <1>c, <2>1, <2>3, <2>8 DEF OrderInv, At, Working
        <3>2. locked' = {} /\ cordoned' = {}
            <4>1. \A h \in locked : h = N
                BY <1>c, <2>4, <2>8
            <4> QED BY <2>1, <2>2, <2>4, <2>8, <4>1, Zenon
        <3>3. LockInv'
            BY <1>a, <2>3, <2>8, <3>2, Zenon DEF LockInv, At, Working
        <3>4. \A c \in ControlPlane : api[c] = target
            BY <1>c, <2>5, <2>8
        <3>5. VersionInv'
            BY <1>a, <1>b, <2>1, <2>3, <2>5, <2>8, <3>4 DEF VersionInv, At, Working
        <3> QED BY <2>6, <2>7, <3>1, <3>3, <3>5, Zenon
    <2>9. CASE i < N
        <3>1. /\ proc'[p].pc = "label" /\ Position(p)' = i + 1 /\ proc'[p].todo = InOrder(i + 1, N)
              /\ i + 1 \in Hosts
            BY <1>c, <2>2, <2>3, <2>9
        <3>2. OrderInv'
            BY <1>a, <1>b, <2>1, <2>3, <3>1, Zenon DEF OrderInv, At, Working
        <3>3. \A h \in 1..i : h \notin locked'
            BY <2>2, <2>4
        <3>4. LockInv'
            <4>1. i + 1 - 1 = i
                BY <2>2
            <4> QED BY <1>a, <1>b, <2>1, <2>2, <2>4, <3>1, <3>3, <4>1 DEF LockInv, At, Working
        <3>5. \A c \in ControlPlane : c < i + 1 => api[c] = target
            BY <1>c, <2>2, <2>5
        <3>6. VersionInv'
            BY <1>a, <1>b, <2>1, <2>5, <3>1, <3>5, Zenon DEF VersionInv, At, Working
        <3> QED BY <2>6, <2>7, <3>2, <3>4, <3>6, Zenon
    <2> QED BY <2>3, <2>8, <2>9, Zenon
<1>9. ASSUME NEW p \in Processes, updateAllKubelets(p) PROVE Inv'
    <2> DEFINE i == Position(p)
    <2>1. /\ UNCHANGED <<api, locked, cordoned, migrated, target, faults, overruled>>
          /\ proc[p].pc = "kubelets"
        BY <1>9, Zenon DEF updateAllKubelets, At
    <2>2. /\ ProcType' /\ proc'[p].followers = proc[p].followers
          /\ i \in Hosts /\ kubelet' = [kubelet EXCEPT ![i] = target]
          /\ \/ i = N /\ proc'[p].pc = "migrate"
             \/ /\ i < N /\ proc'[p].pc = "kubelets" /\ Position(p)' = i + 1
                /\ proc'[p].todo = InOrder(i + 1, N)
        BY <1>b, <1>9, KubeletsEffect, Zenon
    <2>3. /\ \A c \in ControlPlane : api[c] = target
          /\ \A h \in Hosts : kubelet[h] <= target
          /\ \A h \in 1..(i - 1) : kubelet[h] = target
          /\ \A g, h \in Hosts : g < h => kubelet[h] <= kubelet[g]
        BY <1>b, <2>1, Zenon DEF VersionInv, At
    <2>4. locked = {}
        BY <1>b, <2>1, Zenon DEF LockInv
    <2> HIDE DEF i
    <2>5. TypeOK'
        <3>1. kubelet' \in [Hosts -> Versions]
            BY <1>b, <2>2, Zenon DEF TypeOK
        <3> QED BY <1>b, <2>1, <2>2, <3>1, Zenon DEF TypeOK, ProcType, ProcSet
    <2>6. OrderInv'
        <3>1. i < N => i + 1 \in Hosts
            BY <1>c, <2>2
        <3> QED BY <1>a, <1>b, <2>1, <2>2, <3>1, Zenon DEF OrderInv, At, Working
    <2>7. LockInv'
        BY <1>a, <1>b, <2>1, <2>2, <2>4, Zenon DEF LockInv, At, Working
    <2>8. \A h \in Hosts : kubelet'[h] = IF h = i THEN target ELSE kubelet[h]
        BY <1>b, <2>2, Zenon DEF TypeOK
    <2>9. VersionInv'
        <3>1. \A h \in 1..i : kubelet'[h] = target
            BY <1>c, <2>2, <2>3, <2>8
        <3>2. /\ \A h \in Hosts : kubelet'[h] <= target
              /\ \A h \in Hosts, c \in ControlPlane : kubelet'[h] <= api[c]
            <4>1. target <= target
                BY <1>c
            <4>2. \A h \in Hosts : kubelet'[h] <= target
                BY <2>3, <2>8, <4>1, Zenon
            <4> QED BY <2>3, <4>2, Zenon
        <3>3. \A g, h \in Hosts : g < h => kubelet'[h] <= kubelet'[g]
            <4> SUFFICES ASSUME NEW g \in Hosts, NEW h \in Hosts, g < h PROVE kubelet'[h] <= kubelet'[g]
                BY Zenon
            <4>1. CASE g <= i
                BY <1>c, <2>2, <3>1, <3>2, <4>1
            <4>2. CASE g > i
                BY <1>c, <2>2, <2>3, <2>8, <4>2
            <4> QED BY <1>c, <2>2, <4>1, <4>2
        <3>4. CASE i = N
            BY <1>a, <1>c, <2>1, <2>2, <2>3, <3>1, <3>2, <3>3, <3>4 DEF VersionInv, At, Working
        <3>5. CASE i < N
            <4>1. Position(p)' - 1 = i
                BY <1>c, <2>2, <3>5
            <4> QED BY <1>a, <1>c, <2>1, <2>2, <2>3, <3>1, <3>2, <3>3, <3>5, <4>1, Zenon DEF VersionInv, At, Working
        <3> QED BY <2>2, <3>4, <3>5, Zenon
    <2>10. SkewInv'
        <3> SUFFICES ASSUME ~overruled PROVE SkewInv'
            BY <2>1, Zenon DEF SkewInv
        <3>1. \A c \in ControlPlane : target - kubelet'[c] <= 2
            <4>1. \A c \in ControlPlane : target - kubelet[c] <= 2
                BY <1>b, <2>1, Zenon DEF SkewInv
            <4> QED BY <1>c, <2>8, <4>1
        <3> QED BY <1>c, <2>1, <2>3, <3>1, Zenon DEF SkewInv
    <2> QED BY <2>5, <2>6, <2>7, <2>9, <2>10, Zenon
<1>10. ASSUME NEW p \in Processes, migratePVCAllocatedResourceStatus(p) PROVE Inv'
    <2>1. ProcType' /\ proc'[p].pc = "idle"
        BY <1>b, <1>10, ReturnEffect, ReturnType, Zenon DEF migratePVCAllocatedResourceStatus
    <2>3. TypeOK'
        BY <1>b, <1>10, <2>1, Zenon DEF migratePVCAllocatedResourceStatus, TypeOK, ProcType, ProcSet, cluster
    <2>4. OrderInv'
        BY <1>a, <1>b, <1>c, <1>10, <2>1, Zenon DEF migratePVCAllocatedResourceStatus, OrderInv, At, Working
    <2>5. LockInv'
        BY <1>a, <1>b, <1>c, <1>10, <2>1, Zenon DEF migratePVCAllocatedResourceStatus, LockInv, At, Working, cluster
    <2>6. VersionInv'
        BY <1>a, <1>b, <1>c, <1>10, <2>1, Zenon DEF migratePVCAllocatedResourceStatus, VersionInv, At, Working, cluster
    <2>7. SkewInv'
        BY <1>a, <1>b, <1>c, <1>10, <2>1, Zenon DEF migratePVCAllocatedResourceStatus, VersionInv, SkewInv, At, Working, cluster
    <2> QED BY <2>3, <2>4, <2>5, <2>6, <2>7, Zenon
<1>11. ASSUME NEW p \in Processes, Retry(p) PROVE Inv'
    <2>1. /\ UNCHANGED <<api, kubelet, locked, cordoned, migrated, target, overruled>>
          /\ faults' \in 0..MaxFaults
        <3>1. faults < MaxFaults /\ faults' = faults + 1 /\ UNCHANGED <<cluster, target, overruled>>
            BY <1>11, Zenon DEF Retry
        <3>2. faults \in 0..MaxFaults
            BY <1>b, Zenon DEF TypeOK
        <3>3. faults' \in 0..MaxFaults
            BY <3>1, <3>2, VersionsAssumption
        <3> QED BY <3>1, <3>3, Zenon DEF cluster
    <2>2. CASE /\ proc[p].pc \in {"cordon", "kubeadm", "uncordon", "unlabel"}
               /\ Goto(p, "label")
        <3>1. /\ ProcType' /\ proc'[p].pc = "label" /\ proc'[p].followers = proc[p].followers
              /\ proc'[p].todo = proc[p].todo /\ Position(p)' = Position(p)
            BY <1>b, <2>2, GotoEffect, GotoType, Zenon DEF TypeOK, Working
        <3>2. TypeOK'
            BY <1>b, <2>1, <3>1, Zenon DEF TypeOK, ProcType, ProcSet
        <3>3. OrderInv'
            BY <1>a, <1>b, <2>2, <3>1, Zenon DEF OrderInv, At, Working
        <3>4. LockInv'
            BY <1>a, <1>b, <2>1, <2>2, <3>1, Zenon DEF LockInv, At, Working
        <3>5. VersionInv' /\ SkewInv'
            BY <1>a, <1>b, <2>1, <2>2, <3>1 DEF VersionInv, SkewInv, At, Working
        <3> QED BY <3>2, <3>3, <3>4, <3>5, Zenon
    <2>3. CASE /\ At(p, "kubelets")
               /\ proc' = [proc EXCEPT ![p].todo = RunTaskOnAllNodes]
        <3>1. /\ ProcType' /\ proc'[p].pc = "kubelets" /\ proc'[p].followers = proc[p].followers
              /\ proc'[p].todo = InOrder(1, N) /\ Position(p)' = 1
            BY <1>b, <2>3, RetryEffect, Zenon
        <3>2. TypeOK'
            BY <1>b, <2>1, <3>1, Zenon DEF TypeOK, ProcType, ProcSet
        <3>3. OrderInv'
            BY <1>a, <1>b, <1>c, <2>3, <3>1, Zenon DEF OrderInv, At, Working
        <3>4. LockInv'
            BY <1>a, <1>b, <2>1, <2>3, <3>1, Zenon DEF LockInv, At, Working
        <3>5. VersionInv' /\ SkewInv'
            BY <1>a, <1>b, <2>1, <2>3, <3>1 DEF VersionInv, SkewInv, At, Working
        <3> QED BY <3>2, <3>3, <3>4, <3>5, Zenon
    <2> QED BY <1>11, <2>2, <2>3, Zenon DEF Retry
<1>12. ASSUME NEW p \in Processes, Stop(p) PROVE Inv'
    <2>1. /\ UNCHANGED <<api, kubelet, locked, cordoned, migrated, target, overruled>>
          /\ faults' \in 0..MaxFaults
        <3>1. faults < MaxFaults /\ faults' = faults + 1 /\ UNCHANGED <<cluster, target, overruled>>
            BY <1>12, Zenon DEF Stop
        <3>2. faults \in 0..MaxFaults
            BY <1>b, Zenon DEF TypeOK
        <3>3. faults' \in 0..MaxFaults
            BY <3>1, <3>2, VersionsAssumption
        <3> QED BY <3>1, <3>3, Zenon DEF cluster
    <2>2. ProcType' /\ proc'[p].pc = "idle"
        BY <1>b, <1>12, ReturnEffect, ReturnType, Zenon DEF Stop
    <2>3. TypeOK'
        BY <1>b, <2>1, <2>2, Zenon DEF TypeOK, ProcType, ProcSet
    <2>4. OrderInv' /\ LockInv' /\ VersionInv'
        BY <1>a, <1>b, <2>1, <2>2, ZenonT(30) DEF OrderInv, LockInv, VersionInv, At, Working
    <2>5. SkewInv'
        BY <1>a, <1>b, <2>1, <2>2, Zenon DEF SkewInv, Working
    <2> QED BY <2>3, <2>4, <2>5, Zenon
<1>13. ASSUME NEW version \in Versions, EditManifest(version) PROVE Inv'
    <2>1. TypeOK' /\ OrderInv'
        BY <1>a, <1>b, <1>13, Zenon DEF EditManifest, cluster, AllIdle, At, TypeOK, OrderInv, Position, Working
    <2>2. LockInv' /\ VersionInv' /\ SkewInv'
        BY <1>a, <1>b, <1>13, Zenon DEF EditManifest, cluster, AllIdle, At, LockInv, VersionInv, SkewInv, Position, Working
    <2> QED BY <2>1, <2>2, Zenon
<1>14. ASSUME NEW h \in Hosts, ClearLock(h) PROVE Inv'
    <2>1. TypeOK' /\ OrderInv'
        BY <1>a, <1>b, <1>14, Zenon DEF ClearLock, AllIdle, At, TypeOK, OrderInv, Position, Working
    <2>2. LockInv' /\ VersionInv' /\ SkewInv'
        BY <1>a, <1>b, <1>14, Zenon DEF ClearLock, AllIdle, At, LockInv, VersionInv, SkewInv, Position, Working
    <2> QED BY <2>1, <2>2, Zenon
<1>15. CASE UNCHANGED vars
    <2>1. TypeOK' /\ OrderInv' /\ LockInv' /\ VersionInv' /\ SkewInv'
        BY <1>a, <1>b, <1>15, ZenonT(30) DEF vars, TypeOK, OrderInv, LockInv, VersionInv, SkewInv, Position, At
    <2> QED BY <2>1, Zenon
<1> QED
    BY <1>1, <1>2, <1>3, <1>4, <1>5, <1>6, <1>7, <1>8, <1>9, <1>10, <1>11, <1>12, <1>13, <1>14, <1>15
    DEF Next, Step, Apply

LEMMA Invariant == ASSUME OneTerminal, ~Reelects PROVE Spec => []Inv
<1>1. Inv /\ [Next]_vars => Inv'
    BY InvNext, Zenon
<1> QED BY InitInv, <1>1, PTL DEF Spec

(* For any number of hosts, versions and faults, one control plane host at *)
(* most is locked or cordoned: the lock label that runPreflightChecks      *)
(* looks for stays on a host until it was upgraded or the operator has     *)
(* seen to it.                                                             *)
THEOREM LockHeld == ASSUME OneTerminal, ~Reelects PROVE Spec => []OneOut
<1>1. Inv => OneOut
    <2> SUFFICES ASSUME Inv PROVE OneOut
        BY Zenon
    <2> DEFINE out == (locked \cup cordoned) \cap ControlPlane
    <2>1. \A c, d \in out : c = d
        BY Zenon DEF Inv, LockInv
    <2> HIDE DEF out
    <2>2. CASE out = {}
        <3>1. Cardinality(out) = 0
            BY <2>2, FS_EmptySet, Zenon
        <3> QED BY <3>1 DEF OneOut, out
    <2>3. ASSUME NEW c \in out PROVE OneOut
        <3>1. out = {c}
            BY <2>1, <2>3, Zenon
        <3>2. Cardinality(out) = 1
            BY <3>1, FS_Singleton, Zenon
        <3> QED BY <3>2 DEF OneOut, out
    <2> QED BY <2>2, <2>3, Zenon
<1> QED BY Invariant, <1>1, PTL

(* For any number of hosts, versions and faults, and for any edits of the  *)
(* manifest: updateAllKubelets never overtakes an API server, and without  *)
(* --force-upgrade the version skew policy holds.                          *)
THEOREM SkewPolicy == ASSUME OneTerminal, ~Reelects PROVE Spec => []SkewKept
<1>1. Inv => SkewKept
    BY Zenon DEF Inv, VersionInv, SkewInv, SkewKept
<1> QED BY Invariant, <1>1, PTL

----------------------------------------------------------------------------
(* An upgrade that succeeds is complete.                                   *)

(* Without interruptions all components have one version between upgrades, *)
(* and the PVCs are migrated from MigrationVersion on.                     *)
Smooth(v) ==
    /\ v >= MigrationVersion => migrated
    /\ \A p \in Processes :
        /\ proc[p].pc \in {"idle", "probes"} =>
            (\A c \in ControlPlane : api[c] = v) /\ \A h \in Hosts : kubelet[h] = v
        /\ proc[p].pc \in {"preflight", "kubelets", "migrate"} \cup Working => proc[p].live = v
        /\ proc[p].pc \in {"preflight"} \cup Working =>
            /\ \A h \in Hosts : kubelet[h] = v
            /\ \A c \in ControlPlane : api[c] \in {v, target}
            /\ \A c \in ControlPlane : c > Position(p) => api[c] = v
        /\ proc[p].pc \in {"preflight", "label", "cordon", "kubeadm"} /\ Position(p) = 1 =>
            \A c \in ControlPlane : api[c] = v
        /\ \/ proc[p].pc \in {"uncordon", "unlabel", "kubelets", "migrate"}
           \/ proc[p].pc \in Working /\ Position(p) > 1
           => target \in {v, v + 1}
SmoothInv == faults = 0 => \E v \in Versions : Smooth(v)

(* One step of an upgrade without interruptions.                           *)
LEMMA SmoothNext ==
    ASSUME OneTerminal, ~Reelects, Inv, Inv', SmoothInv, [Next]_vars PROVE SmoothInv'
<1>a. \A p, q \in Processes : p = q
    BY Zenon DEF OneTerminal
<1>b. TypeOK /\ OrderInv /\ LockInv /\ VersionInv /\ SkewInv
    BY Zenon DEF Inv
<1>c. /\ api \in [ControlPlane -> Nat] /\ kubelet \in [Hosts -> Nat] /\ target \in Nat
      /\ ControlPlane \subseteq Hosts /\ Hosts = 1..N /\ N \in Nat /\ 1 \in ControlPlane
      /\ faults \in Nat /\ target \in Versions /\ Versions \subseteq Nat /\ MigrationVersion \in Nat
    BY <1>b, HostsFacts, VersionsAssumption DEF TypeOK
<1> SUFFICES ASSUME faults' = 0 PROVE \E v \in Versions : Smooth(v)'
    BY Zenon DEF SmoothInv
<1>d. faults = 0 /\ \A p \in Processes : ~Retry(p) /\ ~Stop(p)
    <2>1. faults' = faults \/ faults' = faults + 1
        BY Zenon DEF Next, Step, Apply, runApply, runProbes, runPreflightChecks, labelNode, CordonAndDrain,
           kubeadmUpgrade, Uncordon, unlabelNode, updateAllKubelets,
           migratePVCAllocatedResourceStatus, Retry, Stop, EditManifest, ClearLock, vars
    <2>2. faults = 0
        BY <1>c, <2>1
    <2>3. faults' # faults + 1
        BY <2>2
    <2> QED BY <2>2, <2>3, Zenon DEF Retry, Stop
<1>e. PICK v \in Versions : Smooth(v)
    BY <1>d, Zenon DEF SmoothInv
<1>1. ASSUME NEW p \in Processes, NEW force \in Flags, runApply(p, force) PROVE Smooth(v)'
    <2>1. UNCHANGED <<api, kubelet, migrated>> /\ proc[p].pc = "idle" /\ proc'[p].pc \in {"idle", "probes"}
        BY <1>b, <1>1, ApplyEffect, SwitchAssumption, Zenon DEF runApply, cluster, At
    <2> QED BY <1>a, <1>e, <2>1, Zenon DEF Smooth, Working
<1>2. ASSUME NEW p \in Processes, runProbes(p) PROVE Smooth(v)'
    <2>1. /\ UNCHANGED <<api, kubelet, migrated, target>> /\ proc[p].pc = "probes"
          /\ proc'[p].pc = "preflight" /\ proc'[p].live = kubelet[1]
        BY <1>b, <1>2, ProbesEffect, Zenon DEF runProbes, cluster, At
    <2>2. (\A c \in ControlPlane : api[c] = v) /\ \A h \in Hosts : kubelet[h] = v
        BY <1>e, <2>1, Zenon DEF Smooth
    <2> QED BY <1>a, <1>c, <1>e, <2>1, <2>2, Zenon DEF Smooth, Working
<1>3. ASSUME NEW p \in Processes, runPreflightChecks(p) PROVE Smooth(v)'
    <2>1. UNCHANGED <<api, kubelet, migrated, target>> /\ proc[p].pc = "preflight" /\ Position(p) = 1
        BY <1>b, <1>3, Zenon DEF runPreflightChecks, cluster, At, OrderInv
    <2>2. /\ (\A c \in ControlPlane : api[c] = v) /\ \A h \in Hosts : kubelet[h] = v
          /\ proc[p].live = v
        BY <1>e, <2>1, Zenon DEF Smooth
    <2>3. CASE Return(p, "error")
        <3>1. proc'[p].pc = "idle"
            BY <1>b, <2>3, ReturnEffect, Zenon
        <3> QED BY <1>a, <1>e, <2>1, <2>2, <3>1, Zenon DEF Smooth, Working
    <2>4. CASE Goto(p, "label")
        <3>1. proc'[p].pc = "label" /\ proc'[p].live = proc[p].live /\ Position(p)' = 1
            BY <1>b, <2>1, <2>4, GotoEffect, Zenon DEF Working
        <3> QED BY <1>a, <1>e, <2>1, <2>2, <3>1 DEF Smooth, Working
    <2> QED BY <1>3, <2>3, <2>4, Zenon DEF runPreflightChecks
<1>4. ASSUME NEW p \in Processes, labelNode(p) PROVE Smooth(v)'
    <2>1. UNCHANGED <<api, kubelet, migrated, target>> /\ proc[p].pc = "label"
        BY <1>4, Zenon DEF labelNode, At
    <2>2. proc'[p].pc = "cordon" /\ proc'[p].live = proc[p].live /\ Position(p)' = Position(p)
        BY <1>b, <1>4, GotoEffect, Zenon DEF labelNode, Working
    <2> QED BY <1>a, <1>e, <2>1, <2>2 DEF Smooth, Working
<1>5. ASSUME NEW p \in Processes, CordonAndDrain(p) PROVE Smooth(v)'
    <2>1. UNCHANGED <<api, kubelet, migrated, target>> /\ proc[p].pc = "cordon"
        BY <1>5, Zenon DEF CordonAndDrain, At
    <2>2. proc'[p].pc = "kubeadm" /\ proc'[p].live = proc[p].live /\ Position(p)' = Position(p)
        BY <1>b, <1>5, GotoEffect, Zenon DEF CordonAndDrain, Working
    <2> QED BY <1>a, <1>e, <2>1, <2>2 DEF Smooth, Working
<1>6. ASSUME NEW p \in Processes, kubeadmUpgrade(p) PROVE Smooth(v)'
    <2> DEFINE i == Position(p)
    <2>1. UNCHANGED <<kubelet, migrated, target>> /\ proc[p].pc = "kubeadm"
        BY <1>6, Zenon DEF kubeadmUpgrade, At
    <2>2. i \in Hosts /\ i \in 1..N /\ Head(proc[p].todo) = i
        BY <1>b, <2>1, Current, Zenon DEF Working
    <2>3. IsLeader(p) <=> i = 1
        <3>1. /\ Len(Workers) = NumWorkers /\ Len(proc[p].followers) = NumControlPlane - 1
              /\ Len(proc[p].todo) \in Nat
            <4>1. proc[p].followers = InOrder(2, NumControlPlane)
                BY <1>b, <2>1, Zenon DEF OrderInv, At
            <4>2. Len(proc[p].todo) \in Nat
                BY <1>b DEF TypeOK
            <4> QED BY <4>1, <4>2, AllInOrder, Zenon
        <3> QED BY <3>1, HostsFacts DEF IsLeader, N, Position
    <2>4. /\ \A h \in Hosts : kubelet[h] = v
          /\ \A c \in ControlPlane : api[c] \in {v, target}
          /\ \A c \in ControlPlane : c > i => api[c] = v
          /\ proc[p].live = v
          /\ i = 1 => \A c \in ControlPlane : api[c] = v
          /\ i > 1 => target \in {v, v + 1}
        BY <1>e, <2>1, Zenon DEF Smooth, Working
    <2>5. KubeadmAccepts(p, i) <=> (i = 1 => v <= target /\ target <= v + 1)
        BY <1>c, <2>3, <2>4, Zenon DEF KubeadmAccepts
    <2> HIDE DEF i
    <2>6. CASE ~KubeadmAccepts(p, i)
        <3>1. Return(p, "error") /\ UNCHANGED api
            BY <1>6, <2>2, <2>6, Zenon DEF kubeadmUpgrade
        <3>2. proc'[p].pc = "idle"
            BY <1>b, <3>1, ReturnEffect, Zenon
        <3> QED BY <1>a, <1>e, <2>1, <2>4, <2>5, <2>6, <3>1, <3>2, Zenon DEF Smooth, Working
    <2>7. CASE KubeadmAccepts(p, i)
        <3>1. /\ api' = [c \in ControlPlane |-> IF c = i THEN target ELSE api[c]]
              /\ Goto(p, "uncordon")
            BY <1>6, <2>2, <2>7, Zenon DEF kubeadmUpgrade
        <3>2. proc'[p].pc = "uncordon" /\ proc'[p].live = proc[p].live /\ Position(p)' = i
            BY <1>b, <3>1, GotoEffect, Zenon DEF Working, i
        <3>3. /\ \A c \in ControlPlane : api'[c] \in {v, target}
              /\ \A c \in ControlPlane : c > i => api'[c] = v
            BY <1>c, <2>2, <2>4, <3>1
        <3>4. target \in {v, v + 1}
            BY <1>c, <2>2, <2>4, <2>5, <2>7
        <3> QED BY <1>a, <1>e, <2>1, <2>4, <3>2, <3>3, <3>4, Zenon DEF Smooth, Working
    <2> QED BY <2>6, <2>7, Zenon
<1>7. ASSUME NEW p \in Processes, Uncordon(p) PROVE Smooth(v)'
    <2>1. UNCHANGED <<api, kubelet, migrated, target>> /\ proc[p].pc = "uncordon"
        BY <1>7, Zenon DEF Uncordon, At
    <2>2. proc'[p].pc = "unlabel" /\ proc'[p].live = proc[p].live /\ Position(p)' = Position(p)
        BY <1>b, <1>7, GotoEffect, Zenon DEF Uncordon, Working
    <2> QED BY <1>a, <1>e, <2>1, <2>2 DEF Smooth, Working
<1>8. ASSUME NEW p \in Processes, unlabelNode(p) PROVE Smooth(v)'
    <2> DEFINE i == Position(p)
    <2>1. UNCHANGED <<api, kubelet, migrated, target>> /\ proc[p].pc = "unlabel"
        BY <1>8, Zenon DEF unlabelNode, At
    <2>2. /\ proc'[p].live = proc[p].live
          /\ \/ proc'[p].pc = "kubelets"
             \/ proc'[p].pc = "label" /\ Position(p)' = i + 1
        BY <1>b, <1>8, UnlabelEffect, Zenon
    <2>3. i \in 1..N
        BY <1>b, <2>1, Current, Zenon DEF Working
    <2>4. /\ \A h \in Hosts : kubelet[h] = v
          /\ \A c \in ControlPlane : api[c] \in {v, target}
          /\ \A c \in ControlPlane : c > i => api[c] = v
          /\ proc[p].live = v /\ target \in {v, v + 1}
        BY <1>e, <2>1, Zenon DEF Smooth, Working
    <2> HIDE DEF i
    <2>5. i + 1 # 1 /\ \A c \in ControlPlane : c > i + 1 => api[c] = v
        BY <1>c, <2>3, <2>4
    <2> QED BY <1>a, <1>e, <2>1, <2>2, <2>4, <2>5 DEF Smooth, Working
<1>9. ASSUME NEW p \in Processes, updateAllKubelets(p) PROVE Smooth(v)'
    <2>1. UNCHANGED <<api, migrated, target>> /\ proc[p].pc = "kubelets"
        BY <1>9, Zenon DEF updateAllKubelets, At
    <2>2. proc'[p].live = proc[p].live /\ proc'[p].pc \in {"kubelets", "migrate"}
        BY <1>b, <1>9, KubeletsEffect, Zenon
    <2> QED BY <1>a, <1>e, <2>1, <2>2, Zenon DEF Smooth, Working
<1>10. ASSUME NEW p \in Processes, migratePVCAllocatedResourceStatus(p)
       PROVE  \E w \in Versions : Smooth(w)'
    <2>0. PICK w \in Versions : w = target
        BY <1>c, Zenon
    <2>1. /\ UNCHANGED <<api, kubelet, target>> /\ proc[p].pc = "migrate"
          /\ migrated' = (migrated \/ (target = MigrationVersion /\ proc[p].live = MigrationVersion - 1))
        BY <1>10, Zenon DEF migratePVCAllocatedResourceStatus, At
    <2>2. proc'[p].pc = "idle"
        BY <1>b, <1>10, ReturnEffect, Zenon DEF migratePVCAllocatedResourceStatus
    <2>3. (\A c \in ControlPlane : api[c] = target) /\ \A h \in Hosts : kubelet[h] = target
        BY <1>b, <2>1, Zenon DEF VersionInv, At
    <2>4. proc[p].live = v /\ target \in {v, v + 1} /\ (v >= MigrationVersion => migrated)
        BY <1>e, <2>1, Zenon DEF Smooth
    <2>5. target >= MigrationVersion => migrated'
        <3>1. v \in Nat
            BY <1>c, <1>e, Zenon
        <3>2. target >= MigrationVersion =>
                v >= MigrationVersion \/ (target = MigrationVersion /\ v = MigrationVersion - 1)
            BY <1>c, <2>4, <3>1
        <3> QED BY <2>1, <2>4, <3>2, Zenon
    <2>6. Smooth(w)'
        BY <1>a, <2>0, <2>1, <2>2, <2>3, <2>5, Zenon DEF Smooth, Working
    <2> QED BY <2>0, <2>6, Zenon
<1>11. ASSUME NEW version \in Versions, EditManifest(version) PROVE Smooth(v)'
    <2>1. UNCHANGED <<api, kubelet, migrated, proc>> /\ \A p \in Processes : proc[p].pc = "idle"
        BY <1>11, Zenon DEF EditManifest, cluster, AllIdle, At
    <2> QED BY <1>e, <2>1, Zenon DEF Smooth, Working
<1>12. CASE (\E h \in Hosts : ClearLock(h)) \/ UNCHANGED vars
    <2>1. UNCHANGED <<api, kubelet, migrated, target, proc>>
        BY <1>12, Zenon DEF ClearLock, vars
    <2> QED BY <1>e, <2>1 DEF Smooth, Position
<1> QED
    <2>1. ASSUME Smooth(v)' PROVE \E w \in Versions : Smooth(w)'
        BY <1>e, <2>1, Zenon
    <2> QED
        BY <1>1, <1>2, <1>3, <1>4, <1>5, <1>6, <1>7, <1>8, <1>9, <1>10, <1>11, <1>12, <1>d, <2>1
        DEF Next, Step, Apply

(* For any number of hosts, versions and faults, an upgrade that succeeds  *)
(* is complete, whatever earlier attempts left behind, and has migrated    *)
(* the PVCs if nothing was interrupted.                                    *)
THEOREM UpgradeComplete ==
    ASSUME OneTerminal, ~Reelects, MigrationVersion > 1 PROVE Spec => Completed
<1> DEFINE Good ==
        \A p \in Processes : At(p, "migrate") /\ proc'[p].outcome = "ok" =>
          /\ \A c \in ControlPlane : api'[c] = target'
          /\ \A h \in Hosts : kubelet'[h] = target'
          /\ locked' = {} /\ cordoned' = {}
          /\ faults = 0 /\ target' = MigrationVersion => migrated'
<1>1. Init => SmoothInv
    <2> SUFFICES ASSUME Init PROVE Smooth(1) /\ 1 \in Versions
        BY Zenon DEF SmoothInv
    <2>1. 1 \in Versions /\ ~ (1 >= MigrationVersion)
        BY HostsFacts, VersionsAssumption
    <2>2. \A p \in Processes : proc[p].pc = "idle"
        BY Zenon DEF Init, Idle
    <2> QED BY <2>1, <2>2, Zenon DEF Init, Smooth, Working
<1>2. Inv /\ Inv' /\ SmoothInv /\ [Next]_vars => SmoothInv'
    BY SmoothNext, Zenon
<1>3. Inv /\ SmoothInv /\ [Next]_vars => [Good]_vars
    <2> SUFFICES ASSUME Inv, SmoothInv, Next, NEW p \in Processes,
                        At(p, "migrate"), proc'[p].outcome = "ok"
                 PROVE  /\ \A c \in ControlPlane : api'[c] = target'
                        /\ \A h \in Hosts : kubelet'[h] = target'
                        /\ locked' = {} /\ cordoned' = {}
                        /\ faults = 0 /\ target' = MigrationVersion => migrated'
        BY Zenon
    <2>1. TypeOK /\ LockInv /\ VersionInv /\ \A q \in Processes : q = p
        BY Zenon DEF Inv, OneTerminal
    <2>2. ~Stop(p)
        BY <2>1, ReturnEffect, Zenon DEF Stop
    <2>3. migratePVCAllocatedResourceStatus(p)
        BY <2>1, <2>2, Zenon
        DEF Next, Step, Apply, At, AllIdle, runApply, runProbes, runPreflightChecks, labelNode,
            CordonAndDrain, kubeadmUpgrade, Uncordon, unlabelNode, updateAllKubelets, Retry,
            EditManifest, ClearLock
    <2>4. /\ UNCHANGED <<api, kubelet, locked, cordoned, target>>
          /\ migrated' = (migrated \/ (target = MigrationVersion /\ proc[p].live = MigrationVersion - 1))
        BY <2>3, Zenon DEF migratePVCAllocatedResourceStatus
    <2>5. /\ \A c \in ControlPlane : api'[c] = target'
          /\ \A h \in Hosts : kubelet'[h] = target'
        BY <2>1, <2>4, Zenon DEF VersionInv, At
    <2>6. locked' = {} /\ cordoned' = {}
        BY <2>1, <2>4, Zenon DEF LockInv, At
    <2>7. faults = 0 /\ target = MigrationVersion => migrated'
        <3> SUFFICES ASSUME faults = 0, target = MigrationVersion PROVE migrated'
            BY Zenon
        <3>1. PICK v \in Versions : Smooth(v)
            BY Zenon DEF SmoothInv
        <3>2. proc[p].live = v /\ target \in {v, v + 1} /\ (v >= MigrationVersion => migrated)
            BY <3>1, Zenon DEF Smooth, At
        <3>3. v \in Nat /\ MigrationVersion \in Nat
            BY HostsFacts, VersionsAssumption
        <3>4. v >= MigrationVersion \/ v = MigrationVersion - 1
            BY <3>2, <3>3
        <3> QED BY <2>4, <3>2, <3>4, Zenon
    <2> QED BY <2>4, <2>5, <2>6, <2>7, Zenon
<1>4. Spec => []Inv
    BY Invariant, Zenon
<1> QED BY <1>1, <1>2, <1>3, <1>4, PTL DEF Spec, Completed
=============================================================================
