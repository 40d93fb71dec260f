----------------------------- MODULE GCEProofs -----------------------------
(***************************************************************************)
(* For any number of machines in any zones: a machine joins the cluster    *)
(* from outside of the load balancer, no step of kubeone apply takes the   *)
(* last healthy member from it, apply ends with every member behind it,    *)
(* and reset leaves nothing behind.                                        *)
(***************************************************************************)
EXTENDS GCEControlPlane, SequenceTheorems, WellFoundedInduction, TLAPS

(* The Node object of a VM that is lost goes with it, and no attempt of    *)
(* EnsureVM on the first machine fails after it has listed the host.       *)
Careful == \A w \in Worlds : "staleNode" \notin w /\ "retriedEndpoint" \notin w

(* Nobody else has a forwarding rule of the name.                          *)
OwnRule == \A T \in Taken : "forwardingRule" \notin T

LBSet == {LBParts[i] : i \in DOMAIN LBParts}

Creating == {"vm", "leader", "attach"}
Installing == {"probe", "reprobe", "init", "repair", "removeJoining", "detach", "join", "members",
               "workers"}

----------------------------------------------------------------------------
(* The cloud and the cluster.  A machine has one endpoint at most, because *)
(* ensureEndpoint removes an old one before it adds the new; without the   *)
(* load balancer nothing but firewalls is created.                         *)
CloudInv ==
    /\ foreign \in Taken /\ world \in Worlds
    /\ resources \subseteq LBSet \cup Zones
    /\ UserEndpoint => resources \subseteq {"apiFirewall", "healthCheckFirewall"}
    /\ backends \subseteq Zones \cap resources
    /\ endpoints \subseteq Machines \X IPs
    /\ \A e \in endpoints : Zone[e[1]] \in resources
    /\ \A e, f \in endpoints : e[1] = f[1] => e = f
    /\ vms \subseteq Machines /\ ip \in [Machines -> IPs]
    /\ joined \subseteq vms /\ down \subseteq joined
    /\ nodes \subseteq Machines /\ joined \subseteq nodes
    /\ joined # {} /\ ~resetting => nodes \subseteq joined

(* Where the process is: the hosts that EnsureVM lists are the machines in *)
(* their order.                                                            *)
PositionInv ==
    /\ pc \in Ended \cup Applying \cup Resetting
    /\ at \in Nat \ {0}
    /\ pc \in Applying => ~resetting
    /\ pc \in Resetting => resetting
    /\ hosts \in Seq(Machines) /\ \A i \in 1..Len(hosts) : hosts[i] = i
    /\ live \subseteq Machines /\ leader \in Machines
    /\ pc = "lb" => Len(hosts) = 0
    /\ pc = "vm" => at <= N + 1 /\ Len(hosts) = at - 1
    /\ pc \in {"leader", "attach"} => at <= N /\ Len(hosts) = at
    /\ pc \in Installing => Len(hosts) = N

(* The parts of the load balancer are created before the first machine.    *)
LoadBalancerInv ==
    /\ pc = "lb" => \A i \in DOMAIN LBParts : i < at => LBParts[i] \in resources
    /\ pc \in Creating \cup Installing => LBSet \subseteq resources
    /\ pc = "attach" => Managed

(* What the probes have found stays true of the machines, but for those    *)
(* that are lost: none is created after them.                              *)
ProbedInv ==
    /\ pc \in {"lb", "probe"} \cup Creating => live = {}
    /\ pc \in Installing => \A m \in live : m \in joined \/ m \notin vms
    /\ pc \in {"init", "repair", "removeJoining", "detach"} => joined \subseteq live \cup {leader}

(* The leader is behind the load balancer and those that join are not.     *)
JoinInv ==
    /\ pc \in {"detach", "join"} /\ Managed /\ leader \in joined => HasEndpoint(leader)
    /\ pc = "join" /\ Managed => \A m \in vms \ joined : m # leader => ~Behind(m)
    /\ pc = "members" /\ Managed => \A m \in joined : m < at => HasEndpoint(m)
    /\ pc = "workers" /\ Managed => \A m \in joined : HasEndpoint(m)

(* The cleanup has been through with the first machines and resources.     *)
ResetInv ==
    /\ pc = "resetNodes" => \A m \in joined : at <= m
    /\ pc = "destroyVMs" => \A m \in vms : at <= m
    /\ pc = "destroyLB" => /\ vms = {} /\ withLB
                           /\ \A i \in DOMAIN CleanupOrder : i < at => CleanupOrder[i] \notin resources
    /\ pc \in {"destroyVMs", "destroyLB"} /\ OwnRule /\ apiHost = "other" => UserEndpoint

Inv == CloudInv /\ PositionInv /\ LoadBalancerInv /\ ProbedInv /\ JoinInv /\ ResetInv

----------------------------------------------------------------------------
(* The lists that the tasks go through.                                    *)

Parts == {"apiFirewall", "healthCheckFirewall", "address", "healthCheck", "backendService",
          "forwardingRule"}

(* A concatenation has the elements of both sequences.                     *)
LEMMA Elements ==
    ASSUME NEW S, NEW s \in Seq(S), NEW t \in Seq(S)
    PROVE  /\ s \o t \in Seq(S)
           /\ \A i \in 1..Len(s) : \E k \in 1..Len(s \o t) : (s \o t)[k] = s[i]
           /\ \A i \in 1..Len(t) : \E k \in 1..Len(s \o t) : (s \o t)[k] = t[i]
<1> DEFINE c == s \o t
<1>1. /\ c \in Seq(S) /\ Len(c) = Len(s) + Len(t)
      /\ \A i \in 1..Len(s) + Len(t) : c[i] = IF i <= Len(s) THEN s[i] ELSE t[i - Len(s)]
  BY ConcatProperties, Zenon
<1>2. Len(s) \in Nat /\ Len(t) \in Nat
  BY LenProperties, Zenon
<1> HIDE DEF c
<1>3. \A i \in 1..Len(s) : i \in 1..Len(c) /\ c[i] = s[i]
  BY <1>1, <1>2
<1>4. ASSUME NEW i \in 1..Len(t) PROVE i + Len(s) \in 1..Len(c) /\ c[i + Len(s)] = t[i]
  <2>1. i + Len(s) \in 1..Len(s) + Len(t) /\ ~(i + Len(s) <= Len(s)) /\ (i + Len(s)) - Len(s) = i
    BY <1>2
  <2> QED BY <1>1, <2>1, Zenon
<1>5. c \in Seq(S) /\ (\A i \in 1..Len(s) : \E k \in 1..Len(c) : c[k] = s[i])
      /\ \A i \in 1..Len(t) : \E k \in 1..Len(c) : c[k] = t[i]
  BY <1>1, <1>3, <1>4, Zenon
<1> QED BY <1>5, Zenon DEF c

(* The firewalls, and the parts of the load balancer with them.            *)
LEMMA LBPartsAre ==
    /\ LBParts \in Seq(Parts) /\ DOMAIN LBParts = 1..Len(LBParts) /\ Len(LBParts) \in Nat
    /\ UserEndpoint => LBSet = {"apiFirewall", "healthCheckFirewall"}
    /\ ~UserEndpoint => LBSet = Parts
<1> DEFINE four == <<"address", "healthCheck", "backendService", "forwardingRule">>
<1> DEFINE six == Firewalls \o four
<1>1. /\ Firewalls \in Seq(Parts) /\ Len(Firewalls) = 2
      /\ Firewalls[1] = "apiFirewall" /\ Firewalls[2] = "healthCheckFirewall"
  BY DEF Firewalls, Parts
<1>2. /\ four \in Seq(Parts) /\ Len(four) = 4 /\ four[1] = "address" /\ four[2] = "healthCheck"
      /\ four[3] = "backendService" /\ four[4] = "forwardingRule"
  BY DEF Parts
<1> HIDE DEF four
<1>3. /\ six \in Seq(Parts)
      /\ \A i \in 1..Len(Firewalls) : \E k \in 1..Len(six) : six[k] = Firewalls[i]
      /\ \A i \in 1..Len(four) : \E k \in 1..Len(six) : six[k] = four[i]
  <2>1. Firewalls \in Seq(Parts) /\ four \in Seq(Parts)
    BY <1>1, <1>2, Zenon
  <2> QED BY <2>1, Elements
<1>4. LBParts = IF UserEndpoint THEN Firewalls ELSE six
  BY Zenon DEF LBParts, four
<1> HIDE DEF six
<1>5. \A s \in Seq(Parts) : /\ DOMAIN s = 1..Len(s) /\ Len(s) \in Nat
                            /\ \A i \in 1..Len(s) : s[i] \in Parts
  BY LenProperties, ElementOfSeq, Zenon
<1>6. \A p \in Parts : \E k \in 1..Len(six) : six[k] = p
  <2>1. 1 \in 1..2 /\ 2 \in 1..2 /\ 1 \in 1..4 /\ 2 \in 1..4 /\ 3 \in 1..4 /\ 4 \in 1..4
    OBVIOUS
  <2> QED BY <1>1, <1>2, <1>3, <2>1 DEF Parts
<1>7. ~UserEndpoint => LBSet = Parts
  BY <1>3, <1>4, <1>5, <1>6 DEF LBSet
<1>8. UserEndpoint => LBSet = {"apiFirewall", "healthCheckFirewall"}
  <2>1. UserEndpoint => LBSet = {Firewalls[i] : i \in 1..2}
    BY <1>1, <1>4, <1>5, Zenon DEF LBSet
  <2> QED BY <1>1, <2>1
<1> QED BY <1>1, <1>3, <1>4, <1>5, <1>7, <1>8, Zenon

(* The cleanup goes through everything that kubeone creates, unless the    *)
(* API endpoint is not the load balancer's.                                *)
LEMMA CleanupOrderIs ==
    /\ CleanupOrder \in Seq(Parts \cup Zones) /\ DOMAIN CleanupOrder = 1..Len(CleanupOrder)
    /\ Len(CleanupOrder) \in Nat
    /\ \A p \in {"apiFirewall", "healthCheckFirewall"} : \E i \in 1..Len(CleanupOrder) : CleanupOrder[i] = p
    /\ apiHost # "other" => \A p \in Parts \cup Zones : \E i \in 1..Len(CleanupOrder) : CleanupOrder[i] = p
<1> DEFINE S == Parts \cup Zones
<1> DEFINE a == <<"forwardingRule", "backendService">>
<1> DEFINE z == [m \in Machines |-> Zone[m]]
<1> DEFINE b == <<"healthCheck", "address">>
<1> DEFINE az == a \o z
<1> DEFINE azb == az \o b
<1> DEFINE all == azb \o Firewalls
<1>1. /\ Firewalls \in Seq(S) /\ Len(Firewalls) = 2
      /\ Firewalls[1] = "apiFirewall" /\ Firewalls[2] = "healthCheckFirewall"
  BY DEF Firewalls, Parts
<1>2. a \in Seq(S) /\ Len(a) = 2 /\ a[1] = "forwardingRule" /\ a[2] = "backendService"
  BY DEF Parts
<1>3. b \in Seq(S) /\ Len(b) = 2 /\ b[1] = "healthCheck" /\ b[2] = "address"
  BY DEF Parts
<1>4. z \in Seq(S) /\ Len(z) = N /\ \A m \in 1..N : z[m] = Zone[m]
  <2>1. z \in [1..N -> S] /\ N \in Nat
    BY MachinesAssumption, Zenon DEF Machines
  <2>2. z \in Seq(S) /\ DOMAIN z = 1..N
    BY <2>1, SeqDef
  <2> QED BY <2>1, <2>2, LenProperties DEF Machines
<1> HIDE DEF a, z, b, S
<1>5. /\ az \in Seq(S)
      /\ \A i \in 1..Len(a) : \E k \in 1..Len(az) : az[k] = a[i]
      /\ \A i \in 1..Len(z) : \E k \in 1..Len(az) : az[k] = z[i]
  <2>1. a \in Seq(S) /\ z \in Seq(S)
    BY <1>2, <1>4, Zenon
  <2> QED BY <2>1, Elements
<1> HIDE DEF az
<1>6. /\ azb \in Seq(S)
      /\ \A i \in 1..Len(az) : \E k \in 1..Len(azb) : azb[k] = az[i]
      /\ \A i \in 1..Len(b) : \E k \in 1..Len(azb) : azb[k] = b[i]
  <2>1. az \in Seq(S) /\ b \in Seq(S)
    BY <1>3, <1>5, Zenon
  <2> QED BY <2>1, Elements
<1> HIDE DEF azb
<1>7. /\ all \in Seq(S)
      /\ \A i \in 1..Len(azb) : \E k \in 1..Len(all) : all[k] = azb[i]
      /\ \A i \in 1..Len(Firewalls) : \E k \in 1..Len(all) : all[k] = Firewalls[i]
  <2>1. azb \in Seq(S) /\ Firewalls \in Seq(S)
    BY <1>1, <1>6, Zenon
  <2> QED BY <2>1, Elements
<1>8. CleanupOrder = IF apiHost = "other" /\ "address" \in resources \cup foreign THEN Firewalls ELSE all
  BY Zenon DEF CleanupOrder, a, z, b, az, azb, all
<1> HIDE DEF all
<1>9. \A s \in Seq(S) : DOMAIN s = 1..Len(s) /\ Len(s) \in Nat
  BY LenProperties, Zenon
<1>10. 1 \in 1..2 /\ 2 \in 1..2
  OBVIOUS
<1>11. \A p \in {"apiFirewall", "healthCheckFirewall"} :
          /\ \E i \in 1..Len(Firewalls) : Firewalls[i] = p
          /\ \E i \in 1..Len(all) : all[i] = p
  BY <1>1, <1>7, <1>10
<1>12. \A p \in {"healthCheck", "address"} : \E i \in 1..Len(all) : all[i] = p
  BY <1>3, <1>6, <1>7, <1>10
<1>13. \A p \in {"forwardingRule", "backendService"} : \E i \in 1..Len(all) : all[i] = p
  <2>1. \A i \in 1..2 : \E k \in 1..Len(azb) : azb[k] = a[i]
    BY <1>2, <1>5, <1>6
  <2>2. \A i \in 1..2 : \E k \in 1..Len(all) : all[k] = a[i]
    BY <1>7, <2>1
  <2> QED BY <1>2, <1>10, <2>2, Zenon
<1>14. \A p \in Zones : \E i \in 1..Len(all) : all[i] = p
  <2>1. \A i \in 1..N : \E k \in 1..Len(azb) : azb[k] = z[i]
    <3>1. \A i \in 1..N : \E k \in 1..Len(az) : az[k] = z[i]
      BY <1>4, <1>5, Zenon
    <3> QED BY <1>6, <3>1, Zenon
  <2>2. \A i \in 1..N : \E k \in 1..Len(all) : all[k] = z[i]
    BY <1>7, <2>1, Zenon
  <2> QED BY <1>4, <2>2, Zenon DEF Zones, Machines
<1>15. \A p \in S : \E i \in 1..Len(all) : all[i] = p
  BY <1>11, <1>12, <1>13, <1>14 DEF S, Parts
<1> QED BY <1>1, <1>7, <1>8, <1>9, <1>11, <1>15, Zenon DEF S

----------------------------------------------------------------------------
(* The circumstances of a behaviour do not change.                         *)
LEMMA SameWorld ==
    ASSUME world' = world
    PROVE  (UserEndpoint' <=> UserEndpoint) /\ LBParts' = LBParts /\ LBSet' = LBSet
<1>1. UserEndpoint' <=> UserEndpoint
  BY Zenon DEF UserEndpoint
<1>2. LBParts' = LBParts
  BY <1>1, Zenon DEF LBParts, Firewalls
<1> QED BY <1>1, <1>2, Zenon DEF LBSet

(* The backend service is one of the parts that are not created for an API *)
(* endpoint of the user's own.                                             *)
LEMMA ManagedHasLB ==
    ASSUME CloudInv
    PROVE  /\ Managed => ~UserEndpoint
           /\ UserEndpoint => endpoints = {} /\ backends = {}
<1>1. \A z \in Zones : z \notin Parts
  BY MachinesAssumption, Zenon DEF Parts
<1>2. \A e \in endpoints : Zone[e[1]] \in Zones /\ Zone[e[1]] \in resources
  BY MachinesAssumption, Zenon DEF CloudInv, Zones
<1> QED BY <1>1, <1>2, Zenon DEF CloudInv, Managed, Parts

(* One request of ensureEndpoint.  It takes away old endpoints of the      *)
(* machine only, and adds one when there is none.                          *)
LEMMA EndpointStep ==
    ASSUME CloudInv, ~UserEndpoint, NEW m \in Machines, ensureEndpoint(m),
           UNCHANGED <<world, foreign, vms, ip, joined, down, nodes, resetting>>
    PROVE  /\ CloudInv' /\ resources \subseteq resources' /\ (Managed' <=> Managed)
           /\ \A k \in Machines : /\ HasEndpoint(k) => HasEndpoint(k)'
                                  /\ Behind(k) => Behind(k)'
           /\ HealthyMembers \subseteq HealthyMembers'
<1>0. Zone[m] \in Zones /\ Zone[m] # "backendService"
  BY MachinesAssumption, Zenon DEF Zones
<1>1. /\ resources \subseteq resources' /\ resources' \subseteq resources \cup {Zone[m]}
      /\ backends \subseteq backends' /\ backends' \subseteq backends \cup ({Zone[m]} \cap resources)
  BY Zenon DEF ensureEndpoint
<1>2. Endpoint(m) \in Machines \X IPs /\ Endpoint(m)[1] = m
  BY Zenon DEF Endpoint, CloudInv
<1>3. /\ endpoints' \subseteq endpoints \cup {Endpoint(m)}
      /\ \A e \in endpoints : e \in endpoints' \/ (e[1] = m /\ e # Endpoint(m))
      /\ endpoints' \subseteq endpoints \/ (Zone[m] \in resources
            /\ \A e \in endpoints : e[1] = m => e = Endpoint(m))
  BY Zenon DEF ensureEndpoint
<1>4. CloudInv'
  <2>1. \A e \in endpoints' : Zone[e[1]] \in resources'
    BY <1>1, <1>2, <1>3, Zenon DEF CloudInv
  <2>2. \A e, f \in endpoints' : e[1] = f[1] => e = f
    BY <1>2, <1>3, Zenon DEF CloudInv
  <2>3. endpoints' \subseteq Machines \X IPs
    BY <1>2, <1>3, Zenon DEF CloudInv
  <2>4. resources' \subseteq LBSet' \cup Zones /\ backends' \subseteq Zones \cap resources'
    BY <1>0, <1>1, SameWorld, Zenon DEF CloudInv
  <2> QED BY <2>1, <2>2, <2>3, <2>4, SameWorld, Zenon DEF CloudInv
<1>5. \A k \in Machines : Endpoint(k)' = Endpoint(k) /\ (Endpoint(k) \in endpoints => Endpoint(k) \in endpoints')
  BY <1>3, Zenon DEF Endpoint
<1>6. \A k \in Machines : Behind(k) => Behind(k)'
  BY <1>1, <1>5, Zenon DEF Behind
<1>7. \A k \in Machines : HasEndpoint(k) => HasEndpoint(k)'
  BY <1>1, <1>6, Zenon DEF HasEndpoint
<1>8. HealthyMembers \subseteq HealthyMembers'
  BY <1>6, Zenon DEF HealthyMembers, Serving, CloudInv
<1> QED BY <1>0, <1>1, <1>4, <1>6, <1>7, <1>8, Zenon DEF Managed

(* A VM is deleted or lost.                                                *)
LEMMA GoneStep ==
    ASSUME CloudInv, NEW m \in Machines, InstanceGone(m),
           UNCHANGED <<world, resources, foreign, backends, ip, resetting>>,
           nodes' = nodes \ {m} \/ (nodes' = nodes /\ resetting)
    PROVE  /\ CloudInv' /\ vms' = vms \ {m} /\ joined' = joined \ {m} /\ (Managed' <=> Managed)
           /\ \A k \in Machines : /\ Behind(k)' => Behind(k)
                                  /\ k # m /\ Behind(k) => Behind(k)'
                                  /\ k # m /\ HasEndpoint(k) => HasEndpoint(k)'
<1>1. /\ vms' = vms \ {m} /\ joined' = joined \ {m} /\ down' = down \ {m}
      /\ endpoints' \subseteq endpoints /\ \A e \in endpoints : e # Endpoint(m) => e \in endpoints'
  BY Zenon DEF InstanceGone
<1>2. \A k \in Machines : Endpoint(k)' = Endpoint(k) /\ (k # m => Endpoint(k) # Endpoint(m))
  BY Zenon DEF Endpoint
<1>3. CloudInv'
  BY <1>1, SameWorld, Zenon DEF CloudInv
<1>4. \A k \in Machines : (Behind(k)' => Behind(k)) /\ (k # m /\ Behind(k) => Behind(k)')
  BY <1>1, <1>2, Zenon DEF Behind
<1>5. \A k \in Machines : k # m /\ HasEndpoint(k) => HasEndpoint(k)'
  BY <1>4, Zenon DEF HasEndpoint
<1> QED BY <1>1, <1>3, <1>4, <1>5, Zenon DEF Managed

(* A step that leaves the cloud and the members of the cluster alone.      *)
LEMMA SameCloud ==
    ASSUME CloudInv, UNCHANGED <<world, resources, foreign, backends, endpoints, vms, ip, joined>>,
           down' \subseteq joined, nodes' \subseteq nodes, joined \subseteq nodes',
           joined # {} /\ ~resetting' => ~resetting
    PROVE  /\ CloudInv' /\ (Managed' <=> Managed) /\ LBSet' = LBSet /\ LBParts' = LBParts
           /\ \A k : (HasEndpoint(k)' <=> HasEndpoint(k)) /\ (Behind(k)' <=> Behind(k))
<1>1. CloudInv'
  BY SameWorld, Zenon DEF CloudInv
<1>2. \A k : (HasEndpoint(k)' <=> HasEndpoint(k)) /\ (Behind(k)' <=> Behind(k))
  BY Zenon DEF HasEndpoint, Behind, Endpoint
<1> QED BY <1>1, <1>2, SameWorld, Zenon DEF Managed

----------------------------------------------------------------------------
(* kubeone apply: the load balancer and the machines.                      *)

LEMMA ApplyBegins ==
    ASSUME Inv, runApply, world' = world
    PROVE  Inv'
<1> USE DEF Inv, runApply, Goto, cloud, cluster
<1>1. CloudInv'
  BY SameCloud, Zenon DEF CloudInv
<1>2. PositionInv'
  BY MachinesAssumption DEF PositionInv, Applying, Resetting, Creating, Installing, Machines
<1>3. LoadBalancerInv' /\ ProbedInv' /\ JoinInv' /\ ResetInv'
  <2>1. pc' = "lb" /\ at' = 1 /\ live' = {} /\ DOMAIN LBParts' = 1..Len(LBParts')
    BY LBPartsAre, SameWorld, Zenon
  <2>2. LoadBalancerInv'
    BY <2>1 DEF LoadBalancerInv, Creating, Installing
  <2> QED BY <2>1, <2>2, Zenon DEF ProbedInv, JoinInv, ResetInv, Installing
<1> QED BY <1>1, <1>2, <1>3, Zenon

LEMMA LoadBalancerStep ==
    ASSUME Inv, EnsureLoadBalancer, world' = world
    PROVE  Inv'
<1> USE DEF Inv, Goto, cluster, operator
<1>1. pc = "lb" /\ DOMAIN LBParts = 1..Len(LBParts) /\ Len(LBParts) \in Nat /\ at \in Nat
  BY LBPartsAre, Zenon DEF EnsureLoadBalancer, PositionInv
<1>2. UNCHANGED <<foreign, backends, endpoints, vms, ip, joined, down, nodes, hosts, leader, live,
                  resetting>>
  BY Zenon DEF EnsureLoadBalancer
<1>3. resources' = resources \/ \E i \in DOMAIN LBParts : resources' = resources \cup {LBParts[i]}
  BY <1>1 DEF EnsureLoadBalancer, PositionInv
<1>4. CloudInv'
  <2>1. resources \subseteq resources' /\ resources' \subseteq resources \cup LBSet
    BY <1>3, Zenon DEF LBSet
  <2> QED BY <1>2, <2>1, SameWorld, LBPartsAre, Zenon DEF CloudInv
<1>5. \/ pc' = "vm" /\ at' = 1 /\ resources' = resources /\ at > Len(LBParts)
      \/ pc' = "lb" /\ at' = at + 1 /\ resources' = resources /\ LBParts[at] \in resources
      \/ pc' = "lb" /\ at' = at
  BY <1>1, Zenon DEF EnsureLoadBalancer
<1>6. PositionInv'
  BY <1>1, <1>2, <1>5, MachinesAssumption DEF PositionInv, Applying, Resetting, Creating, Installing, Machines
<1>7. LoadBalancerInv'
  <2>0. LBParts' = LBParts /\ LBSet' = LBSet /\ resources \subseteq resources'
    BY <1>3, SameWorld, Zenon
  <2>1. CASE pc' = "vm" /\ at > Len(LBParts)
    <3>1. \A i \in DOMAIN LBParts : LBParts[i] \in resources
      BY <1>1, <2>1 DEF LoadBalancerInv
    <3> QED BY <2>0, <2>1, <3>1, Zenon DEF LoadBalancerInv, LBSet
  <2>2. CASE pc' = "lb" /\ at' = at + 1 /\ LBParts[at] \in resources
    <3>1. \A i \in DOMAIN LBParts : i < at + 1 => i < at \/ i = at
      BY <1>1
    <3> QED BY <1>1, <2>0, <2>2, <3>1, Zenon DEF LoadBalancerInv, Creating, Installing
  <2>3. CASE pc' = "lb" /\ at' = at
    BY <1>1, <2>0, <2>3, Zenon DEF LoadBalancerInv, Creating, Installing
  <2> QED BY <1>5, <2>1, <2>2, <2>3, Zenon
<1>8. ProbedInv' /\ JoinInv' /\ ResetInv'
  BY <1>1, <1>2, <1>5, Zenon DEF ProbedInv, JoinInv, ResetInv, Creating, Installing
<1> QED BY <1>4, <1>6, <1>7, <1>8, Zenon

LEMMA CreateStep ==
    ASSUME Inv, FindOrCreateMachines, world' = world
    PROVE  Inv'
<1> USE DEF Inv, FindOrCreateMachines, cluster, process, operator
<1>1. at \in Machines
  BY MachinesAssumption DEF PositionInv, Machines
<1>2. CloudInv'
  BY <1>1, SameWorld, Zenon DEF CloudInv
<1>3. PositionInv'
  BY Zenon DEF PositionInv
<1>4. LoadBalancerInv' /\ ProbedInv' /\ JoinInv' /\ ResetInv'
  BY SameWorld, Zenon DEF LoadBalancerInv, ProbedInv, JoinInv, ResetInv, Creating, Installing, Managed
<1> QED BY <1>2, <1>3, <1>4, Zenon

LEMMA ListStep ==
    ASSUME Inv, EnsureVM, world' = world
    PROVE  Inv'
<1> USE DEF Inv, Goto, cluster, cloud, operator
<1>1. pc = "vm" /\ at \in Machines /\ hosts' = Append(hosts, at) /\ Len(hosts) = at - 1
  BY MachinesAssumption DEF PositionInv, Machines, EnsureVM
<1>2. UNCHANGED <<resources, foreign, backends, endpoints, vms, ip, joined, down, nodes, leader, live,
                  resetting>>
  BY Zenon DEF EnsureVM
<1>3. \/ pc' = "leader" /\ at' = at
      \/ pc' = "vm" /\ at' = at + 1
  BY Zenon DEF EnsureVM
<1>4. CloudInv' /\ LBSet' = LBSet
  BY <1>2, SameCloud, Zenon DEF CloudInv
<1>5. hosts' \in Seq(Machines) /\ Len(hosts') = at /\ \A i \in 1..Len(hosts') : hosts'[i] = i
  <2>1. hosts' \in Seq(Machines) /\ Len(hosts') = Len(hosts) + 1 /\ Len(hosts) \in Nat
        /\ \A i \in 1..Len(hosts) + 1 : hosts'[i] = IF i <= Len(hosts) THEN hosts[i] ELSE at
    BY <1>1, AppendProperties, LenProperties DEF PositionInv
  <2>2. at \in Nat /\ Len(hosts) + 1 = at
    BY <1>1, <2>1 DEF PositionInv
  <2>3. \A i \in 1..Len(hosts) + 1 : hosts'[i] = i
    BY <2>1, <2>2 DEF PositionInv
  <2> QED BY <2>1, <2>2, <2>3, Zenon
<1>6. PositionInv'
  BY <1>1, <1>2, <1>3, <1>5, MachinesAssumption DEF PositionInv, Applying, Ended, Resetting, Installing, Machines
<1>7. LoadBalancerInv' /\ ProbedInv' /\ JoinInv' /\ ResetInv'
  BY <1>1, <1>2, <1>3, <1>4, Zenon DEF LoadBalancerInv, ProbedInv, JoinInv, ResetInv, Creating, Installing
<1> QED BY <1>4, <1>6, <1>7, Zenon

LEMMA LeaderStep ==
    ASSUME Inv, ensureLeaderEndpoint, world' = world
    PROVE  Inv'
<1> USE DEF Inv, Goto, cluster, cloud, operator
<1>1. UNCHANGED <<resources, foreign, backends, endpoints, vms, ip, joined, down, nodes, hosts, leader,
                  live, resetting>> /\ pc = "leader"
  BY Zenon DEF ensureLeaderEndpoint
<1>2. \/ pc' = "vm" /\ at' = at + 1
      \/ pc' = "attach" /\ at' = at /\ Managed
  BY Zenon DEF ensureLeaderEndpoint
<1>3. CloudInv' /\ LBSet' = LBSet /\ (Managed' <=> Managed)
  BY <1>1, SameCloud, Zenon DEF CloudInv
<1>4. PositionInv'
  BY <1>1, <1>2, MachinesAssumption DEF PositionInv, Applying, Resetting, Installing, Machines
<1>5. LoadBalancerInv' /\ ProbedInv' /\ JoinInv' /\ ResetInv'
  BY <1>1, <1>2, <1>3, Zenon DEF LoadBalancerInv, ProbedInv, JoinInv, ResetInv, Creating, Installing
<1> QED BY <1>3, <1>4, <1>5, Zenon

LEMMA AttachStep ==
    ASSUME Inv, AttachLeader, world' = world
    PROVE  Inv'
<1> USE DEF Inv, Goto, cluster, operator
<1>1. UNCHANGED <<foreign, vms, ip, joined, down, nodes, hosts, leader, live, resetting>>
      /\ pc = "attach" /\ at \in Machines /\ ~UserEndpoint
  BY ManagedHasLB, MachinesAssumption DEF AttachLeader, PositionInv, LoadBalancerInv, Machines
<1>2. \/ pc' = "vm" /\ at' = at + 1 /\ UNCHANGED <<resources, backends, endpoints>>
      \/ pc' = pc /\ at' = at /\ ensureEndpoint(at)
  BY Zenon DEF AttachLeader
<1>3. CloudInv' /\ LBSet' = LBSet /\ (Managed' <=> Managed) /\ resources \subseteq resources'
  <2>1. CASE UNCHANGED <<resources, backends, endpoints>>
    BY <1>1, <2>1, SameCloud, Zenon DEF CloudInv
  <2>2. CASE ensureEndpoint(at)
    BY <1>1, <2>2, EndpointStep, SameWorld, Zenon
  <2> QED BY <1>2, <2>1, <2>2, Zenon
<1>4. PositionInv'
  BY <1>1, <1>2, MachinesAssumption DEF PositionInv, Applying, Resetting, Installing, Machines
<1>5. LoadBalancerInv' /\ ProbedInv' /\ JoinInv' /\ ResetInv'
  BY <1>1, <1>2, <1>3, Zenon DEF LoadBalancerInv, ProbedInv, JoinInv, ResetInv, Creating, Installing
<1> QED BY <1>3, <1>4, <1>5, Zenon

LEMMA MachinesEnd ==
    ASSUME Inv, EndMachines, world' = world
    PROVE  Inv'
<1> USE DEF Inv, EndMachines, Goto, cluster, cloud, operator
<1>1. CloudInv' /\ LBSet' = LBSet
  BY SameCloud, Zenon DEF CloudInv
<1>2. PositionInv'
  BY MachinesAssumption DEF PositionInv, Applying, Resetting, Installing, Machines
<1>3. LoadBalancerInv' /\ ProbedInv' /\ JoinInv' /\ ResetInv'
  BY <1>1, Zenon DEF LoadBalancerInv, ProbedInv, JoinInv, ResetInv, Creating, Installing
<1> QED BY <1>1, <1>2, <1>3, Zenon

----------------------------------------------------------------------------
(* The probes and the installation.                                        *)

(* A nonempty set of numbers has a least element.                          *)
LEMMA Least ==
    ASSUME NEW T \in SUBSET Nat, T # {}
    PROVE  \E i \in T : \A j \in Nat : j < i => j \notin T
<1>1. IsWellFoundedOn(OpToRel(<, Nat), Nat)
  BY NatLessThanWellFounded, Zenon
<1>2. \E x \in T : \A y \in T : ~(<<y, x>> \in OpToRel(<, Nat))
  BY <1>1, WFMin, Zenon
<1> QED BY <1>2, Zenon DEF OpToRel

(* After the machines have been created the hosts are all machines.        *)
LEMMA AllHosts ==
    ASSUME Inv, pc \in Installing
    PROVE  /\ DOMAIN hosts = Machines /\ Len(hosts) = N /\ \A m \in Machines : hosts[m] = m
           /\ InCluster = nodes
           /\ joiningFollowers = Machines \ ({leader} \cup live)
<1>1. DOMAIN hosts = Machines /\ Len(hosts) = N /\ \A m \in Machines : hosts[m] = m
  BY LenProperties, Zenon DEF Inv, PositionInv, Machines
<1>2. InCluster = nodes
  <2>1. \A m \in Machines : \A j \in 1..(m - 1) : j \in Machines /\ j # m
    BY MachinesAssumption DEF Machines
  <2>2. InCluster = {m \in Machines : m \in nodes}
    BY <1>1, <2>1 DEF InCluster
  <2> QED BY <2>2, Zenon DEF Inv, CloudInv
<1> QED BY <1>1, <1>2, Zenon DEF joiningFollowers

(* A cluster that answers has a first machine that serves.                 *)
LEMMA ElectedHost ==
    ASSUME Inv, pc \in Installing, APIReachable
    PROVE  Elected \in Machines
<1>1. Serving # {} /\ Serving \subseteq Machines
  BY Zenon DEF APIReachable, HealthyMembers, Serving, Inv, CloudInv
<1>2. Serving \in SUBSET Nat
  BY <1>1, MachinesAssumption DEF Machines
<1>3. PICK i \in Serving : \A j \in Nat : j < i => j \notin Serving
  BY <1>1, <1>2, Least, Zenon
<1>4. \A j \in 1..(i - 1) : j \in Nat /\ j < i /\ j \in Machines
  BY <1>1, MachinesAssumption DEF Machines
<1>5. i \in DOMAIN hosts /\ hosts[i] \in Serving /\ \A j \in 1..(i - 1) : hosts[j] \notin Serving
  BY <1>1, <1>3, <1>4, AllHosts, Zenon
<1>6. Elected \in DOMAIN hosts
  BY <1>5, Zenon DEF Elected
<1> QED BY <1>6, AllHosts, Zenon

(* The probes find every member of a cluster.                              *)
LEMMA Probes ==
    ASSUME Inv, pc \in {"probe", "reprobe"}, investigateCluster
    PROVE  /\ leader' \in Machines /\ live' \subseteq Machines
           /\ \A m \in live' : m \in joined \/ m \notin vms
           /\ joined \subseteq live' \cup {leader'}
<1>0. pc \in Installing /\ pc \in Applying
  BY Zenon DEF Installing, Applying
<1>1. CASE joined = {}
  BY <1>0, <1>1, Zenon DEF investigateCluster, Inv, PositionInv, ProbedInv
<1>2. CASE joined # {}
  <2>1. APIReachable /\ leader' = Elected /\ live' = nodes
    BY <1>0, <1>2, AllHosts, Zenon DEF investigateCluster
  <2>2. leader' \in Machines
    BY <1>0, <2>1, ElectedHost, Zenon
  <2>3. nodes = joined
    BY <1>0, <1>2, Zenon DEF Inv, CloudInv, PositionInv
  <2> QED BY <2>1, <2>2, <2>3, Zenon DEF Inv, CloudInv
<1> QED BY <1>1, <1>2, Zenon

LEMMA DecideStep ==
    ASSUME Inv, Decide, world' = world
    PROVE  Inv'
<1> USE DEF Inv, Goto, cluster, cloud, operator
<1>1. UNCHANGED <<resources, foreign, backends, endpoints, vms, ip, joined, down, nodes, hosts, resetting>>
      /\ pc = "probe" /\ at' = 1 /\ pc' \in {"reprobe", "members", "failed"} /\ investigateCluster
  BY Zenon DEF Decide
<1>2. /\ leader' \in Machines /\ live' \subseteq Machines
      /\ \A m \in live' : m \in joined \/ m \notin vms
  BY <1>1, Probes, Zenon
<1>3. CloudInv' /\ LBSet' = LBSet
  BY <1>1, SameCloud, Zenon DEF CloudInv
<1>4. PositionInv'
  BY <1>1, <1>2 DEF PositionInv, Applying, Resetting, Ended, Installing
<1>5. LoadBalancerInv' /\ ProbedInv' /\ ResetInv'
  BY <1>1, <1>2, <1>3, Zenon DEF LoadBalancerInv, ProbedInv, ResetInv, Creating, Installing
<1>6. JoinInv'
  <2>1. \A m \in joined : ~(m < 1)
    BY MachinesAssumption DEF CloudInv, Machines
  <2> QED BY <1>1, <2>1, Zenon DEF JoinInv
<1> QED BY <1>3, <1>4, <1>5, <1>6, Zenon

LEMMA ReprobeStep ==
    ASSUME Inv, WithHostnameOSAndProbes, world' = world
    PROVE  Inv'
<1> USE DEF Inv, Goto, cluster, cloud, operator
<1>1. UNCHANGED <<resources, foreign, backends, endpoints, vms, ip, joined, down, nodes, hosts, resetting>>
      /\ pc = "reprobe" /\ at' = 1 /\ pc' = "init" /\ investigateCluster
  BY Zenon DEF WithHostnameOSAndProbes
<1>2. /\ leader' \in Machines /\ live' \subseteq Machines
      /\ \A m \in live' : m \in joined \/ m \notin vms
      /\ joined \subseteq live' \cup {leader'}
  BY <1>1, Probes, Zenon
<1>3. CloudInv' /\ LBSet' = LBSet
  BY <1>1, SameCloud, Zenon DEF CloudInv
<1>4. PositionInv'
  BY <1>1, <1>2 DEF PositionInv, Applying, Resetting, Ended, Installing
<1>5. LoadBalancerInv' /\ ProbedInv' /\ ResetInv' /\ JoinInv'
  BY <1>1, <1>2, <1>3, Zenon DEF LoadBalancerInv, ProbedInv, ResetInv, JoinInv, Creating, Installing
<1> QED BY <1>3, <1>4, <1>5, Zenon

LEMMA InitStep ==
    ASSUME Inv, initKubernetesLeader, world' = world
    PROVE  Inv'
<1> USE DEF Inv, Goto, cluster, cloud, operator
<1>1. UNCHANGED <<resources, foreign, backends, endpoints, vms, ip, hosts, leader, live, resetting>>
      /\ pc = "init" /\ at' = 1 /\ pc' = "repair"
  BY Zenon DEF initKubernetesLeader
<1>2. hosts[leader] = leader /\ leader \in Machines
  BY <1>1, AllHosts, Zenon DEF Installing, PositionInv
<1>3. \/ UNCHANGED <<joined, down, nodes>>
      \/ joined = {} /\ leader \in vms /\ joined' = {leader} /\ down' = {} /\ nodes' = {leader}
  BY <1>2, Zenon DEF initKubernetesLeader
<1>4. CloudInv' /\ LBSet' = LBSet
  <2>1. CASE UNCHANGED <<joined, down, nodes>>
    BY <1>1, <2>1, SameCloud, Zenon DEF CloudInv
  <2>2. CASE leader \in vms /\ joined' = {leader} /\ down' = {} /\ nodes' = {leader}
    BY <1>1, <1>2, <2>2, SameWorld, Zenon DEF CloudInv
  <2> QED BY <1>3, <2>1, <2>2, Zenon
<1>5. PositionInv'
  BY <1>1 DEF PositionInv, Applying, Resetting, Ended, Installing
<1>6. ProbedInv'
  BY <1>1, <1>3, Zenon DEF ProbedInv, Creating, Installing
<1>7. LoadBalancerInv' /\ ResetInv' /\ JoinInv'
  BY <1>1, <1>4, Zenon DEF LoadBalancerInv, ResetInv, JoinInv, Creating, Installing
<1> QED BY <1>4, <1>5, <1>6, <1>7, Zenon

LEMMA RepairStep ==
    ASSUME Inv, repairClusterIfNeeded, world' = world
    PROVE  Inv'
<1> USE DEF Inv, Goto, cluster, cloud, operator
<1>1. UNCHANGED <<resources, foreign, backends, endpoints, vms, ip, joined, down, hosts, leader, live, resetting>>
      /\ pc = "repair" /\ at' = 1 /\ pc' = "removeJoining" /\ nodes' = nodes \cap joined
  BY Zenon DEF repairClusterIfNeeded
<1>2. CloudInv' /\ LBSet' = LBSet
  BY <1>1, SameCloud, Zenon DEF CloudInv
<1>3. PositionInv'
  BY <1>1 DEF PositionInv, Applying, Resetting, Ended, Installing
<1>4. LoadBalancerInv' /\ ProbedInv' /\ ResetInv' /\ JoinInv'
  BY <1>1, <1>2, Zenon DEF LoadBalancerInv, ProbedInv, ResetInv, JoinInv, Creating, Installing
<1> QED BY <1>2, <1>3, <1>4, Zenon

(* The leader is added to the load balancer before anything is removed.    *)
LEMMA RemoveJoiningStep ==
    ASSUME Inv, RemoveJoiningLoadBalancerMembers, world' = world
    PROVE  Inv'
<1> USE DEF Inv, Goto, cluster, operator
<1>1. UNCHANGED <<foreign, vms, ip, joined, down, nodes, hosts, leader, live, resetting>>
      /\ pc = "removeJoining" /\ LBSet' = LBSet
  BY SameWorld, Zenon DEF RemoveJoiningLoadBalancerMembers
<1>2. hosts[leader] = leader /\ leader \in Machines /\ leader \notin joiningFollowers
  BY <1>1, AllHosts, Zenon DEF Installing, PositionInv
<1>3. \/ ~Managed /\ pc' = "join" /\ at' = 1 /\ UNCHANGED <<resources, backends, endpoints>>
      \/ HasEndpoint(leader) /\ pc' = "detach" /\ at' = 1 /\ UNCHANGED <<resources, backends, endpoints>>
      \/ Managed /\ ensureEndpoint(leader) /\ UNCHANGED <<pc, at>>
  BY <1>2, Zenon DEF RemoveJoiningLoadBalancerMembers
<1>4. PositionInv' /\ ProbedInv'
  BY <1>1, <1>3 DEF PositionInv, ProbedInv, Applying, Resetting, Ended, Installing, Creating
<1>5. CASE UNCHANGED <<resources, backends, endpoints>>
  <2>1. CloudInv' /\ (Managed' <=> Managed) /\ \A k : HasEndpoint(k)' <=> HasEndpoint(k)
    BY <1>1, <1>5, SameCloud, Zenon DEF CloudInv
  <2>2. CASE ~Managed /\ pc' = "join"
    BY <1>1, <1>4, <1>5, <2>1, <2>2, Zenon DEF LoadBalancerInv, JoinInv, ResetInv, Creating, Installing
  <2>3. CASE HasEndpoint(leader) /\ pc' = "detach"
    BY <1>1, <1>4, <1>5, <2>1, <2>3, Zenon DEF LoadBalancerInv, JoinInv, ResetInv, Creating, Installing
  <2>4. CASE pc' = pc
    BY <1>1, <1>4, <1>5, <2>1, <2>4, Zenon DEF LoadBalancerInv, JoinInv, ResetInv, Creating, Installing
  <2> QED BY <1>3, <2>2, <2>3, <2>4, Zenon
<1>6. CASE Managed /\ ensureEndpoint(leader) /\ UNCHANGED <<pc, at>>
  <2>1. CloudInv' /\ resources \subseteq resources'
    BY <1>1, <1>2, <1>6, EndpointStep, ManagedHasLB, Zenon
  <2> QED BY <1>1, <1>4, <1>6, <2>1, Zenon DEF LoadBalancerInv, JoinInv, ResetInv, Creating, Installing
<1> QED BY <1>3, <1>5, <1>6, Zenon

(* The machines that the probes did not find are removed from it, and the  *)
(* leader is not one of them.                                              *)
LEMMA DetachStep ==
    ASSUME Inv, removeJoiningEndpoints, world' = world
    PROVE  Inv'
<1> USE DEF Inv, Goto, cluster, operator
<1> DEFINE detach(z) == {e \in endpoints : Zone[e[1]] = z /\ e[1] \in joiningFollowers}
<1>1. UNCHANGED <<resources, foreign, backends, vms, ip, joined, down, nodes, hosts, leader, live, resetting>>
      /\ pc = "detach" /\ LBSet' = LBSet
  BY SameWorld, Zenon DEF removeJoiningEndpoints
<1>2. joiningFollowers = Machines \ ({leader} \cup live) /\ leader \in Machines
  BY <1>1, AllHosts, Zenon DEF Installing, PositionInv
<1>3. \/ pc' = "detach" /\ at' = at /\ \E z \in backends : endpoints' = endpoints \ detach(z)
      \/ pc' = "join" /\ at' = 1 /\ endpoints' = endpoints /\ \A z \in backends : detach(z) = {}
  BY <1>1, Zenon DEF removeJoiningEndpoints
<1>4. PositionInv' /\ ProbedInv' /\ ResetInv'
  BY <1>1, <1>3 DEF PositionInv, ProbedInv, ResetInv, Applying, Resetting, Ended, Installing, Creating
<1>5. endpoints' \subseteq endpoints /\ \A e \in endpoints : e[1] = leader => e \in endpoints'
  BY <1>2, <1>3, Zenon
<1>6. CloudInv'
  BY <1>1, <1>5, SameWorld, Zenon DEF CloudInv
<1>7. HasEndpoint(leader) => HasEndpoint(leader)'
  BY <1>1, <1>2, <1>5, Zenon DEF HasEndpoint, Behind, Endpoint
<1>8. Managed' <=> Managed
  BY <1>1, Zenon DEF Managed
<1>9. CASE pc' = "detach"
  BY <1>1, <1>4, <1>6, <1>7, <1>8, <1>9, Zenon DEF LoadBalancerInv, JoinInv, Creating, Installing
<1>10. CASE pc' = "join" /\ endpoints' = endpoints /\ \A z \in backends : detach(z) = {}
  <2>1. ASSUME NEW m \in vms \ joined, m # leader PROVE ~Behind(m)'
    <3>1. m \in joiningFollowers
      BY <1>1, <1>2, <2>1, Zenon DEF ProbedInv, Installing, CloudInv
    <3>2. Behind(m) => Zone[m] \in backends /\ Endpoint(m) \in detach(Zone[m])
      BY <3>1, Zenon DEF Behind, Endpoint
    <3> QED BY <1>1, <1>10, <3>2, Zenon DEF Behind, Endpoint
  <2> QED BY <1>1, <1>4, <1>6, <1>7, <1>8, <1>10, <2>1, Zenon DEF LoadBalancerInv, JoinInv, Creating, Installing
<1> QED BY <1>3, <1>9, <1>10, Zenon

LEMMA JoinStep ==
    ASSUME Inv, joinControlplaneNode, world' = world
    PROVE  Inv'
<1> USE DEF Inv, Goto, cluster, cloud, operator
<1>1. UNCHANGED <<resources, foreign, backends, endpoints, vms, ip, down, hosts, leader, live, resetting>>
      /\ pc = "join" /\ LBSet' = LBSet
  BY SameWorld, Zenon DEF joinControlplaneNode
<1>2. Len(hosts) = N /\ \A m \in Machines : hosts[m] = m
  BY <1>1, AllHosts, Zenon DEF Installing, PositionInv
<1>3. \/ pc' = "members" /\ at' = 1 /\ joined' = joined /\ nodes' = nodes
      \/ pc' = "join" /\ at' = at + 1 /\ joined' = joined /\ nodes' = nodes
      \/ /\ pc' = "join" /\ at' = at /\ at # leader /\ at \in vms /\ joined # {}
         /\ joined' = joined \cup {at} /\ nodes' = nodes \cup {at}
  <2>1. at \in Machines \/ at > Len(hosts)
    BY <1>2, MachinesAssumption DEF PositionInv, Machines
  <2>2. APIReachable => joined # {}
    BY Zenon DEF APIReachable, HealthyMembers, Serving
  <2> QED BY <1>1, <1>2, <2>1, <2>2, Zenon DEF joinControlplaneNode, Reaches
<1>4. PositionInv' /\ ResetInv'
  BY <1>1, <1>3 DEF PositionInv, ResetInv, Applying, Resetting, Ended, Installing, Creating
<1>5. joined \subseteq joined' /\ joined' \subseteq vms /\ (leader \in joined' => leader \in joined \/ pc' = "members")
  BY <1>3, Zenon DEF CloudInv
<1>6. ProbedInv'
  BY <1>1, <1>3, <1>5, Zenon DEF ProbedInv, Installing, Creating
<1>7. CloudInv'
  BY <1>1, <1>3, SameWorld, Zenon DEF CloudInv
<1>8. Managed' = Managed /\ \A m : (HasEndpoint(m)' <=> HasEndpoint(m)) /\ (Behind(m)' <=> Behind(m))
  BY <1>1, Zenon DEF Managed, HasEndpoint, Behind, Endpoint
<1>9. JoinInv'
  <2>1. CASE pc' = "join"
    BY <1>1, <1>5, <1>8, <2>1, Zenon DEF JoinInv
  <2>2. CASE pc' = "members" /\ at' = 1
    <3>1. \A m \in joined' : ~(m < 1)
      BY <1>5, MachinesAssumption DEF CloudInv, Machines
    <3> QED BY <2>2, <3>1, Zenon DEF JoinInv
  <2> QED BY <1>3, <2>1, <2>2, Zenon
<1>10. LoadBalancerInv'
  BY <1>1, <1>3, Zenon DEF LoadBalancerInv, Creating, Installing
<1> QED BY <1>4, <1>6, <1>7, <1>9, <1>10, Zenon

LEMMA MembersStep ==
    ASSUME Inv, EnsureLoadBalancerMembers, world' = world
    PROVE  Inv'
<1> USE DEF Inv, Goto, cluster, operator
<1>1. UNCHANGED <<foreign, vms, ip, joined, down, nodes, hosts, leader, live, resetting>>
      /\ pc = "members" /\ LBSet' = LBSet
  BY SameWorld, Zenon DEF EnsureLoadBalancerMembers
<1>2. \/ (~Managed \/ at > N) /\ pc' = "workers" /\ at' = 1 /\ UNCHANGED <<resources, backends, endpoints>>
      \/ HasEndpoint(at) /\ pc' = "members" /\ at' = at + 1 /\ UNCHANGED <<resources, backends, endpoints>>
      \/ Managed /\ at \in Machines /\ ensureEndpoint(at) /\ pc' = "members" /\ at' = at
  BY <1>1, MachinesAssumption DEF EnsureLoadBalancerMembers, PositionInv, Machines
<1>3. PositionInv' /\ ProbedInv' /\ ResetInv'
  BY <1>1, <1>2 DEF PositionInv, ProbedInv, ResetInv, Applying, Resetting, Ended, Installing, Creating
<1>4. joined \subseteq Machines /\ Machines \subseteq Nat /\ at \in Nat /\ \A m \in Machines : m <= N
  BY MachinesAssumption DEF CloudInv, PositionInv, Machines
<1>5. CASE UNCHANGED <<resources, backends, endpoints>>
  <2>1. CloudInv' /\ (Managed' <=> Managed) /\ \A k : HasEndpoint(k)' <=> HasEndpoint(k)
    BY <1>1, <1>5, SameCloud, Zenon DEF CloudInv
  <2>2. LoadBalancerInv'
    BY <1>1, <1>2, <1>5, Zenon DEF LoadBalancerInv, Creating, Installing
  <2>3. CASE (~Managed \/ at > N) /\ pc' = "workers"
    <3>1. at > N => \A m \in joined : m < at
      BY <1>4, MachinesAssumption
    <3> QED BY <1>1, <1>3, <2>1, <2>2, <2>3, <3>1, Zenon DEF JoinInv
  <2>4. CASE HasEndpoint(at) /\ pc' = "members" /\ at' = at + 1
    <3>1. \A m \in joined : m < at + 1 => m < at \/ m = at
      BY <1>4
    <3> QED BY <1>1, <1>3, <2>1, <2>2, <2>4, <3>1, Zenon DEF JoinInv
  <2>5. CASE pc' = "members" /\ at' = at
    BY <1>1, <1>3, <2>1, <2>2, <2>5, Zenon DEF JoinInv
  <2> QED BY <1>2, <2>3, <2>4, <2>5, Zenon
<1>6. CASE Managed /\ at \in Machines /\ ensureEndpoint(at) /\ pc' = "members" /\ at' = at
  <2>1. CloudInv' /\ resources \subseteq resources' /\ (Managed' <=> Managed)
        /\ \A k \in Machines : HasEndpoint(k) => HasEndpoint(k)'
    <3>1. PICK m \in Machines : m = at
      BY <1>6, Zenon
    <3>2. ~UserEndpoint /\ ensureEndpoint(m)
      BY <1>6, <3>1, ManagedHasLB, Zenon
    <3>3. CloudInv /\ UNCHANGED <<world, foreign, vms, ip, joined, down, nodes, resetting>>
      BY <1>1, Zenon
    <3> HIDE DEF Inv
    <3> QED BY <3>2, <3>3, EndpointStep, Zenon
  <2>2. JoinInv'
    BY <1>1, <1>4, <1>6, <2>1 DEF JoinInv
  <2> QED BY <1>1, <1>3, <1>6, <2>1, <2>2, Zenon DEF LoadBalancerInv, Creating, Installing
<1> QED BY <1>2, <1>5, <1>6, Zenon

LEMMA WorkersStep ==
    ASSUME Inv, joinStaticWorkerNodes, world' = world
    PROVE  Inv'
<1> USE DEF Inv, Goto, cluster, cloud, operator, joinStaticWorkerNodes
<1>1. CloudInv'
  BY SameCloud, Zenon DEF CloudInv
<1>2. PositionInv'
  BY DEF PositionInv, Applying, Resetting, Ended, Installing
<1>3. LoadBalancerInv' /\ ProbedInv' /\ ResetInv' /\ JoinInv'
  BY Zenon DEF LoadBalancerInv, ProbedInv, ResetInv, JoinInv, Creating, Installing
<1> QED BY <1>1, <1>2, <1>3, Zenon

----------------------------------------------------------------------------
(* kubeone reset.                                                          *)

LEMMA ResetBegins ==
    ASSUME Inv, world' = world, NEW d, NEW l, NEW f, NEW c, runReset(d, l, f, c)
    PROVE  Inv'
<1> USE DEF Inv, Goto, cluster, cloud
<1>1. /\ UNCHANGED <<resources, foreign, backends, endpoints, vms, ip, joined, down, nodes>>
      /\ resetting' = TRUE /\ hosts' = <<>> /\ leader' = 1 /\ live' = {} /\ at' = 1
      /\ pc' = (IF d THEN "destroyVMs" ELSE "resetNodes")
      /\ apiHost' = "other" => UserEndpoint \/ "forwardingRule" \in foreign
  BY Zenon DEF runReset
<1>2. pc' \in {"destroyVMs", "resetNodes"}
  BY <1>1, Zenon
<1>3. CloudInv'
  BY <1>1, SameCloud, Zenon DEF CloudInv
<1>4. PositionInv'
  BY <1>1, <1>2, MachinesAssumption DEF PositionInv, Applying, Ended, Resetting, Installing, Machines
<1>5. LoadBalancerInv' /\ ProbedInv' /\ JoinInv'
  BY <1>2, Zenon DEF LoadBalancerInv, ProbedInv, JoinInv, Creating, Installing
<1>6. ResetInv'
  <2>1. \A m \in Machines : 1 <= m
    BY MachinesAssumption DEF Machines
  <2>2. OwnRule /\ apiHost' = "other" => UserEndpoint'
    BY <1>1, SameWorld, Zenon DEF OwnRule, CloudInv
  <2> QED BY <1>1, <1>2, <2>1, <2>2, Zenon DEF ResetInv, CloudInv
<1> QED BY <1>3, <1>4, <1>5, <1>6, Zenon

LEMMA DestroyVMsStep ==
    ASSUME Inv, destroyControlPlaneMachines, world' = world
    PROVE  Inv'
<1> USE DEF Inv, Goto, cluster, cloud, EndReset
<1>1. /\ pc = "destroyVMs" /\ UNCHANGED <<resources, foreign, backends, ip, nodes, hosts, leader, live, apiHost, withLB>>
      /\ \A m \in vms : at <= m /\ m <= N /\ m \in Nat
      /\ at \in Nat \ {0} /\ resetting
  <2>1. pc = "destroyVMs" /\ UNCHANGED <<resources, foreign, backends, ip, nodes, hosts, leader, live, apiHost, withLB>>
    BY Zenon DEF destroyControlPlaneMachines
  <2>2. \A m \in vms : at <= m /\ m \in 1..N
    BY <2>1, Zenon DEF CloudInv, ResetInv, Machines
  <2>3. at \in Nat \ {0} /\ resetting
    BY <2>1, Zenon DEF PositionInv, Resetting
  <2> QED BY <2>1, <2>2, <2>3, MachinesAssumption
<1>2. at > N => vms = {} /\ joined = {}
  BY <1>1, MachinesAssumption DEF CloudInv
<1>3. CASE at > N /\ withLB /\ pc' = "destroyLB" /\ at' = 1 /\ UNCHANGED <<endpoints, vms, joined, down, resetting>>
  <2>1. CloudInv'
    BY <1>1, <1>3, SameCloud, Zenon DEF CloudInv
  <2>2. PositionInv'
    BY <1>1, <1>3 DEF PositionInv, Applying, Ended, Resetting, Installing
  <2>3. ResetInv'
    <3>1. \A i \in DOMAIN CleanupOrder' : ~(i < at')
      <4>1. DOMAIN CleanupOrder' = DOMAIN CleanupOrder
        BY <1>1, <1>3, Zenon DEF CleanupOrder
      <4> QED BY <1>3, <4>1, CleanupOrderIs
    <3> QED BY <1>1, <1>2, <1>3, <3>1, SameWorld, Zenon DEF ResetInv
  <2> QED BY <1>3, <2>1, <2>2, <2>3, Zenon DEF LoadBalancerInv, ProbedInv, JoinInv, Creating, Installing
<1>4. CASE at > N /\ pc' = "destroyed" /\ at' = 1 /\ UNCHANGED <<endpoints, vms, joined, down>>
  <2>1. CloudInv'
    BY <1>1, <1>2, <1>4, SameCloud, Zenon DEF CloudInv
  <2>2. PositionInv'
    BY <1>1, <1>4 DEF PositionInv, Applying, Ended, Resetting, Installing
  <2> QED BY <1>4, <2>1, <2>2, Zenon DEF LoadBalancerInv, ProbedInv, JoinInv, ResetInv, Creating, Installing
<1>5. CASE at \notin vms /\ pc' = "destroyVMs" /\ at' = at + 1 /\ UNCHANGED <<endpoints, vms, joined, down, resetting>>
  <2>1. CloudInv'
    BY <1>1, <1>5, SameCloud, Zenon DEF CloudInv
  <2>2. PositionInv'
    BY <1>1, <1>5 DEF PositionInv, Applying, Ended, Resetting, Installing
  <2>3. \A m \in vms : at + 1 <= m
    BY <1>1, <1>5
  <2> QED BY <1>1, <1>5, <2>1, <2>2, <2>3, SameWorld, Zenon
          DEF LoadBalancerInv, ProbedInv, JoinInv, ResetInv, Creating, Installing
<1>6. CASE at \in vms /\ InstanceGone(at) /\ UNCHANGED <<pc, at, resetting>>
  <2>1. PICK m \in Machines : m = at
    BY <1>6, Zenon DEF CloudInv
  <2>2. CloudInv' /\ vms' = vms \ {m}
    BY <1>1, <1>6, <2>1, GoneStep, Zenon
  <2>3. PositionInv'
    BY <1>1, <1>6, Zenon DEF PositionInv, Applying, Ended, Resetting, Installing
  <2> QED BY <1>1, <1>6, <2>2, <2>3, SameWorld, Zenon
          DEF LoadBalancerInv, ProbedInv, JoinInv, ResetInv, Creating, Installing
<1> QED BY <1>1, <1>3, <1>4, <1>5, <1>6, Zenon DEF destroyControlPlaneMachines

(* The list does not change while the cleanup goes through it.             *)
LEMMA SameOrder ==
    ASSUME Inv, UNCHANGED <<foreign, apiHost>>,
           resources' = resources \/ \E i \in DOMAIN CleanupOrder : resources' = resources \ {CleanupOrder[i]}
    PROVE  CleanupOrder' = CleanupOrder
<1>1. CASE apiHost # "other"
  BY <1>1, Zenon DEF CleanupOrder
<1>2. CASE apiHost = "other" /\ "address" \in resources \cup foreign
  <2>1. CleanupOrder = Firewalls
    BY <1>2, Zenon DEF CleanupOrder
  <2>2. \A i \in DOMAIN Firewalls : Firewalls[i] # "address"
    BY DEF Firewalls
  <2>3. "address" \in resources' \cup foreign'
    BY <1>2, <2>1, <2>2, Zenon
  <2> QED BY <1>2, <2>1, <2>3, Zenon DEF CleanupOrder
<1>3. CASE apiHost = "other" /\ "address" \notin resources \cup foreign
  <2>1. "address" \notin resources' \cup foreign'
    BY <1>3, Zenon
  <2> QED BY <1>3, <2>1, Zenon DEF CleanupOrder
<1> QED BY <1>1, <1>2, <1>3, Zenon

LEMMA DestroyLBStep ==
    ASSUME Inv, destroyControlPlaneLoadBalancer, world' = world
    PROVE  Inv'
<1> USE DEF Inv, Goto, EndReset
<1>1. /\ pc = "destroyLB" /\ UNCHANGED <<foreign, vms, ip, joined, down, nodes, hosts, leader, live, apiHost, withLB>>
      /\ vms = {} /\ joined = {} /\ withLB /\ at \in Nat \ {0} /\ resetting
      /\ DOMAIN CleanupOrder = 1..Len(CleanupOrder) /\ Len(CleanupOrder) \in Nat
  BY CleanupOrderIs, Zenon DEF destroyControlPlaneLoadBalancer, CloudInv, ResetInv, PositionInv, Resetting, deleteResource
<1>2. CASE pc' = "destroyed" /\ at' = 1 /\ UNCHANGED <<resources, backends, endpoints>>
  <2>1. CloudInv'
    BY <1>1, <1>2, SameCloud, Zenon DEF CloudInv
  <2>2. PositionInv'
    BY <1>1, <1>2 DEF PositionInv, Applying, Ended, Resetting, Installing
  <2> QED BY <1>2, <2>1, <2>2, Zenon DEF LoadBalancerInv, ProbedInv, JoinInv, ResetInv, Creating, Installing
<1>3. CASE /\ CleanupOrder[at] \notin resources /\ pc' = "destroyLB" /\ at' = at + 1
           /\ UNCHANGED <<resources, backends, endpoints, resetting>>
  <2>1. CloudInv'
    BY <1>1, <1>3, SameCloud, Zenon DEF CloudInv
  <2>2. PositionInv'
    BY <1>1, <1>3 DEF PositionInv, Applying, Ended, Resetting, Installing
  <2>3. CleanupOrder' = CleanupOrder
    BY <1>1, <1>3, SameOrder, Zenon
  <2>4. \A i \in DOMAIN CleanupOrder : i < at + 1 => i < at \/ i = at
    BY <1>1
  <2>5. ResetInv'
    BY <1>1, <1>3, <2>3, <2>4, SameWorld, Zenon DEF ResetInv
  <2> QED BY <1>3, <2>1, <2>2, <2>5, Zenon DEF LoadBalancerInv, ProbedInv, JoinInv, Creating, Installing
<1>4. CASE at <= Len(CleanupOrder) /\ deleteResource(CleanupOrder[at]) /\ UNCHANGED <<pc, at, resetting>>
  <2> DEFINE p == CleanupOrder[at]
  <2>1. /\ resources' = resources \ {p} /\ p \notin backends /\ backends' \subseteq backends
        /\ endpoints' = {e \in endpoints : Zone[e[1]] # p}
    BY <1>4, Zenon DEF deleteResource, InUse
  <2>2. CloudInv'
    BY <1>1, <1>4, <2>1, SameWorld, Zenon DEF CloudInv
  <2>3. PositionInv'
    BY <1>1, <1>4, Zenon DEF PositionInv, Applying, Ended, Resetting, Installing
  <2>4. CleanupOrder' = CleanupOrder
    BY <1>1, <1>4, <2>1, SameOrder
  <2>5. ResetInv'
    BY <1>1, <1>4, <2>1, <2>4, SameWorld, Zenon DEF ResetInv
  <2> QED BY <1>1, <1>4, <2>2, <2>3, <2>5, Zenon DEF LoadBalancerInv, ProbedInv, JoinInv, Creating, Installing
<1> QED BY <1>1, <1>2, <1>3, <1>4, Zenon DEF destroyControlPlaneLoadBalancer

LEMMA ResetNodesStep ==
    ASSUME Inv, resetAllNodes, world' = world
    PROVE  Inv'
<1> USE DEF Inv, Goto, cloud, EndReset
<1>1. /\ pc = "resetNodes" /\ UNCHANGED <<resources, foreign, backends, endpoints, vms, ip, nodes, hosts, leader, live>>
      /\ \A m \in joined : at <= m /\ m <= N /\ m \in Nat
      /\ at \in Nat \ {0} /\ resetting
  <2>1. pc = "resetNodes" /\ UNCHANGED <<resources, foreign, backends, endpoints, vms, ip, nodes, hosts, leader, live>>
    BY Zenon DEF resetAllNodes
  <2>2. \A m \in joined : at <= m /\ m \in 1..N
    BY <2>1, Zenon DEF CloudInv, ResetInv, Machines
  <2>3. at \in Nat \ {0} /\ resetting
    BY <2>1, Zenon DEF PositionInv, Resetting
  <2> QED BY <2>1, <2>2, <2>3, MachinesAssumption
<1>2. CASE at > N /\ pc' = "reset" /\ at' = 1 /\ UNCHANGED <<joined, down>>
  <2>0. joined = {}
    BY <1>1, <1>2, MachinesAssumption
  <2>1. CloudInv'
    BY <1>1, <1>2, <2>0, SameCloud, Zenon DEF CloudInv
  <2>2. PositionInv'
    BY <1>1, <1>2 DEF PositionInv, Applying, Ended, Resetting, Installing
  <2> QED BY <1>2, <2>1, <2>2, Zenon DEF LoadBalancerInv, ProbedInv, JoinInv, ResetInv, Creating, Installing
<1>3. CASE /\ pc' = "resetNodes" /\ at' = at + 1 /\ joined' = joined \ {at} /\ down' = down \ {at}
           /\ UNCHANGED resetting
  <2>1. CloudInv'
    BY <1>1, <1>3, SameWorld, Zenon DEF CloudInv
  <2>2. PositionInv'
    BY <1>1, <1>3 DEF PositionInv, Applying, Ended, Resetting, Installing
  <2>3. \A m \in joined' : at + 1 <= m
    BY <1>1, <1>3
  <2> QED BY <1>3, <2>1, <2>2, <2>3, Zenon DEF LoadBalancerInv, ProbedInv, JoinInv, ResetInv, Creating, Installing
<1> QED BY <1>1, <1>2, <1>3, Zenon DEF resetAllNodes

----------------------------------------------------------------------------
(* Failures and the operator.                                              *)

(* A step that changes nothing but what the invariant does not mention.    *)
LEMMA SameStep ==
    ASSUME Inv, UNCHANGED <<world, resources, foreign, backends, endpoints, vms, ip, joined, nodes>>,
           down' \subseteq joined,
           UNCHANGED <<pc, at, hosts, leader, live, apiHost, withLB, resetting>>
    PROVE  Inv'
<1> USE DEF Inv
<1>1. CloudInv' /\ (Managed' <=> Managed) /\ LBSet' = LBSet /\ LBParts' = LBParts
      /\ \A k : (HasEndpoint(k)' <=> HasEndpoint(k)) /\ (Behind(k)' <=> Behind(k))
  BY SameCloud, Zenon DEF CloudInv
<1>2. PositionInv' /\ LoadBalancerInv' /\ ProbedInv'
  BY <1>1 DEF PositionInv, LoadBalancerInv, ProbedInv
<1>3. JoinInv'
  BY <1>1, Zenon DEF JoinInv
<1>4. ResetInv'
  BY SameWorld, Zenon DEF ResetInv, CleanupOrder
<1> QED BY <1>1, <1>2, <1>3, <1>4, Zenon

(* The process ends with an error.                                         *)
LEMMA EndStep ==
    ASSUME Inv, UNCHANGED <<world, resources, foreign, backends, endpoints, vms, ip, joined, down, nodes>>,
           pc' = "failed", at' = 1, UNCHANGED <<hosts, leader, live, resetting>>
    PROVE  Inv'
<1> USE DEF Inv
<1>1. CloudInv'
  BY SameCloud, Zenon DEF CloudInv
<1>2. PositionInv'
  BY DEF PositionInv, Applying, Ended, Resetting, Installing
<1> QED BY <1>1, <1>2, Zenon DEF LoadBalancerInv, ProbedInv, JoinInv, ResetInv, Creating, Installing

(* An attempt of a task fails, and the next begins.                        *)
LEMMA FailStep ==
    ASSUME Inv, Careful, Fail, world' = world
    PROVE  Inv'
<1> USE DEF Inv, Goto, cloud, cluster, operator
<1>1. UNCHANGED <<resources, foreign, backends, endpoints, vms, ip, joined, down, nodes, hosts, leader, live,
                  apiHost, withLB, resetting>> /\ pc \notin Ended
  BY Zenon DEF Fail
<1>2. "retriedEndpoint" \notin world
  BY Zenon DEF Careful, CloudInv
<1>3. \/ pc' = "failed" /\ at' = 1
      \/ pc = "vm" /\ pc' = pc /\ at' = at
      \/ pc = "detach" /\ pc' = "removeJoining" /\ at' = 1
      \/ pc \notin {"vm", "leader", "attach", "detach"} /\ pc' = pc /\ at' = 1
  BY <1>2, Zenon DEF Fail, TaskStart
<1>4. CloudInv' /\ (Managed' <=> Managed) /\ LBSet' = LBSet /\ LBParts' = LBParts
      /\ \A k : (HasEndpoint(k)' <=> HasEndpoint(k)) /\ (Behind(k)' <=> Behind(k))
  BY <1>1, SameCloud, Zenon DEF CloudInv
<1>5. CASE pc' = "failed" /\ at' = 1
  BY <1>1, <1>5, EndStep, Zenon
<1>6. CASE pc = "vm" /\ pc' = pc /\ at' = at
  BY <1>1, <1>6, SameStep, Zenon DEF CloudInv
<1>7. CASE pc = "detach" /\ pc' = "removeJoining" /\ at' = 1
  <2>1. PositionInv'
    BY <1>1, <1>7 DEF PositionInv, Applying, Ended, Resetting, Installing
  <2> QED BY <1>1, <1>4, <1>7, <2>1, Zenon DEF LoadBalancerInv, ProbedInv, JoinInv, ResetInv, Creating, Installing
<1>8. CASE pc \notin {"vm", "leader", "attach", "detach"} /\ pc' = pc /\ at' = 1
  <2>1. PositionInv'
    BY <1>1, <1>8 DEF PositionInv
  <2>2. vms \subseteq Machines /\ joined \subseteq Machines /\ \A m \in Machines : 1 <= m /\ ~(m < 1)
    BY MachinesAssumption DEF CloudInv, Machines
  <2>3. (\A i \in DOMAIN LBParts : ~(i < 1)) /\ \A i \in DOMAIN CleanupOrder : ~(i < 1)
    BY LBPartsAre, CleanupOrderIs
  <2>4. LoadBalancerInv' /\ ProbedInv'
    BY <1>1, <1>4, <1>8, <2>3, Zenon DEF LoadBalancerInv, ProbedInv
  <2>5. JoinInv'
    BY <1>1, <1>4, <1>8, <2>2, Zenon DEF JoinInv
  <2>6. CleanupOrder' = CleanupOrder
    BY <1>1, Zenon DEF CleanupOrder
  <2>7. ResetInv'
    BY <1>1, <1>8, <2>2, <2>3, <2>6, SameWorld, Zenon DEF ResetInv
  <2> QED BY <1>4, <2>1, <2>4, <2>5, <2>7, Zenon
<1> QED BY <1>3, <1>5, <1>6, <1>7, <1>8, Zenon

(* A machine is lost, and its Node object with it.                         *)
LEMMA LoseStep ==
    ASSUME Inv, Careful, NEW m \in Machines, LoseVM(m), world' = world
    PROVE  Inv'
<1> USE DEF Inv, process, operator
<1>1. UNCHANGED <<world, resources, foreign, backends, ip, pc, at, hosts, leader, live, apiHost, withLB, resetting>>
      /\ InstanceGone(m)
  BY Zenon DEF LoseVM
<1>2. nodes' = nodes \ {m}
  BY Zenon DEF LoseVM, Careful, CloudInv
<1>3. /\ CloudInv' /\ vms' = vms \ {m} /\ joined' = joined \ {m} /\ (Managed' <=> Managed)
      /\ \A k \in Machines : /\ Behind(k)' => Behind(k)
                             /\ k # m /\ HasEndpoint(k) => HasEndpoint(k)'
  BY <1>1, <1>2, GoneStep, Zenon
<1>4. PositionInv' /\ LoadBalancerInv'
  BY <1>1, <1>3, SameWorld, Zenon DEF PositionInv, LoadBalancerInv
<1>5. ProbedInv'
  BY <1>1, <1>3, Zenon DEF ProbedInv
<1>6. JoinInv'
  BY <1>1, <1>3, Zenon DEF JoinInv, CloudInv, PositionInv
<1>7. CleanupOrder' = CleanupOrder
  BY <1>1, Zenon DEF CleanupOrder
<1>8. ResetInv'
  BY <1>1, <1>3, <1>7, SameWorld, Zenon DEF ResetInv
<1> QED BY <1>3, <1>4, <1>5, <1>6, <1>8, Zenon

----------------------------------------------------------------------------
(* The invariant.                                                          *)

LEMMA InitInv ==
    ASSUME Init
    PROVE  Inv
<1> USE DEF Init
<1>1. CloudInv
  BY Zenon DEF CloudInv, IPs
<1>2. PositionInv
  BY MachinesAssumption DEF PositionInv, Applying, Resetting, Ended, Installing, Machines
<1> QED BY <1>1, <1>2, Zenon DEF Inv, LoadBalancerInv, ProbedInv, JoinInv, ResetInv, Creating, Installing

(* Every step of the operator keeps it.                                    *)
LEMMA OperatorStep ==
    ASSUME Inv, Operator, world' = world
    PROVE  Inv'
<1>1. CASE runApply
  BY <1>1, ApplyBegins, Zenon
<1>2. CASE \E d, l, f, c \in BOOLEAN : runReset(d, l, f, c)
  BY <1>2, ResetBegins, Zenon
<1>3. CASE runReset(TRUE, TRUE, TRUE, TRUE)
  BY <1>3, ResetBegins, Zenon
<1>4. CASE Retire
  BY <1>4, SameStep, Zenon DEF Retire, cloud, cluster, process, Inv, CloudInv
<1> QED BY <1>1, <1>2, <1>3, <1>4, Zenon DEF Operator, ResetAgain, ResetAll

LEMMA NextInv ==
    ASSUME Inv, Careful, [Next]_vars
    PROVE  Inv'
<1>1. CASE UNCHANGED vars
  BY <1>1, SameStep, Zenon DEF vars, cloud, cluster, process, operator, Inv, CloudInv
<1>2. CASE Operator /\ world' = world
  BY <1>2, OperatorStep, Zenon
<1>3. CASE Kubeone /\ world' = world
  <2>1. CASE GiveUp
    BY <1>3, <2>1, EndStep, Zenon DEF GiveUp, Goto, cloud, cluster, operator
  <2>2. CASE EnsureLoadBalancer \/ FindOrCreateMachines \/ EnsureVM
    BY <1>3, <2>2, LoadBalancerStep, CreateStep, ListStep, Zenon
  <2>3. CASE ensureLeaderEndpoint \/ AttachLeader \/ EndMachines
    BY <1>3, <2>3, LeaderStep, AttachStep, MachinesEnd, Zenon
  <2>4. CASE Decide \/ WithHostnameOSAndProbes \/ initKubernetesLeader \/ repairClusterIfNeeded
    BY <1>3, <2>4, DecideStep, ReprobeStep, InitStep, RepairStep, Zenon
  <2>5. CASE RemoveJoiningLoadBalancerMembers \/ removeJoiningEndpoints \/ joinControlplaneNode
    BY <1>3, <2>5, RemoveJoiningStep, DetachStep, JoinStep, Zenon
  <2>6. CASE EnsureLoadBalancerMembers \/ joinStaticWorkerNodes
    BY <1>3, <2>6, MembersStep, WorkersStep, Zenon
  <2>7. CASE destroyControlPlaneMachines \/ destroyControlPlaneLoadBalancer \/ resetAllNodes
    BY <1>3, <2>7, DestroyVMsStep, DestroyLBStep, ResetNodesStep, Zenon
  <2> QED BY <1>3, <2>1, <2>2, <2>3, <2>4, <2>5, <2>6, <2>7, Zenon DEF Kubeone
<1>4. CASE Fail /\ world' = world
  BY <1>4, FailStep, Zenon
<1>5. ASSUME NEW m \in Machines, LoseVM(m), world' = world PROVE Inv'
  BY <1>5, LoseStep, Zenon
<1>6. ASSUME NEW m \in Machines, StopAPIServer(m) \/ StartAPIServer(m), world' = world PROVE Inv'
  BY <1>6, SameStep, Zenon DEF StopAPIServer, StartAPIServer, Serving, cloud, process, operator, Inv, CloudInv
<1> QED BY <1>1, <1>2, <1>3, <1>4, <1>5, <1>6, Zenon DEF Next, Environment

LEMMA InvHolds ==
    ASSUME Careful
    PROVE  Spec => []Inv
<1>1. Init => Inv
  BY InitInv, Zenon
<1>2. Inv /\ [Next]_vars => Inv'
  BY NextInv, Zenon
<1> QED BY <1>1, <1>2, PTL DEF Spec

----------------------------------------------------------------------------
(* What the runs check on small instances.                                 *)

(* When kubeadm join runs on a machine, the machine is not behind the load *)
(* balancer and the leader that serves is (RemoveJoiningLoadBalancerMembers*)
(* and the task of joinControlplaneNode).                                  *)
THEOREM FollowersJoinFromOutside ==
    ASSUME Careful
    PROVE  Spec => []JoinsFromOutside
<1>1. Inv => JoinsFromOutside
  <2> SUFFICES ASSUME Inv, pc = "join", at <= Len(hosts), at # leader, Managed
               PROVE  /\ hosts[at] \in vms \ joined => ~Behind(hosts[at])
                      /\ hosts[leader] \in joined => HasEndpoint(hosts[leader])
    BY Zenon DEF JoinsFromOutside
  <2>1. Len(hosts) = N /\ \A m \in Machines : hosts[m] = m
    BY AllHosts, Zenon DEF Installing
  <2>2. at \in Machines /\ leader \in Machines
    BY <2>1, MachinesAssumption DEF Inv, PositionInv, Machines
  <2> QED BY <2>1, <2>2, Zenon DEF Inv, JoinInv
<1> QED BY <1>1, InvHolds, PTL

(* A step that leaves endpoints and machines alone and takes nobody out of *)
(* the cluster.                                                            *)
LEMMA SameMembers ==
    ASSUME UNCHANGED <<backends, endpoints, vms, ip>>, joined \subseteq joined', down' \subseteq down
    PROVE  HealthyMembers \subseteq HealthyMembers'
BY Zenon DEF HealthyMembers, Serving, Behind, Endpoint

(* The members that ensureEndpoint and removeJoiningEndpoints leave.       *)
LEMMA MembersStay ==
    ASSUME Inv, Kubeone, pc \in Applying, world' = world, joined \subseteq joined', down' \subseteq down
    PROVE  HealthyMembers \subseteq HealthyMembers'
<1> USE DEF cloud, cluster, process, operator
<1>1. CASE FindOrCreateMachines
  <2>1. \A k \in vms : k \in vms' /\ Endpoint(k)' = Endpoint(k)
    BY <1>1, Zenon DEF FindOrCreateMachines, Inv, CloudInv, Endpoint
  <2> QED BY <1>1, <2>1, Zenon DEF FindOrCreateMachines, HealthyMembers, Serving, Behind
<1>2. CASE AttachLeader
  <2>1. CASE ensureEndpoint(at)
    <3>1. PICK m \in Machines : m = at
      BY <1>2, MachinesAssumption DEF AttachLeader, Inv, PositionInv, Machines
    <3>2. ~UserEndpoint /\ CloudInv
      BY <1>2, ManagedHasLB, Zenon DEF AttachLeader, Inv, LoadBalancerInv
    <3> QED BY <1>2, <2>1, <3>1, <3>2, EndpointStep, Zenon DEF AttachLeader
  <2> QED BY <1>2, <2>1, SameMembers, Zenon DEF AttachLeader
<1>3. CASE RemoveJoiningLoadBalancerMembers
  <2>1. CASE Managed /\ ensureEndpoint(hosts[leader])
    <3>1. PICK m \in Machines : m = hosts[leader]
      BY <1>3, AllHosts, Zenon DEF RemoveJoiningLoadBalancerMembers, Inv, PositionInv, Installing
    <3>2. ~UserEndpoint /\ CloudInv
      BY <2>1, ManagedHasLB, Zenon DEF Inv
    <3> QED BY <1>3, <2>1, <3>1, <3>2, EndpointStep, Zenon DEF RemoveJoiningLoadBalancerMembers, Inv
  <2> QED BY <1>3, <2>1, SameMembers, Zenon DEF RemoveJoiningLoadBalancerMembers
<1>4. CASE EnsureLoadBalancerMembers
  <2>1. CASE Managed /\ at <= N /\ ensureEndpoint(at)
    <3>1. PICK m \in Machines : m = at
      BY <2>1, MachinesAssumption DEF Inv, PositionInv, Machines
    <3>2. ~UserEndpoint /\ CloudInv
      BY <2>1, ManagedHasLB, Zenon DEF Inv
    <3> QED BY <1>4, <2>1, <3>1, <3>2, EndpointStep, Zenon DEF EnsureLoadBalancerMembers
  <2>2. CASE UNCHANGED <<backends, endpoints>>
    BY <1>4, <2>2, SameMembers, Zenon DEF EnsureLoadBalancerMembers
  <2>3. at \in Nat /\ N \in Nat
    BY MachinesAssumption, Zenon DEF Inv, PositionInv
  <2> QED BY <1>4, <2>1, <2>2, <2>3 DEF EnsureLoadBalancerMembers
<1>5. CASE removeJoiningEndpoints
  <2>1. joiningFollowers \cap joined = {}
    BY <1>5, AllHosts, Zenon DEF removeJoiningEndpoints, Inv, ProbedInv, Installing
  <2>2. \A e \in endpoints : e[1] \in joined => e \in endpoints'
    BY <1>5, <2>1, Zenon DEF removeJoiningEndpoints
  <2>3. UNCHANGED <<backends, vms, ip>>
    BY <1>5, Zenon DEF removeJoiningEndpoints
  <2> QED BY <2>2, <2>3, Zenon DEF HealthyMembers, Serving, Behind, Endpoint
<1>6. CASE EnsureLoadBalancer \/ EnsureVM \/ ensureLeaderEndpoint \/ EndMachines \/ Decide
           \/ WithHostnameOSAndProbes
  BY <1>6, SameMembers, Zenon DEF EnsureLoadBalancer, EnsureVM, ensureLeaderEndpoint, EndMachines, Decide,
                           WithHostnameOSAndProbes
<1>7. CASE initKubernetesLeader \/ repairClusterIfNeeded \/ joinControlplaneNode
           \/ joinStaticWorkerNodes \/ GiveUp
  BY <1>7, SameMembers, Zenon DEF initKubernetesLeader, repairClusterIfNeeded, joinControlplaneNode,
                           joinStaticWorkerNodes, GiveUp
<1>8. ~(destroyControlPlaneMachines \/ destroyControlPlaneLoadBalancer \/ resetAllNodes)
  BY Zenon DEF destroyControlPlaneMachines, destroyControlPlaneLoadBalancer, resetAllNodes, Applying
<1> QED BY <1>1, <1>2, <1>3, <1>4, <1>5, <1>6, <1>7, <1>8, Zenon DEF Kubeone

(* No step of kubeone apply takes the last healthy member from the load    *)
(* balancer (ensureEndpoint, removeJoiningEndpoints).                      *)
THEOREM ApplyNeverCutsOff ==
    ASSUME Careful
    PROVE  Spec => NeverCutsOff
<1>1. ASSUME Inv, [Next]_vars, pc \in Applying, HealthyMembers # {},
             joined \subseteq joined', down' \subseteq down
      PROVE  HealthyMembers' # {}
  <2>1. CASE UNCHANGED vars
    BY <1>1, <2>1, SameMembers, Zenon DEF vars, cloud
  <2>2. CASE Operator /\ world' = world
    BY <1>1, <2>2, Zenon DEF Operator, runApply, ResetAgain, ResetAll, runReset, Retire, Ended, Applying
  <2>3. CASE Kubeone /\ world' = world
    BY <1>1, <2>3, MembersStay, Zenon
  <2>4. CASE Fail
    BY <1>1, <2>4, SameMembers, Zenon DEF Fail, cloud
  <2>5. ASSUME NEW m \in Machines, StopAPIServer(m) \/ StartAPIServer(m) PROVE HealthyMembers' # {}
    BY <1>1, <2>5, SameMembers, Zenon DEF StopAPIServer, StartAPIServer, cloud
  <2>6. ASSUME NEW m \in Machines, LoseVM(m) PROVE HealthyMembers' # {}
    <3>1. joined' = joined \ {m} /\ vms' = vms \ {m} /\ backends' = backends /\ ip' = ip
          /\ \A e \in endpoints : e # Endpoint(m) => e \in endpoints'
      BY <2>6, Zenon DEF LoseVM, InstanceGone
    <3>2. \A k \in joined : k # m /\ (Behind(k) => Behind(k)')
      BY <1>1, <3>1, Zenon DEF Behind, Endpoint
    <3> QED BY <1>1, <3>2, Zenon DEF HealthyMembers, Serving
  <2> QED BY <1>1, <2>1, <2>2, <2>3, <2>4, <2>5, <2>6, Zenon DEF Next, Environment
<1>2. Inv /\ [Next]_vars =>
        [/\ pc \in Applying /\ HealthyMembers # {}
         /\ joined \subseteq joined' /\ down' \subseteq down
         => HealthyMembers' # {}]_vars
  BY <1>1, Zenon
<1> QED BY <1>2, InvHolds, PTL DEF Spec, NeverCutsOff

(* Only the last task ends kubeone apply, and only the end of the cleanup  *)
(* ends kubeone reset with everything destroyed.                           *)
LEMMA EndedBy ==
    ASSUME [Next]_vars
    PROVE  /\ pc # "applied" /\ pc' = "applied" => joinStaticWorkerNodes
           /\ pc # "destroyed" /\ pc' = "destroyed" =>
                  destroyControlPlaneMachines \/ destroyControlPlaneLoadBalancer
<1> DEFINE Quiet == pc' = pc \/ pc' \notin {"applied", "destroyed"}
<1> USE DEF Goto
<1>1. CASE UNCHANGED vars
  BY <1>1, Zenon DEF vars, process
<1>2. Operator => Quiet
  BY Zenon DEF Operator, runApply, ResetAgain, ResetAll, runReset, Retire, process
<1>3. EnsureLoadBalancer \/ FindOrCreateMachines \/ EnsureVM \/ ensureLeaderEndpoint \/ AttachLeader
      \/ EndMachines => Quiet
  BY Zenon DEF EnsureLoadBalancer, FindOrCreateMachines, EnsureVM, ensureLeaderEndpoint, AttachLeader,
         EndMachines, process
<1>4. Decide \/ WithHostnameOSAndProbes \/ initKubernetesLeader \/ repairClusterIfNeeded
      \/ RemoveJoiningLoadBalancerMembers => Quiet
  BY Zenon DEF Decide, WithHostnameOSAndProbes, initKubernetesLeader, repairClusterIfNeeded,
         RemoveJoiningLoadBalancerMembers
<1>5. removeJoiningEndpoints \/ joinControlplaneNode \/ EnsureLoadBalancerMembers \/ resetAllNodes
      \/ GiveUp => Quiet
  BY Zenon DEF removeJoiningEndpoints, joinControlplaneNode, EnsureLoadBalancerMembers, resetAllNodes,
         EndReset, GiveUp
<1>6. joinStaticWorkerNodes => pc' # "destroyed"
  BY Zenon DEF joinStaticWorkerNodes
<1>7. destroyControlPlaneMachines \/ destroyControlPlaneLoadBalancer => pc' # "applied"
  BY Zenon DEF destroyControlPlaneMachines, destroyControlPlaneLoadBalancer, EndReset
<1>8. Environment => Quiet
  BY Zenon DEF Environment, Fail, TaskStart, LoseVM, StopAPIServer, StartAPIServer, process
<1> QED BY <1>1, <1>2, <1>3, <1>4, <1>5, <1>6, <1>7, <1>8, Zenon DEF Next, Kubeone

(* When kubeone apply has succeeded the load balancer is complete, and     *)
(* every member of the cluster is behind it with its address and no other  *)
(* (EnsureLoadBalancerMembers, also for members of earlier runs).          *)
THEOREM ApplyPutsAllBehind ==
    ASSUME Careful
    PROVE  Spec => AllBehind
<1>1. ASSUME Inv, [Next]_vars, pc # "applied", pc' = "applied"
      PROVE  /\ {LBParts[i] : i \in DOMAIN LBParts} \subseteq resources'
             /\ Managed => \A m \in joined : HasEndpoint(m)
             /\ \A e \in endpoints : e[1] \in joined => e = Endpoint(e[1])
  <2>1. pc = "workers" /\ resources' = resources
    BY <1>1, EndedBy, Zenon DEF joinStaticWorkerNodes, cloud
  <2>2. LBSet \subseteq resources
    BY <1>1, <2>1, Zenon DEF Inv, LoadBalancerInv, Installing
  <2>3. Managed => \A m \in joined : HasEndpoint(m)
    BY <1>1, <2>1, Zenon DEF Inv, JoinInv
  <2>4. ASSUME NEW e \in endpoints, e[1] \in joined PROVE e = Endpoint(e[1])
    <3>1. Managed
      BY <1>1, <2>2, ManagedHasLB, LBPartsAre, Zenon DEF Inv, Managed, Parts
    <3>2. Endpoint(e[1]) \in endpoints /\ Endpoint(e[1])[1] = e[1]
      BY <2>3, <2>4, <3>1, Zenon DEF HasEndpoint, Behind, Endpoint
    <3> QED BY <1>1, <3>2, Zenon DEF Inv, CloudInv
  <2> QED BY <2>1, <2>2, <2>3, <2>4, Zenon DEF LBSet
<1>2. Inv /\ [Next]_vars =>
        [pc # "applied" /\ pc' = "applied" =>
            /\ {LBParts[i] : i \in DOMAIN LBParts} \subseteq resources'
            /\ Managed => \A m \in joined : HasEndpoint(m)
            /\ \A e \in endpoints : e[1] \in joined => e = Endpoint(e[1])]_vars
  BY <1>1, Zenon
<1> QED BY <1>2, InvHolds, PTL DEF Spec, AllBehind

(* When kubeone reset has destroyed the machines, none is left, and when   *)
(* it was to destroy the load balancer too, no resource of it is left      *)
(* (CleanupMachines, the cleanup of the load balancer).                    *)
THEOREM ResetLeavesNothing ==
    ASSUME Careful, OwnRule
    PROVE  Spec => NothingLeft
<1>1. ASSUME Inv, [Next]_vars, pc # "destroyed", pc' = "destroyed"
      PROVE  vms' = {} /\ (withLB => resources' = {})
  <2>1. CASE destroyControlPlaneMachines
    <3>1. at > N /\ ~withLB /\ vms' = vms /\ pc = "destroyVMs"
      BY <1>1, <2>1, Zenon DEF destroyControlPlaneMachines, Goto, EndReset, cloud
    <3>2. \A m \in vms : at <= m /\ m \in 1..N
      BY <1>1, <3>1, Zenon DEF Inv, ResetInv, CloudInv, Machines
    <3>3. vms = {}
      BY <1>1, <3>1, <3>2, MachinesAssumption DEF Inv, PositionInv
    <3> QED BY <3>1, <3>3, Zenon
  <2>2. CASE destroyControlPlaneLoadBalancer
    <3>1. at > Len(CleanupOrder) /\ vms' = vms /\ resources' = resources /\ pc = "destroyLB"
      BY <1>1, <2>2, Zenon DEF destroyControlPlaneLoadBalancer, Goto, EndReset
    <3>2. vms = {} /\ \A i \in DOMAIN CleanupOrder : i < at => CleanupOrder[i] \notin resources
      BY <1>1, <3>1, Zenon DEF Inv, ResetInv
    <3>3. \A i \in 1..Len(CleanupOrder) : i < at
      BY <1>1, <3>1, CleanupOrderIs DEF Inv, PositionInv
    <3>4. \A i \in 1..Len(CleanupOrder) : CleanupOrder[i] \notin resources
      BY <3>2, <3>3, CleanupOrderIs, Zenon
    <3>5. CASE apiHost = "other"
      <4>1. resources \subseteq {"apiFirewall", "healthCheckFirewall"}
        BY <1>1, <3>1, <3>5, Zenon DEF Inv, ResetInv, CloudInv
      <4>2. "apiFirewall" \notin resources /\ "healthCheckFirewall" \notin resources
        BY <3>4, CleanupOrderIs, Zenon
      <4> QED BY <3>1, <3>2, <4>1, <4>2, Zenon
    <3>6. CASE apiHost # "other"
      <4>1. \A p \in Parts \cup Zones : p \notin resources
        BY <3>4, <3>6, CleanupOrderIs, Zenon
      <4>2. resources \subseteq Parts \cup Zones
        BY <1>1, LBPartsAre, Zenon DEF Inv, CloudInv, Parts
      <4> QED BY <3>1, <3>2, <4>1, <4>2, Zenon
    <3> QED BY <3>5, <3>6, Zenon
  <2> QED BY <1>1, <2>1, <2>2, EndedBy, Zenon
<1>2. Inv /\ [Next]_vars =>
        [pc # "destroyed" /\ pc' = "destroyed" => vms' = {} /\ (withLB => resources' = {})]_vars
  BY <1>1, Zenon
<1> QED BY <1>2, InvHolds, PTL DEF Spec, NothingLeft
=============================================================================
