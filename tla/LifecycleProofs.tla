-------------------------- MODULE LifecycleProofs --------------------------
(***************************************************************************)
(* For any scripts of commands, any number of workers, Services and        *)
(* claims, and all faults: the number of machines that users asked for is  *)
(* kept, and a reset leaves nothing in the cloud.                          *)
(***************************************************************************)
EXTENDS Lifecycle, FiniteSetTheorems, TLAPS

----------------------------------------------------------------------------
(* What the theorems assume of the scripts.                                *)

(* Machine-controller is there while there are workers: where the cluster  *)
(* starts with some, where the manifest has some, and where a reset is to  *)
(* destroy them; and nobody declares its addon only to have it deleted.    *)
Tended ==
    \A w \in Worlds :
        /\ (\E x \in Workers : w.mds[x] # NoMD) => \E p \in w.live : p[1] = "machinecontroller"
        /\ \A c \in Range(w.script) :
              /\ c.cmd = "apply" /\ DOMAIN c.manifest.workers # {} => c.manifest.mc
              /\ c.cmd = "reset" /\ c.flags.workers => c.manifest.mc
              /\ c.cmd = "apply" =>
                    \A i \in Declared(c.manifest, TRUE) : c.manifest.addons[i].name # "machinecontroller"

(* The resets of a script are to clean up the same things.                 *)
OneCleanup ==
    \A w \in Worlds : \A c, d \in Range(w.script) :
        c.cmd = "reset" /\ d.cmd = "reset" =>
            c.flags.lbs = d.flags.lbs /\ c.flags.volumes = d.flags.volumes /\ c.flags.workers = d.flags.workers

----------------------------------------------------------------------------
(* The process.                                                            *)

ApplyNames ==
    {"init", "credentials", "cleanupStale", "addons", "userAddons", "helm", "externalCCM", "machine-controller",
     "operating-system-manager", "upgradeMachineDeployments", "createMachineDeployments"}
ResetNames == {"removeLBServices", "removeVolumes", "destroyWorkers", "resetAllNodes"}
TaskNames == IF Resetting THEN ResetNames ELSE ApplyNames
HelmOps == {"release", "runRelease", "finishRelease", "label", "uninstall"}
LastTasks == {"createMachineDeployments", "resetAllNodes"}

\* The commands left are the end of the script; a reset may go on without its
\* cleanup when the control plane is down.
ScriptInv ==
    /\ world \in Worlds
    /\ script \in Seq(Range(script)) /\ Len(script) <= Len(world.script)
    /\ \A i \in 1..Len(script) :
          /\ script[i] = [cmd |-> script[i].cmd, manifest |-> script[i].manifest, flags |-> script[i].flags]
          /\ script[i].cmd = world.script[Done + i].cmd
          /\ script[i].manifest = world.script[Done + i].manifest
          /\ i # 1 \/ up \/ script[i].cmd # "reset" => script[i] = world.script[Done + i]

IsSeq(q) == q \in Seq(Range(q))

QueueInv ==
    /\ IsSeq(steps) /\ IsSeq(todo)
    /\ status # "running" => steps = <<>> /\ todo = <<>>
    /\ status = "running" => script # <<>> /\ Range(todo) \subseteq TaskNames
    /\ steps # <<>> => task \in TaskNames
    /\ \A i \in 1..Len(todo) - 1 : todo[i] \notin LastTasks
    /\ steps # <<>> /\ task \in LastTasks => todo = <<>>

\* Which requests task t of command com may make.
Legal(com, t, r) ==
    /\ r.op = "createWorker" => t = "createMachineDeployments" /\ com.cmd # "reset" /\ r.name \in DOMAIN com.manifest.workers
    /\ r.op \in {"getWorker", "updateWorker", "deleteMD"} => r.name \in Workers
    /\ r.op \in {"listWorkers", "getWorker", "updateWorker"} => t = "upgradeMachineDeployments" /\ com.cmd # "reset"
    /\ r.op \in {"release", "runRelease", "finishRelease", "label"} => r.rel \in Range(com.manifest.helm)
    /\ r.op \in HelmOps => t = "helm" /\ com.cmd # "reset"
    /\ r.op = "teardown" => t = "resetAllNodes"
    /\ r.op = "crds" => t = "destroyWorkers"
    /\ r.op = "list" => r.name \in {"mds", "machineSets", "machines"}
    /\ Tended /\ r.op \in {"migrate", "delete", "cleanupStale"} => r.addon # "machinecontroller"

\* Such requests, none of which rests on an answer.
Fine(com, t, q) == IsSeq(q) /\ \A r \in Range(q) : Legal(com, t, r) /\ r.op \notin {"updateWorker", "runRelease"}

\* Only the first request may rest on an answer, the one just before it.
Queue(com, t, q) == IsSeq(q) /\ (q # <<>> => Legal(com, t, Head(q)) /\ Fine(com, t, Tail(q)))

RequestsInv == Queue(Head(script), task, steps)

\* All the requests of task t have been answered.
Passed(t) == t \notin Range(todo) /\ ~(task = t /\ steps # <<>>)

\* Task t goes on to wait for the answer to r.
EndsWith(t, r) == task = t /\ steps # <<>> /\ steps # <<Again>> => steps[Len(steps)] = r

----------------------------------------------------------------------------
(* Workers.                                                                *)

\* What was read of a MachineDeployment is older than it, or it is the same.
ReadInv ==
    /\ mds \in [Workers -> MachineDeployment \cup {NoMD}] /\ machineSets \subseteq Workers
    /\ steps # <<>> /\ Head(steps).op = "updateWorker" =>
          LET s == Head(steps)
          IN /\ s.read \in MachineDeployment
             /\ mds[s.name] # NoMD => /\ s.read.rv <= mds[s.name].rv
                                      /\ s.read.rv = mds[s.name].rv => s.read.replicas = mds[s.name].replicas

NoWorkers == (\A w \in Workers : mds[w] = NoMD) /\ \A x \in DOMAIN machines : machines[x] = "none"

ControllerInv ==
    Tended => /\ ObjectsOf("machinecontroller") = {} => NoWorkers
              /\ status = "running" /\ ~Resetting /\ m.mc =>
                    /\ Passed("machine-controller") => ObjectsOf("machinecontroller") # {}
                    /\ EndsWith("machine-controller", wait("machine-controller"))

----------------------------------------------------------------------------
(* The cloud.                                                              *)

\* Nothing is in the cloud without the object it belongs to.
LbsInv ==
    /\ services \in [Services -> {"none", "live", "deleting"}]
    /\ \A x \in lbs : x \in Services /\ services[x] # "none"
DisksInv ==
    /\ claims \in [Claims -> {"none", "pending", "bound", "deleting"}]
    /\ volumes \in [Claims -> {"none", "bound", "released"}]
    /\ \A c \in disks : c \in Claims /\ volumes[c] # "none"
VmsInv ==
    /\ machines \in [Workers \X (1..Machines) -> {"none", "live", "deleting"}]
    /\ \A x \in vms : x \in DOMAIN machines /\ machines[x] # "none"

\* A reset is past a cleanup only when what it waited for has gone and cannot
\* come back.
Cleanup(t, what) ==
    /\ EndsWith(t, request("until", what))
    /\ task = t /\ steps # <<>> /\ steps # <<Again>> =>
          what \in webhooks \/ Head(steps) = request("block", what)
    /\ Passed(t) => what \in webhooks /\ Gone(what)

\* It deletes the MachineDeployments that there are, and waits for the machines.
InView ==
    \/ request("list", "mds") \in Range(steps)
    \/ \A w \in Workers : mds[w] # NoMD => request("deleteMD", w) \in Range(steps)
Destruction ==
    /\ task = "destroyWorkers" /\ steps # <<>> /\ steps # <<Again>> =>
          \/ steps = <<request("crds", "")>>
          \/ steps[Len(steps)] = request("until", "machines") /\ InView
    /\ Passed("destroyWorkers") => skipped \/ NoWorkers

CleanupInv ==
    status = "running" /\ Resetting /\ up =>
        /\ flags.lbs => Cleanup("removeLBServices", "services")
        /\ flags.volumes => Cleanup("removeVolumes", "volumes")
        /\ flags.workers /\ Tended => Destruction

Clean(f) ==
    /\ f.lbs => lbs = {}
    /\ f.volumes => disks \subseteq Retained
    /\ f.workers => skipped \/ vms = {}

DownInv ==
    Tended /\ OneCleanup /\ ~up =>
        \A c \in Range(world.script) : c.cmd = "reset" => Clean(c.flags)

----------------------------------------------------------------------------
(* Sequences.                                                              *)

\* A nonempty set of naturals has a least element.
LEMMA Least ==
    ASSUME NEW T \in SUBSET Nat, T # {}
    PROVE  \E i \in T : \A j \in Nat : j < i => j \notin T
<1>1. IsWellFoundedOn(OpToRel(<, Nat), Nat)
  BY NatLessThanWellFounded, Zenon
<1> \E x \in T : \A y \in T : ~(<<y, x>> \in OpToRel(<, Nat))
  BY <1>1, WFMin, Zenon
<1> QED BY Zenon DEF OpToRel

\* The function by which Flat is defined.
Flattens(lists, f, n) ==
    f = [i \in 0..n |-> IF i = 0 THEN <<>> ELSE f[i - 1] \o lists[i]]

\* There is such a function.
LEMMA CanFlatten ==
    ASSUME NEW S, NEW lists \in Seq(Seq(S)), NEW n \in 0..Len(lists)
    PROVE  \E f \in [0..n -> Seq(S)] : Flattens(lists, f, n)
<1> DEFINE T == {k \in 0..Len(lists) : ~\E f \in [0..k -> Seq(S)] : Flattens(lists, f, k)}
<1>0. Len(lists) \in Nat /\ <<>> \in Seq(S) /\ \A i \in 1..Len(lists) : lists[i] \in Seq(S)
  OBVIOUS
<1>1. T = {}
  <2> SUFFICES ASSUME T # {} PROVE FALSE
    OBVIOUS
  <2>1. PICK k \in T : \A j \in Nat : j < k => j \notin T
    <3>1. T \in SUBSET Nat
      BY <1>0
    <3> HIDE DEF T
    <3> QED BY <3>1, Least
  <2>2. CASE k = 0
    <3> DEFINE g == [i \in 0..0 |-> <<>>]
    <3>1. g \in [0..0 -> Seq(S)] /\ Flattens(lists, g, 0)
      BY <1>0, <2>1, <2>2 DEF Flattens
    <3> QED BY <2>1, <2>2, <3>1, Zenon
  <2>3. CASE k # 0
    <3>1. k - 1 \in 0..Len(lists) /\ k - 1 \notin T /\ k \in 1..Len(lists)
      <4>1. k \in 1..Len(lists) /\ k - 1 \in Nat /\ k - 1 < k /\ k - 1 \in 0..Len(lists)
        BY <1>0, <2>1, <2>3
      <4> HIDE DEF T
      <4> QED BY <2>1, <4>1
    <3>2. PICK f \in [0..k - 1 -> Seq(S)] : Flattens(lists, f, k - 1)
      BY <3>1
    <3> DEFINE g == [i \in 0..k |-> IF i = k THEN f[k - 1] \o lists[k] ELSE f[i]]
    <3>3. f[k - 1] \o lists[k] \in Seq(S)
      <4>1. f[k - 1] \in Seq(S) /\ lists[k] \in Seq(S)
        BY <1>0, <3>1
      <4> QED BY <4>1
    <3>4. \A i \in 0..k : i # k => i \in 0..k - 1
      BY <3>1
    <3>5. g \in [0..k -> Seq(S)]
      BY <3>3, <3>4
    <3>6. Flattens(lists, g, k)
      <4>1. ASSUME NEW i \in 0..k PROVE g[i] = IF i = 0 THEN <<>> ELSE g[i - 1] \o lists[i]
        <5>1. CASE i = k
          <6>1. k - 1 \in 0..k /\ k - 1 # k /\ k \in 0..k
            BY <3>1
          <6>2. g[k - 1] = f[k - 1] /\ g[k] = f[k - 1] \o lists[k]
            BY <6>1, Zenon
          <6> QED BY <2>3, <5>1, <6>2, Zenon
        <5>2. CASE i # k
          <6>1. i \in 0..k - 1 /\ g[i] = f[i]
            BY <3>4, <5>2
          <6>2. f[i] = IF i = 0 THEN <<>> ELSE f[i - 1] \o lists[i]
            BY <3>2, <6>1, Zenon DEF Flattens
          <6>3. i # 0 => i - 1 \in 0..k /\ i - 1 # k /\ g[i - 1] = f[i - 1]
            BY <3>1, <6>1
          <6> QED BY <6>1, <6>2, <6>3
        <5> QED BY <5>1, <5>2
      <4> QED BY <3>5, <4>1, Zenon DEF Flattens
    <3> QED BY <2>1, <3>5, <3>6, Zenon
  <2> QED BY <2>2, <2>3
<1> QED BY <1>1

\* The concatenation of sequences over a set is a sequence over that set.
LEMMA FlattenType ==
    ASSUME NEW S, NEW lists \in Seq(Seq(S))
    PROVE  Flat(lists) \in Seq(S)
<1> DEFINE n == Len(lists)
<1> DEFINE g == CHOOSE f : Flattens(lists, f, n)
<1>0. n \in Nat /\ n \in 0..n /\ <<>> \in Seq(S) /\ \A i \in 1..n : lists[i] \in Seq(S)
  OBVIOUS
<1> USE <1>0
<1> Flat(lists) = g[n]
  BY DEF Flat, Flattens
<1>2. Flattens(lists, g, n)
  <2> \E f : Flattens(lists, f, n)
    BY CanFlatten
  <2> QED OBVIOUS
<1> HIDE DEF g
<1> DEFINE T == {i \in 0..n : g[i] \notin Seq(S)}
<1> T = {}
  <2> SUFFICES ASSUME T # {} PROVE FALSE
    OBVIOUS
  <2>1. PICK k \in T : \A j \in Nat : j < k => j \notin T
    <3> T \in SUBSET Nat
      OBVIOUS
    <3> HIDE DEF T
    <3> QED BY Least
  <2> USE <2>1
  <2>2. g[k] = IF k = 0 THEN <<>> ELSE g[k - 1] \o lists[k]
    BY <1>2, Zenon DEF Flattens
  <2>3. k # 0 => k \in 1..n /\ k - 1 \in 0..n /\ k - 1 \notin T
    OBVIOUS
  <2> g[k] \in Seq(S)
    BY <2>2, <2>3
  <2> QED OBVIOUS
<1> QED OBVIOUS

\* A sequence over some set is one over its elements.
LEMMA OwnElements ==
    ASSUME NEW S, NEW s \in Seq(S)
    PROVE  IsSeq(s) /\ Range(s) \subseteq S
<1>1. Len(s) \in Nat /\ DOMAIN s = 1..Len(s) /\ \A i \in 1..Len(s) : s[i] \in S
  OBVIOUS
<1> USE <1>1
<1>2. s = [i \in 1..Len(s) |-> s[i]] /\ \A i \in 1..Len(s) : s[i] \in Range(s)
  BY DEF Range
<1> [i \in 1..Len(s) |-> s[i]] \in Seq(Range(s))
  BY <1>2
<1> QED BY <1>2, Zenon DEF IsSeq, Range

LEMMA Places ==
    ASSUME NEW s, IsSeq(s)
    PROVE  /\ Len(s) \in Nat /\ DOMAIN s = 1..Len(s) /\ (s = <<>> <=> Len(s) = 0)
           /\ \A i \in 1..Len(s) : s[i] \in Range(s)
           /\ \A x \in Range(s) : \E i \in 1..Len(s) : s[i] = x
BY DEF IsSeq, Range

LEMMA NoneAndOne ==
    /\ IsSeq(<<>>) /\ Range(<<>>) = {}
    /\ \A x : IsSeq(<<x>>) /\ Range(<<x>>) = {x}
    /\ \A x, y : IsSeq(<<x, y>>)
<1> Range(<<>>) = {} /\ \A x : Range(<<x>>) = {x}
  BY DEF Range
<1>2. \A x, y : <<x, y>> \in Seq({x, y})
  OBVIOUS
<1> ASSUME NEW x, NEW y, NEW q, q = <<x, y>> PROVE IsSeq(q)
  <2> q \in Seq({x, y})
    BY <1>2
  <2> QED BY OwnElements, Zenon
<1> QED BY DEF IsSeq

LEMMA IsList ==
    ASSUME NEW n \in Nat, NEW q, q = [i \in 1..n |-> q[i]]
    PROVE  IsSeq(q) /\ Len(q) = n /\ Range(q) = {q[i] : i \in 1..n}
<1>1. q \in [1..n -> Range(q)] /\ DOMAIN q = 1..n
  BY DEF Range
<1> q \in Seq(Range(q)) /\ Len(q) = n
  BY <1>1
<1> QED BY <1>1 DEF IsSeq, Range

LEMMA Joining ==
    ASSUME NEW S, NEW a \in Seq(S), NEW b \in Seq(S)
    PROVE  /\ a \o b \in Seq(S) /\ Len(a \o b) = Len(a) + Len(b) /\ a \o <<>> = a
           /\ \A i \in 1..Len(a) + Len(b) : (a \o b)[i] = IF i <= Len(a) THEN a[i] ELSE b[i - Len(a)]
OBVIOUS

LEMMA Concatenation ==
    ASSUME NEW a, NEW b, IsSeq(a), IsSeq(b)
    PROVE  /\ IsSeq(a \o b) /\ Range(a \o b) = Range(a) \cup Range(b)
           /\ a = <<>> => a \o b = b
           /\ a # <<>> => Head(a \o b) = Head(a) /\ Tail(a \o b) = Tail(a) \o b
           /\ b # <<>> => (a \o b)[Len(a \o b)] = b[Len(b)]
<1> DEFINE S == Range(a) \cup Range(b)
<1>0. a \in Seq(S) /\ b \in Seq(S)
  BY DEF IsSeq
<1>1. /\ a \o b \in Seq(S) /\ Len(a \o b) = Len(a) + Len(b)
      /\ \A i \in 1..Len(a) + Len(b) : (a \o b)[i] = IF i <= Len(a) THEN a[i] ELSE b[i - Len(a)]
  BY <1>0
<1>2. /\ Len(a) \in Nat /\ DOMAIN a = 1..Len(a) /\ (a = <<>> <=> Len(a) = 0)
      /\ Len(b) \in Nat /\ DOMAIN b = 1..Len(b) /\ (b = <<>> <=> Len(b) = 0)
  BY Places
<1>3. IsSeq(a \o b) /\ Range(a \o b) \subseteq S
  BY <1>1, OwnElements, Zenon
<1>4. DOMAIN (a \o b) = 1..Len(a) + Len(b)
  BY <1>1
<1>5. ASSUME NEW x \in Range(a) PROVE x \in Range(a \o b)
  <2>1. PICK i \in 1..Len(a) : x = a[i]
    BY <1>2, <1>5 DEF Range
  <2>2. i \in 1..Len(a) + Len(b) /\ (a \o b)[i] = x
    BY <1>1, <1>2, <2>1
  <2> QED BY <1>4, <2>2 DEF Range
<1>6. ASSUME NEW x \in Range(b) PROVE x \in Range(a \o b)
  <2>1. PICK i \in 1..Len(b) : x = b[i]
    BY <1>2, <1>6 DEF Range
  <2>2. Len(a) + i \in 1..Len(a) + Len(b) /\ (a \o b)[Len(a) + i] = x
    BY <1>1, <1>2, <2>1
  <2> QED BY <1>4, <2>2 DEF Range
<1>7. a = <<>> => a \o b = b
  BY <1>0
<1>8. a # <<>> => Head(a \o b) = Head(a) /\ Tail(a \o b) = Tail(a) \o b
  <2> SUFFICES ASSUME a # <<>> PROVE Head(a \o b) = Head(a) /\ Tail(a \o b) = Tail(a) \o b
    OBVIOUS
  <2>1. /\ Tail(a) \in Seq(S) /\ Len(Tail(a)) = Len(a) - 1 /\ Head(a) = a[1]
        /\ \A i \in 1..Len(Tail(a)) : Tail(a)[i] = a[i + 1]
    BY <1>0
  <2>2. Len(a) > 0 /\ a \o b # <<>>
    BY <1>1, <1>2
  <2>3. /\ Tail(a \o b) \in Seq(S) /\ Len(Tail(a \o b)) = Len(a) + Len(b) - 1 /\ Head(a \o b) = (a \o b)[1]
        /\ \A i \in 1..Len(a) + Len(b) - 1 : Tail(a \o b)[i] = (a \o b)[i + 1]
    BY <1>1, <2>2
  <2>4. /\ Tail(a) \o b \in Seq(S) /\ Len(Tail(a) \o b) = Len(a) + Len(b) - 1
        /\ \A i \in 1..Len(a) + Len(b) - 1 :
              (Tail(a) \o b)[i] = IF i <= Len(a) - 1 THEN a[i + 1] ELSE b[i - (Len(a) - 1)]
    <3>1. /\ Tail(a) \o b \in Seq(S) /\ Len(Tail(a) \o b) = Len(Tail(a)) + Len(b)
          /\ \A i \in 1..Len(Tail(a)) + Len(b) :
                (Tail(a) \o b)[i] = IF i <= Len(Tail(a)) THEN Tail(a)[i] ELSE b[i - Len(Tail(a))]
      BY <1>0, <2>1
    <3> QED BY <1>2, <2>1, <2>2, <3>1
  <2>5. ASSUME NEW i \in 1..Len(a) + Len(b) - 1 PROVE Tail(a \o b)[i] = (Tail(a) \o b)[i]
    BY <1>1, <1>2, <2>2, <2>3, <2>4
  <2>6. Tail(a \o b) = Tail(a) \o b
    BY <2>3, <2>4, <2>5
  <2> QED BY <1>1, <1>2, <2>1, <2>2, <2>3, <2>6
<1>9. b # <<>> => (a \o b)[Len(a \o b)] = b[Len(b)]
  BY <1>1, <1>2
<1> QED BY <1>3, <1>5, <1>6, <1>7, <1>8, <1>9

LEMMA Rest ==
    ASSUME NEW s, IsSeq(s), s # <<>>
    PROVE  /\ IsSeq(Tail(s)) /\ Head(s) = s[1] /\ Range(s) = {Head(s)} \cup Range(Tail(s))
           /\ Len(s) > 0 /\ Len(Tail(s)) = Len(s) - 1
           /\ \A i \in 1..Len(Tail(s)) : Tail(s)[i] = s[i + 1]
           /\ Tail(s) # <<>> => Tail(s)[Len(Tail(s))] = s[Len(s)]
<1>1. /\ Tail(s) \in Seq(Range(s)) /\ Len(Tail(s)) = Len(s) - 1 /\ Head(s) = s[1]
      /\ \A i \in 1..Len(Tail(s)) : Tail(s)[i] = s[i + 1]
  BY DEF IsSeq
<1> USE <1>1
<1>2. IsSeq(Tail(s)) /\ Range(Tail(s)) \subseteq Range(s)
  BY OwnElements, Zenon
<1>3. /\ Len(s) \in Nat /\ DOMAIN s = 1..Len(s) /\ Len(s) > 0
      /\ DOMAIN Tail(s) = 1..Len(s) - 1 /\ (Tail(s) = <<>> <=> Len(s) = 1)
  <2> Len(s) \in Nat /\ DOMAIN s = 1..Len(s) /\ (s = <<>> <=> Len(s) = 0)
    BY Places
  <2> DOMAIN Tail(s) = 1..Len(Tail(s)) /\ (Tail(s) = <<>> <=> Len(Tail(s)) = 0)
    BY <1>2, Places, Zenon
  <2> QED OBVIOUS
<1> USE <1>3
<1> ASSUME NEW x \in Range(s) PROVE x \in {Head(s)} \cup Range(Tail(s))
  <2>1. PICK i \in 1..Len(s) : x = s[i]
    BY DEF Range
  <2> i # 1 => i - 1 \in 1..Len(s) - 1 /\ x = Tail(s)[i - 1]
    BY <2>1
  <2> QED BY <2>1, Zenon DEF Range
<1> Head(s) \in Range(s)
  BY DEF Range
<1> Tail(s) # <<>> => Tail(s)[Len(Tail(s))] = s[Len(s)]
  OBVIOUS
<1> QED BY <1>2

\* AnyOrder lists a finite set.
LEMMA Listing ==
    ASSUME NEW S, IsFiniteSet(S)
    PROVE  IsSeq(AnyOrder(S)) /\ Range(AnyOrder(S)) = S /\ Len(AnyOrder(S)) = Cardinality(S)
<1> DEFINE n == Cardinality(S)
<1> DEFINE f == AnyOrder(S)
<1>1. n \in Nat /\ ExistsBijection(1..n, S)
  BY FS_CardinalityType
<1> USE <1>1
<1>2. \E g \in [1..n -> S] : IsInjective(g)
  BY DEF ExistsBijection, Bijection, Injection
<1>3. f \in [1..n -> S] /\ IsInjective(f)
  BY <1>2 DEF AnyOrder
<1> USE <1>3
<1>4. f \in Injection(1..n, S)
  BY DEF Injection
<1>5. IsFiniteSet(1..n) /\ Cardinality(1..n) = n
  BY FS_Interval
<1> HIDE DEF f
<1>6. f \in Surjection(1..n, S)
  BY <1>4, <1>5, FS_Injection
<1>7. \A x \in S : \E i \in 1..n : f[i] = x
  BY <1>6 DEF Surjection
<1>8. f \in Seq(S) /\ Len(f) = n /\ DOMAIN f = 1..n
  OBVIOUS
<1> USE <1>8
<1> Range(f) = S
  BY <1>7 DEF Range
<1> IsSeq(f)
  BY OwnElements
<1> QED BY DEF f

LEMMA Flattening ==
    ASSUME NEW n \in Nat, NEW q, q = [i \in 1..n |-> q[i]], \A i \in 1..n : IsSeq(q[i])
    PROVE  IsSeq(Flat(q)) /\ \A x \in Range(Flat(q)) : \E i \in 1..n : x \in Range(q[i])
<1> DEFINE S == UNION {Range(q[i]) : i \in 1..n}
<1>1. \A i \in 1..n : q[i] \in Seq(S)
  <2> SUFFICES ASSUME NEW i \in 1..n PROVE q[i] \in Seq(S)
    OBVIOUS
  <2> q[i] \in Seq(Range(q[i])) /\ Range(q[i]) \subseteq S
    BY DEF IsSeq
  <2> HIDE DEF S
  <2> QED OBVIOUS
<1>2. q \in Seq(Seq(S))
  <2> HIDE DEF S
  <2> QED BY <1>1
<1>3. Flat(q) \in Seq(S)
  BY <1>2, FlattenType
<1> IsSeq(Flat(q)) /\ Range(Flat(q)) \subseteq S
  BY <1>3, OwnElements, Zenon
<1> QED OBVIOUS

\* A leaf is Zenon's unless it says otherwise.
USE Zenon

----------------------------------------------------------------------------
(* The requests of a task.                                                 *)

LEMMA FineParts ==
    /\ \A com, t : Fine(com, t, <<>>)
    /\ \A com, t, r : Legal(com, t, r) /\ r.op \notin {"updateWorker", "runRelease"} => Fine(com, t, <<r>>)
    /\ \A com, t, a, b : Fine(com, t, a) /\ Fine(com, t, b) => Fine(com, t, a \o b)
    /\ \A com, t, cond, a : Fine(com, t, a) => Fine(com, t, whenever(cond, a))
<1>1. \A a, b : IsSeq(a) /\ IsSeq(b) => IsSeq(a \o b) /\ Range(a \o b) = Range(a) \cup Range(b)
  BY Concatenation
<1> ASSUME NEW com, NEW t, NEW a, NEW b, Fine(com, t, a), Fine(com, t, b) PROVE Fine(com, t, a \o b)
  <2> IsSeq(a) /\ IsSeq(b)
    BY DEF Fine
  <2> QED BY <1>1 DEF Fine
<1> ASSUME NEW com, NEW t, NEW r, Legal(com, t, r) /\ r.op \notin {"updateWorker", "runRelease"} PROVE Fine(com, t, <<r>>)
  <2> IsSeq(<<r>>) /\ \A x \in Range(<<r>>) : x = r
    BY NoneAndOne, SMT
  <2> QED BY DEF Fine
<1> ASSUME NEW com, NEW t PROVE Fine(com, t, <<>>)
  <2> IsSeq(<<>>) /\ \A x : x \notin Range(<<>>)
    BY NoneAndOne, SMT
  <2> QED BY DEF Fine
<1> QED BY DEF whenever

LEMMA FineList ==
    ASSUME NEW com, NEW t, NEW n \in Nat, NEW q, q = [i \in 1..n |-> q[i]],
           \A i \in 1..n : Legal(com, t, q[i]) /\ q[i].op \notin {"updateWorker", "runRelease"}
    PROVE  Fine(com, t, q)
<1> IsSeq(q) /\ Range(q) = {q[i] : i \in 1..n}
  BY IsList
<1> QED BY DEF Fine

LEMMA FineFlat ==
    ASSUME NEW com, NEW t, NEW n \in Nat, NEW q, q = [i \in 1..n |-> q[i]], \A i \in 1..n : Fine(com, t, q[i])
    PROVE  Fine(com, t, Flat(q))
BY Flattening DEF Fine

LEMMA QueueParts ==
    ASSUME NEW com, NEW t
    PROVE  /\ \A q : Fine(com, t, q) => Queue(com, t, q)
           /\ \A a, b : Queue(com, t, a) /\ Fine(com, t, b) => Queue(com, t, a \o b)
<1>1. \A q : Fine(com, t, q) => Queue(com, t, q)
  BY Rest DEF Fine, Queue
<1> ASSUME NEW a, NEW b, Queue(com, t, a), Fine(com, t, b) PROVE Queue(com, t, a \o b)
  <2>1. IsSeq(a) /\ IsSeq(b)
    BY DEF Queue, Fine
  <2> CASE a = <<>>
    BY <1>1, <2>1, Concatenation
  <2> CASE a # <<>>
    <3> IsSeq(a \o b) /\ Head(a \o b) = Head(a) /\ Tail(a \o b) = Tail(a) \o b
      BY <2>1, Concatenation
    <3> QED BY FineParts DEF Queue
  <2> QED OBVIOUS
<1> QED BY <1>1

\* Requests that every task may make.
HarmlessOps ==
    {"init", "putSecret", "deleteSecret", "weaveSecret", "apply", "refused", "wait", "again", "block", "listServices",
     "deleteService", "listVolumes", "deletePods", "deleteClaim", "annotate", "deleteMachineSet",
     "deleteMachine", "until"}

LEMMA Harmless ==
    ASSUME NEW com, NEW t, NEW r, r.op \in HarmlessOps
    PROVE  Legal(com, t, r) /\ r.op \notin {"updateWorker", "runRelease"} /\ Fine(com, t, <<r>>)
<1> Legal(com, t, r) /\ r.op \notin {"updateWorker", "runRelease"}
  BY SMT DEF Legal, HelmOps, HarmlessOps
<1> QED BY FineParts

LEMMA AddonRequest ==
    ASSUME NEW com, NEW t, NEW op \in {"apply", "delete"}, NEW found, NEW manifest, NEW where, NEW addon, NEW flatcar,
           op = "delete" /\ Tended => addon # "machinecontroller"
    PROVE  /\ Fine(com, t, <<load(op, found, manifest, where, addon, flatcar)>>)
           /\ Legal(com, t, AddonByName(op, found, manifest, addon, flatcar))
           /\ AddonByName(op, found, manifest, addon, flatcar).op \in {"apply", "delete", "refused"}
           /\ Fine(com, t, <<AddonByName(op, found, manifest, addon, flatcar)>>)
<1>1. ASSUME NEW w PROVE LET r == load(op, found, manifest, w, addon, flatcar) IN Legal(com, t, r) /\ r.op = op
  BY SMT DEF load, Legal, HelmOps
<1>2. Legal(com, t, Refused) /\ Refused.op = "refused"
  <2> Refused.op = "refused" /\ Refused.op \in HarmlessOps
    BY SMT DEF Refused, HarmlessOps
  <2> QED BY Harmless
<1> LET r == AddonByName(op, found, manifest, addon, flatcar) IN Legal(com, t, r) /\ r.op \in {op, "refused"}
  BY <1>1, <1>2 DEF AddonByName
<1> QED BY <1>1, FineParts, SMT

LEMMA MigrationsFine == ASSUME NEW com, NEW t, NEW addon PROVE Fine(com, t, Migrations(addon))
<1> DEFINE mig(ids, when) == [i \in DOMAIN ids |-> migrate(addon, ids[i], when)]
<1>1. ASSUME addon # "machinecontroller", NEW ids, IsSeq(ids), NEW when PROVE Fine(com, t, mig(ids, when))
  <2>1. DOMAIN ids = 1..Len(ids) /\ Len(ids) \in Nat
    BY <1>1, Places
  <2> USE <2>1
  <2> \A i \in 1..Len(ids) : mig(ids, when)[i].op = "migrate" /\ mig(ids, when)[i].addon = addon
    BY SMT DEF migrate
  <2> \A r : r.op = "migrate" /\ r.addon = addon => Legal(com, t, r) /\ r.op \notin {"updateWorker", "runRelease"}
    BY <1>1, SMT DEF Legal, HelmOps
  <2> mig(ids, when) = [i \in 1..Len(ids) |-> mig(ids, when)[i]]
    BY SMT
  <2> HIDE DEF mig
  <2> QED BY FineList
<1>2. ASSUME addon # "machinecontroller"
      PROVE  /\ \A id, when : Fine(com, t, mig(<<id>>, when))
             /\ \A id, jd, when : Fine(com, t, mig(<<id, jd>>, when))
  BY <1>1, <1>2, NoneAndOne
<1> CASE addon = "machinecontroller"
  <2> Migrations(addon) = <<>>
    BY SMT DEF Migrations
  <2> QED BY FineParts, SMT
<1> CASE addon # "machinecontroller"
  <2> HIDE DEF mig
  <2> \A a, b : Fine(com, t, a) /\ Fine(com, t, b) => Fine(com, t, a \o b)
    BY FineParts
  <2> Fine(com, t, <<>>)
    BY FineParts
  <2> QED BY <1>2 DEF Migrations, mig
<1> QED BY SMT

LEMMA Joined == \A a, b : IsSeq(a) /\ IsSeq(b) => IsSeq(a \o b)
BY Concatenation

LEMMA Collected == ASSUME NEW manifest PROVE IsSeq(collectAddons(manifest))
<1>1. \A x, y : IsSeq(<<x>>) /\ IsSeq(<<x, y>>) /\ IsSeq(<<>>)
  BY NoneAndOne
<1> USE <1>1
<1>2. IsSeq(CSIAddons(manifest)) /\ IsSeq(ensureCCMAddons(manifest))
  BY DEF CSIAddons, ensureCCMAddons
<1>3. \A c, list : IsSeq(list) => IsSeq(whenever(c, list))
  BY DEF whenever
<1> USE <1>3
<1>4. IsSeq(ensureCSIAddons(manifest))
  BY <1>2, Joined DEF ensureCSIAddons
<1> \A c, x : IsSeq(whenever(c, <<x>>))
  OBVIOUS
<1> \A c : IsSeq(whenever(c, ensureCSIAddons(manifest))) /\ IsSeq(whenever(c, ensureCCMAddons(manifest)))
  BY <1>2, <1>4
<1> QED BY Joined, SMT DEF collectAddons

LEMMA EnsureFine ==
    ASSUME NEW com, NEW t, NEW found, NEW manifest, NEW flatcar
    PROVE  Fine(com, t, Ensure(found, manifest, flatcar))
<1> DEFINE remove(addon) == DeleteAddonByName(found, manifest, addon, flatcar)
<1>1. ASSUME NEW addon, addon # "machinecontroller"
      PROVE  Fine(com, t, <<remove(addon)>>) /\ Legal(com, t, remove(addon)) /\ remove(addon).op \notin {"updateWorker", "runRelease"}
  <2> "delete" \in {"apply", "delete"} /\ ("delete" = "delete" /\ Tended => addon # "machinecontroller")
    BY <1>1, SMT
  <2> QED BY AddonRequest DEF DeleteAddonByName
<1>2. ASSUME NEW addon PROVE Fine(com, t, <<EnsureAddonByName(found, manifest, addon, flatcar)>>)
  <2> "apply" \in {"apply", "delete"} /\ ("apply" = "delete" /\ Tended => addon # "machinecontroller")
    BY SMT
  <2> QED BY AddonRequest DEF EnsureAddonByName
<1>3. ASSUME NEW addon PROVE Fine(com, t, supportFn(found, manifest, addon, flatcar))
  <2> Fine(com, t, <<[op |-> "weaveSecret"]>>)
    <3> [op |-> "weaveSecret"].op \in HarmlessOps
      BY SMT DEF HarmlessOps
    <3> QED BY Harmless
  <2> Fine(com, t, <<remove("ccm-packet")>>)
    <3> "ccm-packet" # "machinecontroller"
      BY SMT
    <3> QED BY <1>1
  <2> QED BY MigrationsFine DEF supportFn
<1> Fine(com, t, Deployed(found, manifest, flatcar))
  <2> DEFINE c == collectAddons(manifest)
  <2> DEFINE q == [i \in DOMAIN c |-> supportFn(found, manifest, c[i], flatcar)
                                      \o <<EnsureAddonByName(found, manifest, c[i], flatcar)>>]
  <2>1. DOMAIN c = 1..Len(c) /\ Len(c) \in Nat
    BY Collected, Places
  <2> USE <2>1
  <2> \A i \in 1..Len(c) : Fine(com, t, q[i])
    BY <1>2, <1>3, FineParts
  <2> q = [i \in 1..Len(c) |-> q[i]]
    OBVIOUS
  <2> Deployed(found, manifest, flatcar) = Flat(q)
    BY DEF Deployed
  <2> HIDE DEF q, c
  <2> QED BY FineFlat
<1> Fine(com, t, [i \in DOMAIN Unwanted(manifest) |-> remove(Unwanted(manifest)[i])])
  <2> DEFINE c == Unwanted(manifest)
  <2> DEFINE q == [i \in DOMAIN c |-> remove(c[i])]
  <2>1. IsSeq(c) /\ "machinecontroller" \notin Range(c)
    <3> DEFINE Other(list) == IsSeq(list) /\ "machinecontroller" \notin Range(list)
    <3>1. \A x : x # "machinecontroller" => Other(<<x>>)
      BY NoneAndOne
    <3>2. Other(<<>>)
      BY NoneAndOne, SMT
    <3>3. \A cond, x : x # "machinecontroller" => Other(whenever(cond, <<x>>))
      BY <3>1, <3>2 DEF whenever
    <3>4. \A a, b : Other(a) /\ Other(b) => Other(a \o b)
      BY Concatenation, SMT
    <3> Other(Unwanted(manifest))
      <4> HIDE DEF Other
      <4> QED BY <3>3, <3>4, SMT DEF Unwanted
    <3> QED BY SMT
  <2> HIDE DEF c
  <2>2. DOMAIN c = 1..Len(c) /\ Len(c) \in Nat /\ \A i \in 1..Len(c) : c[i] # "machinecontroller"
    BY <2>1, Places
  <2> USE <2>2
  <2> HIDE DEF remove
  <2>3. \A i \in 1..Len(c) : Legal(com, t, q[i]) /\ q[i].op \notin {"updateWorker", "runRelease"}
    BY <1>1
  <2>4. q = [i \in 1..Len(c) |-> q[i]]
    OBVIOUS
  <2> HIDE DEF q
  <2> Fine(com, t, q)
    BY <2>3, <2>4, FineList
  <2> QED BY DEF q, c
<1> QED BY FineParts DEF Ensure

LEMMA EnsureUserFine ==
    ASSUME NEW com, NEW t, NEW found, NEW manifest, NEW flatcar, IsSeq(manifest.addons), IsFiniteSet(DOMAIN manifest.local),
           Tended => \A i \in Declared(manifest, TRUE) : manifest.addons[i].name # "machinecontroller"
    PROVE  Fine(com, t, EnsureUserAddons(found, manifest, flatcar))
<1> DEFINE combined == (LocalFS(manifest) \ embeddedAddons) \cup {manifest.addons[i].name : i \in Declared(manifest, FALSE)}
<1> DEFINE order == AnyOrder(combined)
<1> DEFINE gone(addon) == IF addon \in EmbeddedFS THEN load("delete", found, manifest, "embedded", addon, flatcar)
                          ELSE Refused
<1> DEFINE one(addon) ==
        whenever(addon = "default-storage-class" /\ manifest.provider = "gce", Migrations(addon))
        \o <<EnsureAddonByName(found, manifest, addon, flatcar)>>
<1> DEFINE deleted == [i \in DOMAIN manifest.addons |->
                          whenever(i \in Declared(manifest, TRUE), <<gone(manifest.addons[i].name)>>)]
<1> DEFINE applied == [i \in DOMAIN order |-> one(order[i])]
<1>0. Fine(com, t, <<Refused>>)
  <2> Refused.op \in HarmlessOps
    BY SMT DEF Refused, HarmlessOps
  <2> QED BY Harmless
<1> USE <1>0
<1>1. DOMAIN manifest.addons = 1..Len(manifest.addons) /\ Len(manifest.addons) \in Nat
  BY Places
<1> USE <1>1
<1> Fine(com, t, Flat(deleted))
  <2>1. ASSUME NEW i \in Declared(manifest, TRUE) PROVE Fine(com, t, <<gone(manifest.addons[i].name)>>)
    <3> "delete" \in {"apply", "delete"} /\ ("delete" = "delete" /\ Tended => manifest.addons[i].name # "machinecontroller")
      BY <2>1
    <3> QED BY AddonRequest
  <2> HIDE DEF gone
  <2> \A i \in 1..Len(manifest.addons) : Fine(com, t, deleted[i])
    BY <2>1, FineParts DEF whenever
  <2> deleted = [i \in 1..Len(manifest.addons) |-> deleted[i]]
    OBVIOUS
  <2> HIDE DEF deleted
  <2> QED BY FineFlat
<1>3. DOMAIN order = 1..Len(order) /\ Len(order) \in Nat
  <2>1. IsFiniteSet(LocalFS(manifest) \ embeddedAddons)
    <3> (LocalFS(manifest) \ embeddedAddons) \subseteq DOMAIN manifest.local
      BY DEF LocalFS
    <3> QED BY FS_Subset
  <2>2. IsFiniteSet({manifest.addons[i].name : i \in Declared(manifest, FALSE)})
    <3> IsFiniteSet(Declared(manifest, FALSE))
      <4> IsFiniteSet(1..Len(manifest.addons)) /\ Declared(manifest, FALSE) \subseteq 1..Len(manifest.addons)
        BY FS_Interval, SMT DEF Declared
      <4> QED BY FS_Subset
    <3> DEFINE named == [i \in Declared(manifest, FALSE) |-> manifest.addons[i].name]
    <3> /\ named \in Surjection(Declared(manifest, FALSE), {manifest.addons[i].name : i \in Declared(manifest, FALSE)})
      BY DEF Surjection
    <3> QED BY FS_Surjection
  <2>3. IsFiniteSet(combined)
    BY <2>1, <2>2, FS_Union
  <2> IsSeq(order)
    BY <2>3, Listing
  <2> QED BY Places
<1> USE <1>3
<1> Fine(com, t, Flat(applied))
  <2>1. ASSUME NEW addon PROVE Fine(com, t, one(addon))
    <3>1. "apply" \in {"apply", "delete"} /\ ("apply" = "delete" /\ Tended => addon # "machinecontroller")
      BY SMT
    <3> Fine(com, t, <<EnsureAddonByName(found, manifest, addon, flatcar)>>)
      BY <3>1, AddonRequest DEF EnsureAddonByName
    <3> QED BY MigrationsFine, FineParts
  <2> HIDE DEF one, order
  <2> \A i \in 1..Len(order) : Fine(com, t, applied[i])
    BY <2>1
  <2> applied = [i \in 1..Len(order) |-> applied[i]]
    OBVIOUS
  <2> HIDE DEF applied
  <2> QED BY FineFlat
<1> Fine(com, t, <<load("apply", found, manifest, "local", "", flatcar)>>)
  <2> "apply" \in {"apply", "delete"} /\ ("apply" = "delete" /\ Tended => "" # "machinecontroller")
    BY SMT
  <2> QED BY AddonRequest
<1> EnsureUserAddons(found, manifest, flatcar)
          = IF ~newAddonsApplier(found, manifest) THEN <<Refused>>
            ELSE Flat(deleted) \o Flat(applied)
                 \o whenever(manifest.path, <<load("apply", found, manifest, "local", "", flatcar)>>)
  BY DEF EnsureUserAddons
<1> HIDE DEF deleted, applied
<1> QED BY FineParts

\* The manifest of the command that runs.
WellFormed ==
    /\ IsSeq(m.addons) /\ IsSeq(m.helm) /\ IsFiniteSet(DOMAIN m.local)
    /\ m.version \in Nat /\ DOMAIN m.workers \subseteq Workers
    /\ \A x \in DOMAIN m.workers : m.workers[x] \in MachineDeployment
    /\ Tended /\ ~Resetting => \A i \in Declared(m, TRUE) : m.addons[i].name # "machinecontroller"

LEMMA Command ==
    ASSUME ScriptInv, script # <<>>
    PROVE  /\ WellFormed
           /\ \E c \in Range(world.script) :
                 /\ c.manifest = m /\ c.cmd = Head(script).cmd /\ c.cmd \in {"apply", "reset"}
                 /\ up \/ c.cmd # "reset" => c = Head(script)
<1> DEFINE c == world.script[Done + 1]
<1>1. IsSeq(script) /\ IsSeq(world.script) /\ world \in Worlds
  BY ClusterAssumption DEF ScriptInv, IsSeq
<1> USE <1>1
<1>2. /\ Len(script) \in Nat /\ Len(script) # 0 /\ Head(script) = script[1] /\ Len(world.script) \in Nat
      /\ \A i \in 1..Len(world.script) : world.script[i] \in Range(world.script)
  BY Places, Rest, SMT
<1>3. 1 \in 1..Len(script) /\ Done + 1 \in 1..Len(world.script)
  BY <1>2, SMT DEF ScriptInv, Done
<1>4. /\ c \in Range(world.script) /\ c.manifest = m /\ c.cmd = Head(script).cmd
      /\ up \/ c.cmd # "reset" => c = Head(script)
  BY <1>2, <1>3 DEF ScriptInv, m
<1> USE <1>4
<1> HIDE DEF c
<1>5. /\ c.cmd \in {"apply", "reset"} /\ IsSeq(c.manifest.addons) /\ IsSeq(c.manifest.helm)
      /\ IsFiniteSet(DOMAIN c.manifest.local) /\ c.manifest.version \in Nat /\ DOMAIN c.manifest.workers \subseteq Workers
      /\ \A x \in DOMAIN c.manifest.workers : c.manifest.workers[x] \in MachineDeployment
  BY ClusterAssumption DEF IsSeq
<1> Tended /\ ~Resetting => \A i \in Declared(c.manifest, TRUE) : c.manifest.addons[i].name # "machinecontroller"
  BY <1>5 DEF Tended, Resetting
<1> QED BY <1>5 DEF WellFormed

LEMMA CredentialsFine == ASSUME NEW com, NEW t, NEW found PROVE Fine(com, t, EnsureCredentials(found))
<1> DEFINE put(name, value) == [op |-> "putSecret", name |-> name, value |-> value]
<1> DEFINE remove(name) == [op |-> "deleteSecret", name |-> name]
<1> DEFINE secret(name, typ) == IF found[typ].ok THEN put(name, Secret(found[typ].creds)) ELSE Refused
<1> DEFINE ccm == found[TypeCCM].creds
<1> DEFINE cloudConfig == whenever(m.cloudConfig # "", <<put("cloud-config", renderCloudConfig(m, ccm))>>)
<1> DEFINE integration ==
        IF (m.external /\ m.provider # "vsphere") \/ m.provider = "gce" THEN <<put("CCM", Secret(ccm))>>
        ELSE IF m.provider = "vsphere" THEN <<put("vsphere", vsphereSecret(ccm))>>
        ELSE IF m.provider = "kubevirt" THEN <<put("CCM", kubevirtSecret(ccm))>>
        ELSE <<>>
<1>1. \A name, value : put(name, value).op \in HarmlessOps /\ remove(name).op \in HarmlessOps /\ Refused.op \in HarmlessOps
  BY SMT DEF HarmlessOps, Refused
<1> EnsureCredentials(found) =
          IF m.provider = "none" THEN <<>>
          ELSE <<remove("legacy")>> \o whenever(~m.osm, <<remove("OSM")>>) \o whenever(m.mc, <<secret("MC", TypeMC)>>)
               \o whenever(m.osm, <<secret("OSM", TypeOSM)>>)
               \o (IF found[TypeCCM].ok THEN cloudConfig \o integration ELSE <<Refused>>)
  BY DEF EnsureCredentials
<1> HIDE DEF put, remove
<1>3. \A name, value : Fine(com, t, <<put(name, value)>>) /\ Fine(com, t, <<remove(name)>>) /\ Fine(com, t, <<Refused>>)
  BY <1>1, Harmless
<1> USE <1>3
<1> \A name, typ : Fine(com, t, <<secret(name, typ)>>)
  OBVIOUS
<1> Fine(com, t, cloudConfig) /\ Fine(com, t, integration)
  BY FineParts
<1> HIDE DEF secret, cloudConfig, integration
<1> QED BY FineParts

LEMMA DeployFine ==
    ASSUME script # <<>>, WellFormed, ~Resetting, IsFiniteSet(releases)
    PROVE  Fine(Head(script), "helm", Deploy)
<1> DEFINE uninstall == AnyOrder(ToUninstall)
<1> DEFINE new == [i \in DOMAIN m.helm |-> [op |-> "release", rel |-> m.helm[i]]]
<1> DEFINE old == [i \in DOMAIN uninstall |-> [op |-> "uninstall", rel |-> uninstall[i]]]
<1>1. /\ DOMAIN m.helm = 1..Len(m.helm) /\ Len(m.helm) \in Nat
      /\ \A i \in 1..Len(m.helm) : m.helm[i] \in Range(m.helm)
  BY Places DEF WellFormed
<1> USE <1>1
<1>2. DOMAIN uninstall = 1..Len(uninstall) /\ Len(uninstall) \in Nat
  <2>1. ToUninstall \subseteq releases
    BY DEF ToUninstall
  <2> IsSeq(uninstall)
    BY <2>1, FS_Subset, Listing
  <2> QED BY Places
<1> USE <1>2
<1> Fine(Head(script), "helm", new)
  <2> \A i \in 1..Len(m.helm) : new[i].op = "release" /\ new[i].rel \in Range(m.helm)
    BY SMT
  <2> \A r : r.op = "release" /\ r.rel \in Range(m.helm)
               => Legal(Head(script), "helm", r) /\ r.op \notin {"updateWorker", "runRelease"}
    BY SMT DEF Legal, HelmOps, m, Resetting
  <2> new = [i \in 1..Len(m.helm) |-> new[i]]
    OBVIOUS
  <2> HIDE DEF new
  <2> QED BY FineList
<1> Fine(Head(script), "helm", old)
  <2> HIDE DEF uninstall
  <2> \A i \in 1..Len(uninstall) : old[i].op = "uninstall"
    BY SMT
  <2> \A r : r.op = "uninstall" => Legal(Head(script), "helm", r) /\ r.op \notin {"updateWorker", "runRelease"}
    BY SMT DEF Legal, HelmOps, Resetting
  <2> old = [i \in 1..Len(uninstall) |-> old[i]]
    OBVIOUS
  <2> HIDE DEF old
  <2> QED BY FineList
<1> QED BY FineParts DEF Deploy

LEMMA ApplyFine ==
    ASSUME script # <<>>, WellFormed, ~Resetting, IsFiniteSet(releases), NEW found, NEW t \in ApplyNames
    PROVE  Fine(Head(script), t, ApplyRequests(found, t))
<1> Fine(Head(script), t, <<[op |-> "init"]>>) /\ \A condition : Fine(Head(script), t, <<wait(condition)>>)
  <2> [op |-> "init"].op \in HarmlessOps /\ \A condition : wait(condition).op \in HarmlessOps
    BY SMT DEF HarmlessOps, wait
  <2> QED BY Harmless
<1> Fine(Head(script), t, cleanupStaleObjects) /\ Fine(Head(script), t, cleanupStaleResources)
  <2>1. \A addon, id : addon # "machinecontroller" =>
            LET r == [op |-> "cleanupStale", addon |-> addon, id |-> id]
            IN Legal(Head(script), t, r) /\ r.op \notin {"updateWorker", "runRelease"}
    BY SMT DEF Legal, HelmOps
  <2> \A addon, id : addon # "machinecontroller" => Fine(Head(script), t, <<[op |-> "cleanupStale", addon |-> addon, id |-> id]>>)
    BY <2>1, FineParts
  <2> QED BY DEF cleanupStaleObjects, cleanupStaleResources
<1> Fine(Head(script), t, Ensure(found, m, flatcarNodesPresent)) /\ Fine(Head(script), t, EnsureCredentials(found))
  BY EnsureFine, CredentialsFine
<1> Fine(Head(script), t, EnsureUserAddons(found, m, flatcarNodesPresent))
  BY EnsureUserFine DEF WellFormed
<1> t = "upgradeMachineDeployments" => Fine(Head(script), t, upgradeMachineDeployments)
  <2> LET r == [op |-> "listWorkers"]
        IN t = "upgradeMachineDeployments" => Legal(Head(script), t, r) /\ r.op \notin {"updateWorker", "runRelease"}
    BY SMT DEF Legal, HelmOps, Resetting
  <2> QED BY FineParts DEF upgradeMachineDeployments
<1> t = "createMachineDeployments" => Fine(Head(script), t, createMachineDeployments)
  <2> SUFFICES ASSUME t = "createMachineDeployments" PROVE Fine(Head(script), t, createMachineDeployments)
    OBVIOUS
  <2> DEFINE names == AnyOrder(DOMAIN m.workers)
  <2> DEFINE q == [i \in DOMAIN names |-> [op |-> "createWorker", name |-> names[i]]]
  <2>1. IsFiniteSet(DOMAIN m.workers)
    BY ClusterAssumption, FS_Subset DEF WellFormed
  <2>2. IsSeq(names) /\ Range(names) = DOMAIN m.workers
    BY <2>1, Listing
  <2> createMachineDeployments = whenever(flags.createMDs, q)
    BY DEF createMachineDeployments
  <2> HIDE DEF names
  <2>4. DOMAIN names = 1..Len(names) /\ Len(names) \in Nat /\ \A i \in 1..Len(names) : names[i] \in DOMAIN m.workers
    BY <2>2, Places
  <2> USE <2>4
  <2> \A i \in 1..Len(names) : q[i].op = "createWorker" /\ q[i].name \in DOMAIN m.workers
    BY SMT
  <2> \A r : r.op = "createWorker" /\ r.name \in DOMAIN m.workers
               => Legal(Head(script), t, r) /\ r.op \notin {"updateWorker", "runRelease"}
    BY SMT DEF Legal, HelmOps, m, Resetting
  <2> q = [i \in 1..Len(names) |-> q[i]]
    OBVIOUS
  <2> HIDE DEF q
  <2> QED BY FineList, FineParts
<1> t = "helm" => Fine(Head(script), t, Deploy)
  BY DeployFine
<1> QED BY FineParts DEF ApplyRequests, ApplyNames

LEMMA FineFour ==
    ASSUME NEW com, NEW t, NEW a, NEW b, NEW c, NEW d,
           \A r \in {a, b, c, d} : Legal(com, t, r) /\ r.op \notin {"updateWorker", "runRelease"}
    PROVE  Fine(com, t, <<a, b, c>>) /\ Fine(com, t, <<a, b, c, d>>)
<1>1. /\ 3 \in Nat /\ <<a, b, c>> = [i \in 1..3 |-> <<a, b, c>>[i]] /\ \A i \in 1..3 : <<a, b, c>>[i] \in {a, b, c, d}
      /\ 4 \in Nat /\ <<a, b, c, d>> = [i \in 1..4 |-> <<a, b, c, d>>[i]]
      /\ \A i \in 1..4 : <<a, b, c, d>>[i] \in {a, b, c, d}
  BY SMT
<1> DEFINE p == <<a, b, c>>
<1> DEFINE q == <<a, b, c, d>>
<1> HIDE DEF p, q
<1> Fine(com, t, p)
  BY <1>1, FineList DEF p
<1> Fine(com, t, q)
  BY <1>1, FineList DEF q
<1> QED BY DEF p, q

LEMMA ResetFine == ASSUME NEW com, NEW t \in ResetNames PROVE Fine(com, t, ResetRequests(t))
<1>1. \A op, name : request(op, name).op = op
  BY SMT DEF request
<1>3. ASSUME t = "resetAllNodes" PROVE Fine(com, t, <<request("teardown", "")>>)
  <2>1. \A r : r.op = "teardown" => Legal(com, t, r) /\ r.op \notin {"updateWorker", "runRelease"}
    BY <1>3, SMT DEF Legal, HelmOps
  <2> QED BY <1>1, <2>1, FineParts
<1>4. ASSUME t = "destroyWorkers" PROVE Fine(com, t, <<request("crds", "")>>)
  <2>1. \A r : r.op = "crds" => Legal(com, t, r) /\ r.op \notin {"updateWorker", "runRelease"}
    BY <1>4, SMT DEF Legal, HelmOps
  <2> QED BY <1>1, <2>1, FineParts
<1>7. /\ Fine(com, t, <<request("block", "services"), request("listServices", ""), request("until", "services")>>)
      /\ Fine(com, t, <<disablePVCreation, disablePodCreation, request("listVolumes", ""), request("until", "volumes")>>)
  <2>1. \A name : /\ request("block", name).op \in HarmlessOps /\ request("listServices", name).op \in HarmlessOps
                  /\ request("until", name).op \in HarmlessOps /\ request("listVolumes", name).op \in HarmlessOps
    BY SMT DEF request, HarmlessOps
  <2> QED BY <2>1, Harmless, FineFour DEF disablePVCreation, disablePodCreation
<1> QED BY <1>3, <1>4, <1>7, FineParts DEF ResetRequests, ResetNames

LEMMA TaskRequests ==
    ASSUME script # <<>>, ScriptInv, IsFiniteSet(releases), NEW t \in TaskNames
    PROVE  Fine(Head(script), t, Requests(t))
BY Command, ApplyFine, ResetFine DEF Requests, TaskNames

----------------------------------------------------------------------------
(* The steps of the process.                                               *)

\* What the workers need of the rest.
WorkerInv ==
    /\ ScriptInv /\ QueueInv /\ RequestsInv /\ ReadInv
    /\ IsFiniteSet(releases) /\ DOMAIN machines = Workers \X (1..Machines)

\* The request at hand and those after it.
LEMMA AtHand ==
    ASSUME QueueInv, RequestsInv, steps # <<>>
    PROVE  /\ Legal(Head(script), task, Head(steps)) /\ Fine(Head(script), task, Tail(steps))
           /\ IsSeq(Tail(steps)) /\ <<>> \o Tail(steps) = Tail(steps)
           /\ Fine(Head(script), task, <<>>) /\ Fine(Head(script), task, <<Again>>)
           /\ \A more : Fine(Head(script), task, more) => Fine(Head(script), task, more \o Tail(steps))
           /\ \A more : Queue(Head(script), task, more) => Queue(Head(script), task, more \o Tail(steps))
<1>1. Legal(Head(script), task, Head(steps)) /\ Fine(Head(script), task, Tail(steps))
  BY DEF RequestsInv, Queue
<1>2. IsSeq(Tail(steps))
  BY <1>1 DEF Fine
<1> IsSeq(<<>>) /\ <<>> \o Tail(steps) = Tail(steps)
  BY <1>2, NoneAndOne, Concatenation
<1> Fine(Head(script), task, <<Again>>)
  <2> Again.op \in HarmlessOps
    BY SMT DEF Again, HarmlessOps
  <2> QED BY Harmless
<1> QED BY <1>1, <1>2, FineParts, QueueParts

\* The task goes on with other requests.
LEMMA GoesOn ==
    ASSUME QueueInv, status = "running", steps # <<>>, UNCHANGED <<script, status, todo, task>>,
           Queue(Head(script), task, steps')
    PROVE  QueueInv' /\ RequestsInv'
<1> RequestsInv' /\ IsSeq(steps')
  BY DEF RequestsInv, Queue
<1> TaskNames' = TaskNames
  BY DEF TaskNames, Resetting
<1> QED BY DEF QueueInv

\* The process stops, or has nothing left to do.
LEMMA Stops ==
    ASSUME status' # "running", steps' = <<>>, todo' = <<>>
    PROVE  QueueInv' /\ RequestsInv'
<1> IsSeq(<<>>) /\ Len(<<>>) - 1 < 1 /\ \A i \in 1..Len(<<>>) - 1 : FALSE
  BY NoneAndOne, SMT
<1> QED BY DEF QueueInv, RequestsInv, Queue

\* A MachineDeployment is written from what was read of it only when it was
\* read in the step before.
LEMMA NothingRead ==
    ASSUME mds' \in [Workers -> MachineDeployment \cup {NoMD}], machineSets' \subseteq Workers,
           NEW com, NEW t, Fine(com, t, steps')
    PROVE  ReadInv'
<1>1. steps' # <<>> => Head(steps') \in Range(steps')
  BY Rest DEF Fine
<1> steps' # <<>> => Head(steps').op # "updateWorker"
  BY <1>1 DEF Fine
<1> QED BY DEF ReadInv

LEMMA SameScript ==
    ASSUME ScriptInv, UNCHANGED <<world, script>>, up' => up \/ Head(script).cmd # "reset"
    PROVE  ScriptInv'
<1> Done' = Done
  BY DEF Done
<1>2. script # <<>> => Head(script) = script[1]
  BY Rest DEF ScriptInv, IsSeq
<1>3. \A i \in 1..Len(script) : i = 1 => script # <<>>
  BY SMT DEF ScriptInv
<1> \A i \in 1..Len(script) : (i # 1 \/ up' \/ script[i].cmd # "reset") => i # 1 \/ up \/ script[i].cmd # "reset"
  BY <1>2, <1>3
<1> QED BY DEF ScriptInv

LEMMA StartFine ==
    ASSUME ScriptInv, QueueInv, Start
    PROVE  QueueInv' /\ RequestsInv' /\ Fine(Head(script), task', steps')
<1>1. script' = script /\ script # <<>> /\ status' = "running" /\ todo' = Tasks(Head(script)) /\ steps' = <<>>
  BY DEF Start, StartCommand
<1> USE <1>1
<1>2. IsSeq(<<>>)
  BY NoneAndOne
<1> DEFINE all == Tasks(Head(script))
<1> DEFINE Listed(q, names) == q \in Seq(names) /\ \A i \in 1..Len(q) - 1 : q[i] \notin LastTasks
<1>3. Listed(all, TaskNames)
  <2> CASE Resetting
    <3> Listed(ResetTasks, ResetNames)
      <4> ResetTasks \in Seq(ResetNames) /\ Len(ResetTasks) = 4 /\ \A i \in 1..3 : ResetTasks[i] \notin LastTasks
        BY SMT DEF ResetTasks, ResetNames, LastTasks
      <4> QED BY SMT
    <3> HIDE DEF Listed
    <3> QED BY DEF Tasks, TaskNames, Resetting
  <2> CASE ~Resetting
    <3>1. WithResources \in Seq(ApplyNames) /\ \A i \in 1..Len(WithResources) : WithResources[i] \notin LastTasks
      BY SMT DEF WithResources, ApplyNames, LastTasks
    <3>2. ASSUME NEW q \in Seq(ApplyNames), \A i \in 1..Len(q) : q[i] \notin LastTasks
          PROVE  Listed(q, ApplyNames) /\ Listed(<<"init">> \o q \o <<"createMachineDeployments">>, ApplyNames)
      <4> "init" \in ApplyNames /\ "createMachineDeployments" \in ApplyNames /\ "init" \notin LastTasks
        BY SMT DEF ApplyNames, LastTasks
      <4> QED BY <3>2, SMT
    <3> HIDE DEF Listed
    <3> Listed(ApplyTasks, ApplyNames)
      BY <3>1, <3>2 DEF ApplyTasks
    <3> QED BY DEF Tasks, TaskNames, Resetting
  <2> QED OBVIOUS
<1>4. TaskNames' = TaskNames
  BY DEF TaskNames, Resetting
<1>5. IsSeq(all) /\ Range(all) \subseteq TaskNames
  BY <1>3, OwnElements
<1> HIDE DEF all
<1> QueueInv'
  BY <1>2, <1>3, <1>4, <1>5 DEF QueueInv, all
<1> QED BY <1>2, FineParts DEF RequestsInv, Queue

LEMMA NextTaskFine ==
    ASSUME ScriptInv, QueueInv, IsFiniteSet(releases), NextTask(Requests(Head(todo)))
    PROVE  QueueInv' /\ RequestsInv' /\ Fine(Head(script), task', steps')
<1>1. /\ script' = script /\ script # <<>> /\ status = "running" /\ status' = "running" /\ todo # <<>>
      /\ task' = Head(todo) /\ todo' = Tail(todo) /\ steps' = Requests(Head(todo))
  BY DEF NextTask, QueueInv
<1> USE <1>1
<1>2. TaskNames' = TaskNames
  BY DEF TaskNames, Resetting
<1>3. /\ IsSeq(Tail(todo)) /\ Head(todo) = todo[1] /\ Range(todo) = {Head(todo)} \cup Range(Tail(todo))
      /\ Len(todo) > 0 /\ Len(Tail(todo)) = Len(todo) - 1
      /\ \A i \in 1..Len(Tail(todo)) : Tail(todo)[i] = todo[i + 1]
  BY Rest DEF QueueInv
<1> USE <1>3
<1>4. Head(todo) \in TaskNames /\ Range(Tail(todo)) \subseteq TaskNames
  BY DEF QueueInv
<1>5. Fine(Head(script), Head(todo), Requests(Head(todo)))
  BY <1>4, TaskRequests
<1>6. /\ \A i \in 1..Len(Tail(todo)) - 1 : Tail(todo)[i] \notin LastTasks
      /\ Head(todo) \in LastTasks => Tail(todo) = <<>>
  <2> Len(todo) \in Nat /\ \A i \in 1..Len(todo) - 1 : todo[i] \notin LastTasks
    BY Places DEF QueueInv
  <2> Len(Tail(todo)) = 0 => Tail(todo) = <<>>
    BY Places
  <2> QED BY SMT
<1>7. IsSeq(steps') /\ RequestsInv'
  BY <1>5, QueueParts DEF RequestsInv, Fine
<1> QueueInv'
  BY <1>2, <1>4, <1>6, <1>7 DEF QueueInv
<1> QED BY <1>5, <1>7

LEMMA RetryFine ==
    ASSUME ScriptInv, QueueInv, IsFiniteSet(releases), RetryTask(Requests(task))
    PROVE  QueueInv' /\ RequestsInv' /\ Fine(Head(script), task', steps')
<1>1. script' = script /\ script # <<>> /\ status = "running" /\ steps # <<>> /\ task' = task /\ task \in TaskNames
  BY DEF RetryTask, QueueInv
<1> CASE steps' = Requests(task) /\ UNCHANGED <<status, todo>>
  <2> Fine(Head(script), task, steps')
    BY <1>1, TaskRequests
  <2> QED BY <1>1, QueueParts, GoesOn
<1> CASE status' = "failed" /\ steps' = <<>> /\ todo' = <<>>
  <2> status' # "running"
    OBVIOUS
  <2> QED BY Stops, FineParts
<1> QED BY DEF RetryTask

LEMMA KillFine == ASSUME Kill PROVE QueueInv' /\ RequestsInv' /\ Fine(Head(script), task', steps')
BY Stops, FineParts DEF Kill

LEMMA SucceedFine ==
    ASSUME ScriptInv, QueueInv, Succeed
    PROVE  ScriptInv' /\ QueueInv' /\ RequestsInv' /\ Fine(Head(script), task', steps')
<1>1. /\ script' = Tail(script) /\ script # <<>> /\ UNCHANGED <<world, up>> /\ status' = "idle" /\ steps' = <<>>
      /\ todo' = <<>>
  BY DEF Succeed, QueueInv, node
<1> USE <1>1
<1> QueueInv' /\ RequestsInv' /\ Fine(Head(script), task', steps')
  BY Stops, FineParts
<1>3. /\ IsSeq(Tail(script)) /\ Len(script) > 0 /\ Len(Tail(script)) = Len(script) - 1
      /\ \A i \in 1..Len(Tail(script)) : Tail(script)[i] = script[i + 1]
  BY Rest DEF ScriptInv, IsSeq
<1> USE <1>3
<1>4. Len(script) \in Nat /\ Len(world.script) \in Nat
  BY ClusterAssumption, SMT DEF ScriptInv
<1> USE <1>4
<1>5. Done' = Done + 1
  BY SMT DEF Done
<1>6. ASSUME NEW i \in 1..Len(Tail(script))
      PROVE  i + 1 \in 1..Len(script) /\ i + 1 # 1 /\ Done' + i = Done + (i + 1)
  <2> Done \in Int
    BY SMT DEF Done
  <2> QED BY <1>5, SMT
<1>7. Len(Tail(script)) <= Len(world.script)
  BY SMT DEF ScriptInv
<1> ScriptInv'
  BY <1>6, <1>7 DEF ScriptInv, IsSeq
<1> QED OBVIOUS

LEMMA WithoutClientFine ==
    ASSUME ScriptInv, QueueInv, ResetWithoutClient
    PROVE  ScriptInv' /\ QueueInv' /\ RequestsInv' /\ Fine(Head(script'), task', steps') /\ Resetting'
<1>1. /\ script' = [script EXCEPT ![1].flags = NoCleanup] /\ script # <<>> /\ status # "running" /\ ~up
      /\ Head(script).cmd = "reset" /\ steps = <<>> /\ todo = <<>> /\ UNCHANGED <<world, up, steps>>
  BY DEF ResetWithoutClient, QueueInv, node
<1>2. Len(script) \in Nat /\ DOMAIN script = 1..Len(script) /\ 1 \in 1..Len(script) /\ Head(script) = script[1]
  <2> Len(script) \in Nat /\ DOMAIN script = 1..Len(script) /\ Len(script) > 0 /\ Head(script) = script[1]
    BY <1>1, Places, Rest DEF ScriptInv, IsSeq
  <2> QED BY SMT
<1> DEFINE n == Len(script)
<1>3. ScriptInv' /\ Head(script') = script'[1] /\ script'[1].cmd = "reset" /\ script' # <<>>
  <2>1. /\ script' = [i \in 1..n |-> script'[i]] /\ \A i \in 1..n : i # 1 => script'[i] = script[i]
        /\ script'[1] = [script[1] EXCEPT !.flags = NoCleanup]
    BY <1>1, <1>2
  <2>2. IsSeq(script') /\ Len(script') = n
    BY <1>2, <2>1, IsList
  <2>3. /\ script'[1].cmd = script[1].cmd /\ script'[1].manifest = script[1].manifest
        /\ script'[1] = [cmd |-> script'[1].cmd, manifest |-> script'[1].manifest, flags |-> script'[1].flags]
    <3> script[1] = [cmd |-> script[1].cmd, manifest |-> script[1].manifest, flags |-> script[1].flags]
      BY <1>2 DEF ScriptInv
    <3> QED BY <2>1, SMT
  <2>4. Done' = Done
    BY <1>1, <2>2 DEF Done
  <2>5. script'[1].cmd = "reset" /\ ~up'
    BY <1>1, <1>2, <2>3
  <2>6. script' # <<>>
    BY <1>2, <2>2, Places, SMT
  <2>7. ASSUME NEW i \in 1..n
        PROVE  /\ script'[i] = [cmd |-> script'[i].cmd, manifest |-> script'[i].manifest, flags |-> script'[i].flags]
               /\ script'[i].cmd = world.script[Done + i].cmd
               /\ script'[i].manifest = world.script[Done + i].manifest
               /\ i # 1 \/ up' \/ script'[i].cmd # "reset" => script'[i] = world.script[Done + i]
    <3> CASE i = 1
      BY <1>2, <2>3, <2>5 DEF ScriptInv
    <3> CASE i # 1
      BY <2>1 DEF ScriptInv
    <3> QED OBVIOUS
  <2> Head(script') = script'[1]
    BY <2>2, <2>6, Rest
  <2> ScriptInv'
    <3> world' = world /\ world \in Worlds /\ script' \in Seq(Range(script')) /\ Len(script') <= Len(world.script)
      BY <1>1, <2>2 DEF ScriptInv, IsSeq
    <3> QED BY <2>2, <2>4, <2>7 DEF ScriptInv
  <2> QED BY <2>5, <2>6
<1> QueueInv' /\ RequestsInv'
  <2> CASE status' = "running" /\ todo' = ResetTasks
    <3>1. ResetTasks \in Seq(ResetNames) /\ Len(ResetTasks) = 4 /\ \A i \in 1..3 : ResetTasks[i] \notin LastTasks
      BY SMT DEF ResetTasks, ResetNames, LastTasks
    <3> \A i \in 1..Len(ResetTasks) - 1 : ResetTasks[i] \notin LastTasks
      BY <3>1, SMT
    <3> IsSeq(ResetTasks) /\ Range(ResetTasks) \subseteq ResetNames
      BY <3>1, OwnElements
    <3> TaskNames' = ResetNames
      BY <1>3 DEF TaskNames, Resetting
    <3> steps' = <<>> /\ IsSeq(<<>>)
      BY <1>1, NoneAndOne
    <3> QED BY <1>3 DEF QueueInv, RequestsInv, Queue
  <2> CASE status' = "failed" /\ UNCHANGED todo
    <3> status' # "running" /\ steps' = <<>> /\ todo' = <<>>
      BY <1>1
    <3> QED BY Stops
  <2> QED BY DEF ResetWithoutClient
<1> Resetting'
  BY <1>3 DEF Resetting
<1> QED BY <1>1, <1>3, FineParts

----------------------------------------------------------------------------
(* The requests.                                                           *)

\* What all requests but those on MachineDeployments and Helm releases do to
\* the process and to the workers.
Routine(q) ==
    /\ Fine(Head(script), task, q) /\ UNCHANGED <<script, status, todo, task, mds>>
    /\ machineSets' \subseteq machineSets /\ DOMAIN machines' = DOMAIN machines

LEMMA RoutineStep ==
    ASSUME WorkerInv, status = "running", steps # <<>>, UNCHANGED world, Routine(steps'), IsFiniteSet(releases'),
           up' => up \/ Head(script).cmd # "reset"
    PROVE  WorkerInv' /\ mds' = mds
<1> ScriptInv'
  BY SameScript DEF WorkerInv, Routine
<1> QueueInv' /\ RequestsInv'
  BY GoesOn, QueueParts DEF WorkerInv, Routine
<1> ReadInv'
  BY NothingRead DEF WorkerInv, Routine, ReadInv
<1> QED BY DEF WorkerInv, Routine

LEMMA ApplyPlain ==
    ASSUME WorkerInv, steps # <<>>, NEW s, s = Head(steps),
           \/ InitCluster(s) \/ Wait(s)
           \/ PutSecret(s) \/ DeleteSecret(s) \/ WeaveSecret(s)
           \/ Migrate(s) \/ ApplyAddon(s) \/ DeleteAddon(s) \/ CleanupStale(s)
           \/ RunRelease(s) \/ FinishRelease(s) \/ LabelRelease(s) \/ Uninstall(s)
    PROVE  Routine(steps')
<1>1. Fine(Head(script), task, <<>> \o Tail(steps)) /\ Fine(Head(script), task, <<Again>>)
  BY AtHand DEF WorkerInv
<1>2. ASSUME Answered, UNCHANGED workers PROVE Routine(steps')
  BY <1>1, <1>2 DEF Answered, AnsweredWith, Routine, workers
<1> USE <1>2
<1>3. ASSUME TaskFails, UNCHANGED workers PROVE Routine(steps')
  BY <1>1, <1>3 DEF TaskFails, GoOnWith, Routine, workers
<1> USE <1>3
<1> CASE InitCluster(s)
  BY DEF InitCluster
<1> CASE Wait(s)
  BY DEF Wait
<1> CASE PutSecret(s)
  BY DEF PutSecret
<1> CASE DeleteSecret(s)
  BY DEF DeleteSecret
<1> CASE WeaveSecret(s)
  BY DEF WeaveSecret
<1> CASE Migrate(s)
  BY DEF Migrate
<1> CASE ApplyAddon(s)
  BY DEF ApplyAddon
<1> CASE DeleteAddon(s)
  BY DEF DeleteAddon
<1> CASE CleanupStale(s)
  BY DEF CleanupStale
<1> CASE RunRelease(s)
  BY DEF RunRelease
<1> CASE FinishRelease(s)
  BY DEF FinishRelease
<1> CASE LabelRelease(s)
  BY DEF LabelRelease
<1> CASE Uninstall(s)
  BY DEF Uninstall
<1> QED OBVIOUS

LEMMA ReleasesFinite ==
    ASSUME IsFiniteSet(releases), NEW s, RunRelease(s) \/ FinishRelease(s) \/ LabelRelease(s) \/ Uninstall(s)
    PROVE  IsFiniteSet(releases')
<1>1. ASSUME NEW field, NEW value, SetRevision(s, field, value) PROVE IsFiniteSet(releases')
  <2> DEFINE op(v) == IF v \in History(s.rel) /\ v.rev = s.rev THEN [v EXCEPT ![field] = value] ELSE v
  <2> DEFINE f == [v \in releases |-> op(v)]
  <2>1. releases' = {op(v) : v \in releases}
    BY <1>1 DEF SetRevision
  <2> HIDE DEF op
  <2> f \in Surjection(releases, releases')
    BY <2>1 DEF Surjection
  <2> QED BY FS_Surjection
<1> CASE RunRelease(s)
  <2> \E v : releases' = releases \/ releases' = releases \cup {v}
    BY DEF RunRelease
  <2> QED BY FS_AddElement
<1> CASE FinishRelease(s)
  BY <1>1 DEF FinishRelease
<1> CASE LabelRelease(s)
  BY <1>1 DEF LabelRelease
<1> CASE Uninstall(s)
  <2> releases' \in SUBSET releases
    BY DEF Uninstall
  <2> QED BY FS_Subset
<1> QED OBVIOUS

LEMMA Triple ==
    ASSUME NEW a, NEW b, NEW c
    PROVE  <<a, b, c>> = <<a>> \o (<<b>> \o <<c>>) /\ Head(<<a>>) = a /\ Tail(<<a>>) = <<>> /\ <<a>> # <<>>
<1> DEFINE S == {a, b, c}
<1> DEFINE q == <<b>> \o <<c>>
<1> DEFINE p == <<a>> \o q
<1>1. <<a>> \in Seq(S) /\ <<b>> \in Seq(S) /\ <<c>> \in Seq(S)
  BY SMT
<1>2. Len(<<a>>) = 1 /\ Len(<<b>>) = 1 /\ Len(<<c>>) = 1 /\ <<a>>[1] = a /\ <<b>>[1] = b /\ <<c>>[1] = c
  BY SMT
<1> USE <1>2
<1>3. q \in Seq(S) /\ Len(q) = 2 /\ q[1] = b /\ q[2] = c
  BY <1>1, SMT
<1> USE <1>3
<1> HIDE DEF q
<1>4. p \in Seq(S) /\ Len(p) = 3 /\ p[1] = a /\ p[2] = b /\ p[3] = c
  <2>1. /\ p \in Seq(S) /\ Len(p) = Len(<<a>>) + Len(q)
        /\ \A i \in 1..Len(<<a>>) + Len(q) : p[i] = IF i <= Len(<<a>>) THEN <<a>>[i] ELSE q[i - Len(<<a>>)]
    <3> DEFINE x == <<a>>
    <3> HIDE DEF S, x
    <3>1. x \in Seq(S) /\ q \in Seq(S)
      BY <1>1 DEF x
    <3> /\ x \o q \in Seq(S) /\ Len(x \o q) = Len(x) + Len(q)
          /\ \A i \in 1..Len(x) + Len(q) : (x \o q)[i] = IF i <= Len(x) THEN x[i] ELSE q[i - Len(x)]
      BY <3>1, Joining
    <3> QED BY DEF x
  <2> HIDE DEF p
  <2>2. Len(p) = 3 /\ \A i \in 1..3 : p[i] = IF i <= 1 THEN <<a>>[i] ELSE q[i - 1]
    BY <2>1, SMT
  <2> p[1] = <<a>>[1] /\ p[2] = q[1] /\ p[3] = q[2]
    BY <2>2, SMT
  <2> QED BY <2>1, <2>2
<1> USE <1>4
<1> HIDE DEF p
<1>5. <<a, b, c>> \in Seq(S) /\ Len(<<a, b, c>>) = 3 /\ \A i \in 1..3 : <<a, b, c>>[i] = p[i]
  BY SMT
<1> <<a, b, c>> = p
  <2> DEFINE r == <<a, b, c>>
  <2>1. r \in Seq(S) /\ Len(r) = Len(p) /\ \A i \in 1..Len(r) : r[i] = p[i]
    BY <1>5
  <2> HIDE DEF r
  <2> r = p
    BY <2>1, SMT
  <2> QED BY DEF r
<1> Head(<<a>>) = a
  BY SMT
<1> Tail(<<a>>) = <<>>
  BY SMT
<1> <<a>> # <<>>
  BY SMT
<1> QED BY DEF p, q

LEMMA QueueOne == ASSUME NEW com, NEW t, NEW r, Legal(com, t, r) PROVE Queue(com, t, <<r>>)
<1> IsSeq(<<r>>) /\ Head(<<r>>) = r /\ Tail(<<r>>) = <<>>
  BY NoneAndOne, Triple
<1> QED BY FineParts DEF Queue

\* The further requests that the answer to a request leads to.
LEMMA ReleaseQueue ==
    ASSUME NEW com, NEW t, NEW run, Legal(com, t, run),
           NEW finish, Legal(com, t, finish), finish.op = "finishRelease",
           NEW label, Legal(com, t, label), label.op = "label"
    PROVE  Queue(com, t, <<>>) /\ Queue(com, t, <<run, finish, label>>)
<1>1. Fine(com, t, <<>>) /\ Fine(com, t, <<finish>>) /\ Fine(com, t, <<label>>)
  <2> finish.op \notin {"updateWorker", "runRelease"} /\ label.op \notin {"updateWorker", "runRelease"}
    BY SMT
  <2> QED BY FineParts
<1>2. Fine(com, t, <<finish>> \o <<label>>)
  BY <1>1, FineParts
<1> Queue(com, t, <<run>> \o (<<finish>> \o <<label>>))
  BY <1>2, QueueOne, QueueParts
<1> QED BY <1>1, Triple, QueueParts

LEMMA ReleaseStep ==
    ASSUME WorkerInv, steps # <<>>, NEW s, s = Head(steps), Release(s)
    PROVE  /\ Queue(Head(script), task, steps')
           /\ steps' # <<>> => Head(steps').op # "updateWorker"
           /\ UNCHANGED <<script, status, todo, task, mds, machineSets, releases>>
<1>1. PICK run, finish, label, more :
          /\ run.op = "runRelease" /\ finish.op = "finishRelease" /\ label.op = "label"
          /\ run.rel = s.rel /\ finish.rel = s.rel /\ label.rel = s.rel
          /\ more \in {<<>>, <<run, finish, label>>} /\ AnsweredWith(more)
  <2> DEFINE rev == IF History(s.rel) = {} THEN 1 ELSE Latest(s.rel).rev + 1
  <2> DEFINE run == [op |-> "runRelease", rel |-> s.rel, rev |-> rev]
  <2> DEFINE finish == [run EXCEPT !.op = "finishRelease"]
  <2> DEFINE label == [run EXCEPT !.op = "label"]
  <2> /\ run.op = "runRelease" /\ finish.op = "finishRelease" /\ label.op = "label"
        /\ run.rel = s.rel /\ finish.rel = s.rel /\ label.rel = s.rel
    <3> HIDE DEF rev
    <3> QED BY SMT
  <2> \E more \in {<<>>, <<run, finish, label>>} : AnsweredWith(more)
    BY DEF Release
  <2> HIDE DEF run, finish, label
  <2> QED OBVIOUS
<1> USE <1>1
<1>2. s.op = "release" /\ Legal(Head(script), task, s)
  BY AtHand DEF WorkerInv, Release
<1>3. \A r : r.op \in {"runRelease", "finishRelease", "label"} /\ r.rel = s.rel => Legal(Head(script), task, r)
  BY <1>2, SMT DEF Legal, HelmOps
<1>4. Queue(Head(script), task, <<>>) /\ Queue(Head(script), task, <<run, finish, label>>)
  BY <1>3, ReleaseQueue
<1>5. Queue(Head(script), task, steps') /\ UNCHANGED <<script, status, todo, task>> /\ steps' = more \o Tail(steps)
  BY <1>4, AtHand DEF WorkerInv, AnsweredWith
<1> USE <1>5
<1> UNCHANGED <<mds, machineSets, releases>>
  BY DEF Release, workers, objects
<1> steps' # <<>> => Head(steps').op # "updateWorker"
  <2> CASE more = <<>>
    BY AtHand, Rest DEF WorkerInv, Fine
  <2> CASE more = <<run, finish, label>>
    <3> Head(steps') = run
      <4>1. IsSeq(<<run>>) /\ IsSeq(<<finish>>) /\ IsSeq(<<label>>) /\ IsSeq(<<finish>> \o <<label>>)
        BY NoneAndOne, Joined
      <4>2. more = <<run>> \o (<<finish>> \o <<label>>) /\ Head(<<run>>) = run /\ <<run>> # <<>>
        BY Triple
      <4> DEFINE a == <<run>>
      <4> DEFINE b == <<finish>> \o <<label>>
      <4> HIDE DEF a, b
      <4>3. IsSeq(a) /\ IsSeq(b) /\ more = a \o b /\ Head(a) = run /\ a # <<>>
        BY <4>1, <4>2 DEF a, b
      <4> USE <4>3
      <4> IsSeq(more) /\ Head(more) = run /\ more # <<>>
        <5>1. IsSeq(a \o b) /\ Head(a \o b) = Head(a) /\ Range(a \o b) = Range(a) \cup Range(b)
          <6> IsSeq(a) /\ IsSeq(b) /\ a # <<>>
            OBVIOUS
          <6> QED BY Concatenation
        <5>2. run \in Range(a)
          BY Rest
        <5> run \in Range(a \o b)
          BY <5>1, <5>2
        <5> QED BY <5>1, NoneAndOne
      <4> QED BY AtHand, Concatenation DEF WorkerInv
    <3> QED OBVIOUS
  <2> QED OBVIOUS
<1> QED OBVIOUS

\* What no step may do to the MachineDeployments: ScaleKept.
Kept ==
    \A w \in Workers :
        mds[w] # NoMD /\ mds'[w] # NoMD /\ mds'[w].replicas # mds[w].replicas
        => UNCHANGED steps \/ task = "createMachineDeployments"

LEMMA SameWorkers == ASSUME mds' = mds PROVE Kept
BY DEF Kept

LEMMA Fields == NoMD.rv \in Nat /\ \A d \in MachineDeployment : d.rv \in Nat /\ d.replicas \in Nat
<1> NoMD.rv \in Nat
  BY SMT DEF NoMD
<1> \A d \in MachineDeployment : d.rv \in Nat /\ d.replicas \in Nat
  BY SMT DEF MachineDeployment
<1> QED OBVIOUS

\* A MachineDeployment with another version, and with another number of machines.
WithVersion(d, v) == [d EXCEPT !.version = v, !.rv = @ + 1]
WithReplicas(d, n) == [d EXCEPT !.replicas = n, !.rv = @ + 1]

LEMMA Changed ==
    ASSUME NEW d \in MachineDeployment, NEW n \in Nat
    PROVE  /\ WithVersion(d, n) \in MachineDeployment /\ WithVersion(d, n).replicas = d.replicas
           /\ WithReplicas(d, n) \in MachineDeployment /\ WithReplicas(d, n).rv = d.rv + 1
<1>0. d.rv + 1 \in Nat
  <2> d.rv \in Nat
    BY Fields
  <2> QED BY SMT
<1> WithVersion(d, n) \in MachineDeployment
  BY <1>0 DEF MachineDeployment, WithVersion
<1> WithVersion(d, n).replicas = d.replicas
  BY SMT DEF MachineDeployment, WithVersion
<1> WithReplicas(d, n) \in MachineDeployment
  BY <1>0 DEF MachineDeployment, WithReplicas
<1> WithReplicas(d, n).rv = d.rv + 1
  BY SMT DEF MachineDeployment, WithReplicas
<1> QED OBVIOUS

LEMMA CreateWorkerStep ==
    ASSUME WorkerInv, script # <<>>, WellFormed, steps # <<>>, NEW s, s = Head(steps), CreateWorker(s)
    PROVE  /\ Fine(Head(script), task, steps') /\ UNCHANGED <<script, status, todo, task, machineSets, releases>>
           /\ mds' \in [Workers -> MachineDeployment \cup {NoMD}] /\ Kept
<1>1. Legal(Head(script), task, s) /\ s.op = "createWorker"
  BY AtHand DEF WorkerInv, CreateWorker
<1>2. task = "createMachineDeployments" /\ s.name \in DOMAIN m.workers
  BY <1>1 DEF Legal, m
<1>3. s.name \in Workers /\ m.workers[s.name] \in MachineDeployment
  BY <1>2 DEF WellFormed
<1>4. mds \in [Workers -> MachineDeployment \cup {NoMD}] /\ mds[s.name].rv \in Nat
  <2>1. mds \in [Workers -> MachineDeployment \cup {NoMD}]
    BY DEF WorkerInv, ReadInv
  <2> mds[s.name] \in MachineDeployment \cup {NoMD}
    BY <1>3, <2>1
  <2> QED BY <2>1, Fields
<1>5. \A d \in MachineDeployment, n \in Nat : [d EXCEPT !.rv = n + 1] \in MachineDeployment
  BY SMT DEF MachineDeployment
<1>6. [m.workers[s.name] EXCEPT !.rv = mds[s.name].rv + 1] \in MachineDeployment
  BY <1>3, <1>4, <1>5
<1> mds' \in [Workers -> MachineDeployment \cup {NoMD}]
  <2> DEFINE d == [m.workers[s.name] EXCEPT !.rv = mds[s.name].rv + 1]
  <2> mds' = [mds EXCEPT ![s.name] = d]
    BY DEF CreateWorker
  <2> d \in MachineDeployment
    BY <1>6
  <2> HIDE DEF d
  <2> QED BY <1>4
<1> Fine(Head(script), task, steps') /\ UNCHANGED <<script, status, todo, task, machineSets, releases>>
  BY AtHand DEF WorkerInv, CreateWorker, Answered, AnsweredWith, objects
<1> QED BY <1>2 DEF Kept

LEMMA ListWorkersStep ==
    ASSUME WorkerInv, steps # <<>>, NEW s, s = Head(steps), ListWorkers(s)
    PROVE  Routine(steps') /\ releases' = releases
<1> DEFINE order == AnyOrder(Existing)
<1> DEFINE n == Cardinality(Existing)
<1> DEFINE q == [i \in 1..n |-> getWorker(order[i])]
<1>1. Legal(Head(script), task, s) /\ s.op = "listWorkers"
  BY AtHand DEF WorkerInv, ListWorkers
<1>2. IsFiniteSet(Existing) /\ Existing \subseteq Workers
  BY ClusterAssumption, FS_Subset DEF Existing
<1>3. n \in Nat /\ IsSeq(order) /\ Range(order) = Existing /\ Len(order) = n
  BY <1>2, FS_CardinalityType, Listing
<1> AnsweredWith(q) /\ UNCHANGED <<mds, machineSets, releases>>
  BY DEF ListWorkers, objects, workers
<1> DOMAIN machines' = DOMAIN machines
  BY DEF ListWorkers, workers
<1> HIDE DEF order, n
<1>5. \A i \in 1..n : order[i] \in Workers
  BY <1>2, <1>3, Places
<1>6. \A w \in Workers : LET r == getWorker(w)
                         IN Legal(Head(script), task, r) /\ r.op \notin {"updateWorker", "runRelease"}
  <2> \A w : getWorker(w).op = "getWorker" /\ getWorker(w).name = w
    BY SMT DEF getWorker
  <2> \A r : r.op = "getWorker" /\ r.name \in Workers
               => Legal(Head(script), task, r) /\ r.op \notin {"updateWorker", "runRelease"}
    BY <1>1, SMT DEF Legal, HelmOps
  <2> QED OBVIOUS
<1> Fine(Head(script), task, q)
  <2> q = [i \in 1..n |-> q[i]]
        /\ \A i \in 1..n : Legal(Head(script), task, q[i]) /\ q[i].op \notin {"updateWorker", "runRelease"}
    BY <1>5, <1>6
  <2> HIDE DEF q
  <2> QED BY <1>3, FineList
<1> HIDE DEF q
<1> QED BY AtHand DEF WorkerInv, AnsweredWith, Routine

LEMMA GetWorkerStep ==
    ASSUME WorkerInv, script # <<>>, status = "running", steps # <<>>, NEW s, s = Head(steps), GetWorker(s)
    PROVE  /\ QueueInv' /\ RequestsInv' /\ ReadInv'
           /\ UNCHANGED <<script, status, todo, task, mds, machineSets, releases>>
<1>1. Legal(Head(script), task, s) /\ s.op = "getWorker" /\ UNCHANGED <<mds, machineSets, releases>>
  BY AtHand DEF WorkerInv, GetWorker, workers, objects
<1> USE <1>1
<1>2. s.name \in Workers /\ task = "upgradeMachineDeployments" /\ Head(script).cmd # "reset"
  BY DEF Legal
<1> CASE TaskFails
  <2>1. Routine(steps')
    BY AtHand DEF WorkerInv, TaskFails, GoOnWith, Routine, GetWorker, workers
  <2> USE <2>1
  <2> QueueInv' /\ RequestsInv'
    BY GoesOn, QueueParts DEF WorkerInv, Routine
  <2> ReadInv'
    BY NothingRead DEF WorkerInv, Routine, ReadInv
  <2> QED BY DEF Routine
<1>4. ASSUME NEW r, r.op = "updateWorker", r.name = s.name, r.read = mds[s.name], mds[s.name] # NoMD, AnsweredWith(<<r>>)
      PROVE  QueueInv' /\ RequestsInv' /\ ReadInv' /\ UNCHANGED <<script, status, todo, task>>
  <2> USE <1>4
  <2>1. Legal(Head(script), task, r)
    BY <1>2, SMT DEF Legal, HelmOps
  <2>2. Queue(Head(script), task, steps') /\ UNCHANGED <<script, status, todo, task>> /\ steps' = <<r>> \o Tail(steps)
    BY <2>1, QueueOne, AtHand DEF WorkerInv, AnsweredWith
  <2> USE <2>2
  <2> QueueInv' /\ RequestsInv'
    BY GoesOn DEF WorkerInv
  <2>4. Head(steps') = r
    <3> IsSeq(<<r>>) /\ <<r>> # <<>> /\ Head(<<r>>) = r /\ IsSeq(Tail(steps))
      BY NoneAndOne, Triple, AtHand DEF WorkerInv
    <3> QED BY Concatenation
  <2>5. /\ mds \in [Workers -> MachineDeployment \cup {NoMD}] /\ machineSets \subseteq Workers
        /\ mds[s.name] \in MachineDeployment /\ mds[s.name].rv \in Nat
    BY <1>2, Fields DEF WorkerInv, ReadInv
  <2>6. mds[s.name].rv <= mds[s.name].rv
    BY <2>5, SMT
  <2> ReadInv'
    BY <2>4, <2>5, <2>6 DEF ReadInv
  <2> QED OBVIOUS
<1>5. LET r == [op |-> "updateWorker", name |-> s.name, read |-> mds[s.name]]
      IN r.op = "updateWorker" /\ r.name = s.name /\ r.read = mds[s.name]
  BY SMT
<1> CASE mds[s.name] # NoMD /\ AnsweredWith(<<[op |-> "updateWorker", name |-> s.name, read |-> mds[s.name]]>>)
  BY <1>4, <1>5
<1> QED BY DEF GetWorker

LEMMA UpdateWorkerStep ==
    ASSUME WorkerInv, script # <<>>, WellFormed, steps # <<>>, NEW s, s = Head(steps), UpdateWorker(s)
    PROVE  /\ Fine(Head(script), task, steps') /\ UNCHANGED <<script, status, todo, task, machineSets, releases>>
           /\ mds' \in [Workers -> MachineDeployment \cup {NoMD}] /\ Kept
<1>1. Legal(Head(script), task, s) /\ s.op = "updateWorker" /\ UNCHANGED <<machineSets, releases>>
  BY AtHand DEF WorkerInv, UpdateWorker, objects
<1> USE <1>1
<1>2. s.name \in Workers /\ task = "upgradeMachineDeployments" /\ Head(script).cmd # "reset"
  BY DEF Legal
<1> USE <1>2
<1>3. /\ mds \in [Workers -> MachineDeployment \cup {NoMD}] /\ s.read \in MachineDeployment
      /\ mds[s.name] # NoMD /\ s.read.rv = mds[s.name].rv => s.read.replicas = mds[s.name].replicas
  BY DEF WorkerInv, ReadInv
<1> USE <1>3
<1> CASE /\ mds[s.name] # NoMD /\ mds[s.name].rv = s.read.rv
           /\ mds' = [mds EXCEPT ![s.name] = [s.read EXCEPT !.version = m.version, !.rv = @ + 1]]
           /\ Answered
  <2> DEFINE d == [s.read EXCEPT !.version = m.version, !.rv = @ + 1]
  <2>1. d \in MachineDeployment /\ d.replicas = s.read.replicas
    <3> d = WithVersion(s.read, m.version) /\ m.version \in Nat
      BY DEF WithVersion, WellFormed
    <3> HIDE DEF d
    <3> QED BY Changed
  <2>2. mds' = [mds EXCEPT ![s.name] = d]
    OBVIOUS
  <2> HIDE DEF d
  <2> mds' \in [Workers -> MachineDeployment \cup {NoMD}]
    BY <2>1, <2>2
  <2> \A w \in Workers : mds'[w].replicas # mds[w].replicas => FALSE
    BY <2>1, <2>2
  <2> Fine(Head(script), task, steps') /\ UNCHANGED <<script, status, todo, task>>
    BY AtHand DEF WorkerInv, Answered, AnsweredWith
  <2> QED BY DEF Kept
<1> CASE AnsweredWith(<<getWorker(s.name)>>) /\ UNCHANGED mds
  <2>1. getWorker(s.name).op = "getWorker" /\ getWorker(s.name).name \in Workers
    BY SMT DEF getWorker
  <2>2. \A r : r.op = "getWorker" /\ r.name \in Workers
               => Legal(Head(script), task, r) /\ r.op \notin {"updateWorker", "runRelease"}
    BY SMT DEF Legal, HelmOps
  <2> Fine(Head(script), task, <<getWorker(s.name)>>)
    BY <2>1, <2>2, FineParts
  <2> QED BY AtHand, SameWorkers DEF WorkerInv, AnsweredWith
<1> CASE TaskEnds /\ UNCHANGED mds
  BY AtHand, SameWorkers DEF WorkerInv, TaskEnds, GoOnWith
<1> QED BY DEF UpdateWorker

\* A request of kubeone apply.
LEMMA ApplyRequestStep ==
    ASSUME WorkerInv, ~Resetting, ApplyRequest
    PROVE  WorkerInv' /\ Kept
<1> DEFINE s == Head(steps)
<1>1. /\ status = "running" /\ steps # <<>> /\ script # <<>> /\ world' = world /\ Head(script).cmd # "reset"
      /\ DOMAIN machines = Workers \X (1..Machines)
  BY DEF ApplyRequest, WorkerInv, QueueInv, Resetting
<1> USE <1>1
<1>2. WellFormed
  BY Command DEF WorkerInv
<1>3. ASSUME Routine(steps'), IsFiniteSet(releases') PROVE WorkerInv' /\ Kept
  BY <1>3, RoutineStep, SameWorkers
<1> USE <1>3
<1> CASE \/ InitCluster(s) \/ Wait(s)
           \/ PutSecret(s) \/ DeleteSecret(s) \/ WeaveSecret(s)
           \/ Migrate(s) \/ ApplyAddon(s) \/ DeleteAddon(s) \/ CleanupStale(s)
  <2> releases' = releases
    BY DEF InitCluster, Wait, PutSecret, DeleteSecret, WeaveSecret, Migrate, ApplyAddon, DeleteAddon, CleanupStale,
                objects
  <2> Routine(steps')
    BY ApplyPlain
  <2> QED BY DEF WorkerInv
<1> CASE RunRelease(s) \/ FinishRelease(s) \/ LabelRelease(s) \/ Uninstall(s)
  BY ApplyPlain, ReleasesFinite DEF WorkerInv
<1> CASE ListWorkers(s)
  BY ListWorkersStep DEF WorkerInv
<1>7. ASSUME UNCHANGED <<script, machineSets, releases>>, DOMAIN machines' = DOMAIN machines,
             QueueInv', RequestsInv', ReadInv'
      PROVE  WorkerInv'
  <2> ScriptInv'
    BY <1>7, SameScript DEF WorkerInv
  <2> QED BY <1>7 DEF WorkerInv
<1> USE <1>7
<1>8. ASSUME Fine(Head(script), task, steps'), UNCHANGED <<script, status, todo, task, machineSets, releases>>,
             DOMAIN machines' = DOMAIN machines, mds' \in [Workers -> MachineDeployment \cup {NoMD}]
      PROVE  WorkerInv'
  <2> USE <1>8
  <2> QueueInv' /\ RequestsInv'
    BY GoesOn, QueueParts DEF WorkerInv
  <2> ReadInv'
    BY NothingRead DEF WorkerInv, ReadInv
  <2> QED OBVIOUS
<1> CASE Release(s)
  <2>1. /\ Queue(Head(script), task, steps')
        /\ steps' # <<>> => Head(steps').op # "updateWorker"
        /\ UNCHANGED <<script, status, todo, task, mds, machineSets, releases>>
    BY ReleaseStep
  <2> USE <2>1
  <2> QueueInv' /\ RequestsInv'
    BY GoesOn DEF WorkerInv
  <2> ReadInv'
    BY DEF WorkerInv, ReadInv
  <2> DOMAIN machines' = DOMAIN machines
    BY DEF Release, workers
  <2> QED BY SameWorkers
<1> CASE CreateWorker(s)
  <2> DOMAIN machines' = DOMAIN machines
    BY DEF CreateWorker
  <2> QED BY <1>2, <1>8, CreateWorkerStep
<1> CASE GetWorker(s)
  <2> DOMAIN machines' = DOMAIN machines
    BY DEF GetWorker, workers
  <2> QED BY GetWorkerStep, SameWorkers
<1> CASE UpdateWorker(s)
  <2> DOMAIN machines' = DOMAIN machines
    BY DEF UpdateWorker
  <2> QED BY <1>2, <1>8, UpdateWorkerStep
<1> QED BY DEF ApplyRequest

LEMMA ApplyFailsStep ==
    ASSUME WorkerInv, ApplyRequestFails
    PROVE  Routine(steps') /\ releases' = releases
<1>1. steps # <<>> /\ UNCHANGED <<workers, releases>> /\ IsSeq(steps)
  BY DEF ApplyRequestFails, objects, WorkerInv, QueueInv
<1> USE <1>1
<1>2. ASSUME NEW q, GoOnWith(q), Fine(Head(script), task, q) PROVE Routine(steps')
  BY <1>2 DEF GoOnWith, Routine, workers
<1> CASE TaskEnds \/ TaskFails
  BY <1>2, AtHand DEF WorkerInv, TaskEnds, TaskFails
<1> CASE \E i \in DOMAIN steps : GoOnWith(SubSeq(steps, i + 1, Len(steps)))
  <2>1. PICK i \in DOMAIN steps : GoOnWith(SubSeq(steps, i + 1, Len(steps)))
    OBVIOUS
  <2> DEFINE q == SubSeq(steps, i + 1, Len(steps))
  <2> DEFINE rest == Tail(steps)
  <2>2. /\ Len(steps) \in Nat /\ i \in 1..Len(steps) /\ IsSeq(rest) /\ Len(rest) = Len(steps) - 1
        /\ \A j \in 1..Len(rest) : rest[j] = steps[j + 1]
    BY <2>1, Places, Rest
  <2> USE <2>2
  <2>3. /\ q \in Seq(Range(steps)) /\ Len(q) = Len(steps) - i
        /\ \A j \in 1..Len(steps) - i : q[j] = steps[i + j]
    <3> steps \in Seq(Range(steps))
      BY DEF IsSeq
    <3> QED BY SMT
  <2> USE <2>3
  <2>4. q \in Seq(Range(rest))
    <3>1. ASSUME NEW j \in 1..Len(q) PROVE q[j] = rest[i + j - 1] /\ i + j - 1 \in 1..Len(rest)
      <4> HIDE DEF q, rest
      <4> j \in 1..Len(steps) - i /\ i + j - 1 \in 1..Len(rest) /\ i + j - 1 + 1 = i + j
        BY SMT
      <4> QED OBVIOUS
    <3> \A j \in 1..Len(q) : q[j] \in Range(rest)
      BY <3>1, Places
    <3> HIDE DEF q, rest
    <3> QED BY SMT
  <2>5. IsSeq(q) /\ Range(q) \subseteq Range(rest)
    BY <2>4, OwnElements
  <2>6. Fine(Head(script), task, rest)
    BY AtHand DEF WorkerInv
  <2> HIDE DEF q, rest
  <2> Fine(Head(script), task, q)
    BY <2>5, <2>6 DEF Fine
  <2> GoOnWith(q)
    BY <2>1 DEF q
  <2> QED BY DEF GoOnWith, Routine, workers
<1> QED BY DEF ApplyRequestFails

----------------------------------------------------------------------------
(* The requests of kubeone reset.                                          *)

\* A request of the kind op for one of S may wait in the queue of task t.
Allowed(com, t, op, S) ==
    \A x \in S : /\ Legal(com, t, request(op, x))
                 /\ request(op, x).op \notin {"updateWorker", "runRelease"}

\* The requests for each of a set of objects.
Each(op, S) == {request(op, x) : x \in S}

LEMMA RequestsFine ==
    ASSUME NEW com, NEW t, NEW op, NEW S, IsFiniteSet(S), Allowed(com, t, op, S)
    PROVE  Fine(com, t, requests(op, S)) /\ Range(requests(op, S)) = Each(op, S)
<1> DEFINE order == AnyOrder(S)
<1> DEFINE q == [i \in DOMAIN order |-> request(op, order[i])]
<1>1. IsSeq(order) /\ Range(order) = S
  BY Listing
<1>2. requests(op, S) = q
  BY DEF requests
<1> DEFINE n == Len(order)
<1> HIDE DEF order
<1>3. n \in Nat /\ DOMAIN order = 1..n
  BY <1>1, Places
<1> USE <1>3
<1>4. (\A i \in 1..n : order[i] \in S) /\ \A x \in S : \E i \in 1..n : order[i] = x
  BY <1>1, Places
<1> USE <1>4
<1> HIDE DEF n
<1>5. \A i \in 1..n : q[i] = request(op, order[i])
  OBVIOUS
<1> USE <1>5
<1>6. q = [i \in 1..n |-> q[i]]
  OBVIOUS
<1> HIDE DEF q
<1>7. Fine(com, t, q)
  <2>1. ASSUME NEW i \in 1..n PROVE Legal(com, t, q[i]) /\ q[i].op \notin {"updateWorker", "runRelease"}
    <3>1. q[i] = request(op, order[i]) /\ order[i] \in S
      OBVIOUS
    <3> QED BY <3>1 DEF Allowed
  <2> QED BY <1>6, <2>1, FineList
<1>8. Range(q) = {request(op, x) : x \in S}
  <2>1. Range(q) = {q[i] : i \in 1..n}
    BY <1>6, IsList
  <2>2. ASSUME NEW i \in 1..n PROVE q[i] \in {request(op, x) : x \in S}
    OBVIOUS
  <2>3. ASSUME NEW x \in S PROVE request(op, x) \in {q[i] : i \in 1..n}
    <3>1. PICK i \in 1..n : order[i] = x
      OBVIOUS
    <3> QED BY <3>1
  <2> QED BY <2>1, <2>2, <2>3
<1> QED BY <1>2, <1>7, <1>8 DEF Each

LEMMA ListFine ==
    ASSUME WorkerInv, NEW com, NEW t
    PROVE  /\ Fine(com, t, requests("deleteService", {x \in Services : services[x] = "live"}))
           /\ Fine(com, t, requests("deleteClaim", {c \in Claims : claims[c] \in {"pending", "bound"}}))
           /\ Fine(com, t, requests("deleteMD", {w \in Workers : mds[w] # NoMD}))
           /\ Range(requests("deleteMD", {w \in Workers : mds[w] # NoMD})) = Each("deleteMD", {w \in Workers : mds[w] # NoMD})
           /\ Fine(com, t, requests("deleteMachineSet", machineSets))
           /\ LET order == AnyOrder({x \in DOMAIN machines : machines[x] # "none"})
              IN Fine(com, t, [i \in DOMAIN order |-> [op |-> "deleteMachine", machine |-> order[i]]])
<1>1. /\ IsFiniteSet({x \in Services : services[x] = "live"})
      /\ IsFiniteSet({c \in Claims : claims[c] \in {"pending", "bound"}})
      /\ IsFiniteSet({w \in Workers : mds[w] # NoMD}) /\ IsFiniteSet(machineSets)
  BY ClusterAssumption, FS_Subset DEF WorkerInv, ReadInv
<1>2. \A S : /\ Allowed(com, t, "deleteService", S) /\ Allowed(com, t, "deleteClaim", S)
             /\ Allowed(com, t, "deleteMachineSet", S)
  BY SMT DEF Allowed, Legal, HelmOps, request
<1>3. Allowed(com, t, "deleteMD", {w \in Workers : mds[w] # NoMD})
  BY SMT DEF Allowed, Legal, HelmOps, request
<1> /\ Fine(com, t, requests("deleteService", {x \in Services : services[x] = "live"}))
      /\ Fine(com, t, requests("deleteClaim", {c \in Claims : claims[c] \in {"pending", "bound"}}))
      /\ Fine(com, t, requests("deleteMD", {w \in Workers : mds[w] # NoMD}))
      /\ Fine(com, t, requests("deleteMachineSet", machineSets))
      /\ Range(requests("deleteMD", {w \in Workers : mds[w] # NoMD})) = Each("deleteMD", {w \in Workers : mds[w] # NoMD})
  BY <1>1, <1>2, <1>3, RequestsFine
<1> DEFINE order == AnyOrder({x \in DOMAIN machines : machines[x] # "none"})
<1> DEFINE q == [i \in DOMAIN order |-> [op |-> "deleteMachine", machine |-> order[i]]]
<1> Fine(com, t, q)
  <2>1. IsFiniteSet(1..Machines)
    BY ClusterAssumption, FS_Interval, SMT
  <2>2. IsFiniteSet(DOMAIN machines)
    <3> DEFINE T == 1..Machines
    <3>1. DOMAIN machines = Workers \X T /\ IsFiniteSet(Workers) /\ IsFiniteSet(T)
      BY <2>1, ClusterAssumption DEF WorkerInv
    <3> HIDE DEF T
    <3> IsFiniteSet(Workers \X T)
      BY <3>1, FS_Product
    <3> QED BY <3>1
  <2>3. IsFiniteSet({x \in DOMAIN machines : machines[x] # "none"})
    BY <2>2, FS_Subset
  <2>4. IsSeq(order)
    BY <2>3, Listing
  <2> HIDE DEF order
  <2>5. Len(order) \in Nat /\ DOMAIN order = 1..Len(order)
    BY <2>4, Places
  <2> DEFINE n == Len(order)
  <2> n \in Nat /\ q = [i \in 1..n |-> q[i]]
    BY <2>5
  <2>7. \A i \in 1..n : q[i].op \in HarmlessOps
    BY <2>5, SMT DEF HarmlessOps
  <2> HIDE DEF q, n
  <2> \A i \in 1..n : Legal(com, t, q[i]) /\ q[i].op \notin {"updateWorker", "runRelease"}
    BY <2>7, Harmless
  <2> QED BY FineList
<1> QED OBVIOUS

LEMMA ResetPlain ==
    ASSUME WorkerInv, steps # <<>>, NEW s, s = Head(steps),
           \/ Block(s) \/ Until(s) \/ Teardown(s) \/ DeleteService(s) \/ DeletePods(s) \/ DeleteClaim(s)
           \/ Annotate(s) \/ DeleteMachineSet(s) \/ DeleteMachine(s)
    PROVE  Routine(steps') /\ releases' = releases /\ (up' => up)
<1>1. Fine(Head(script), task, <<>> \o Tail(steps)) /\ Fine(Head(script), task, <<Again>>)
  BY AtHand DEF WorkerInv
<1>2. ASSUME Answered, mds' = mds, machineSets' \subseteq machineSets, DOMAIN machines' = DOMAIN machines
      PROVE Routine(steps')
  BY <1>1, <1>2 DEF Answered, AnsweredWith, Routine
<1> USE <1>2
<1>3. ASSUME TaskFails, UNCHANGED workers PROVE Routine(steps')
  BY <1>1, <1>3 DEF TaskFails, GoOnWith, Routine, workers
<1> CASE Block(s)
  BY DEF Block, workers, objects, node
<1> CASE Until(s)
  BY <1>3 DEF Until, workers, objects, node
<1> CASE Teardown(s)
  BY DEF Teardown, workers, objects
<1> CASE DeleteService(s)
  BY DEF DeleteService, workers, objects, node
<1> CASE DeletePods(s)
  BY DEF DeletePods, workers, objects, node
<1> CASE DeleteClaim(s)
  BY DEF DeleteClaim, workers, objects, node
<1> CASE Annotate(s)
  BY DEF Annotate, objects, node
<1> CASE DeleteMachineSet(s)
  BY DEF DeleteMachineSet, objects, node
<1> CASE DeleteMachine(s)
  BY DEF DeleteMachine, objects, node
<1> QED OBVIOUS

LEMMA ResetLists ==
    ASSUME WorkerInv, steps # <<>>, NEW s, s = Head(steps),
           ListServices(s) \/ ListVolumes(s) \/ LookForCRDs(s) \/ ListWorkersToDestroy(s)
    PROVE  /\ Routine(steps') /\ releases' = releases /\ up' = up
           /\ \E more : AnsweredWith(more) /\ Fine(Head(script), task, more)
<1> DEFINE Kind == /\ Routine(steps') /\ releases' = releases /\ up' = up
                   /\ \E more : AnsweredWith(more) /\ Fine(Head(script), task, more)
<1>1. UNCHANGED <<objects, node, workers>>
  BY DEF ListServices, ListVolumes, LookForCRDs, ListWorkersToDestroy
<1>2. ASSUME NEW more, AnsweredWith(more), Fine(Head(script), task, more) PROVE Kind
  <2> USE <1>2
  <2>1. Fine(Head(script), task, more \o Tail(steps))
    BY AtHand DEF WorkerInv
  <2> Routine(steps') /\ releases' = releases /\ up' = up
    BY <1>1, <2>1 DEF AnsweredWith, Routine, workers, objects, node
  <2> QED OBVIOUS
<1> USE <1>2
<1> SUFFICES Kind
  OBVIOUS
<1> HIDE DEF Kind
<1>9. /\ request("deletePods", "").op \in HarmlessOps /\ request("annotate", "").op \in HarmlessOps
      /\ request("until", "machines").op \in HarmlessOps
  BY SMT DEF request, HarmlessOps
<1>3. Fine(Head(script), task, <<request("deletePods", "")>>) /\ Fine(Head(script), task, <<request("until", "machines")>>)
  BY <1>9, Harmless
<1>4. ASSUME NEW x \in {"mds", "machineSets", "machines"}
      PROVE  Legal(Head(script), task, request("list", x)) /\ request("list", x).op \notin {"updateWorker", "runRelease"}
  BY SMT DEF request, Legal, HelmOps
<1> CASE ListServices(s)
  BY ListFine DEF ListServices
<1> CASE ListVolumes(s)
  <2> DEFINE a == <<request("deletePods", "")>>
  <2> DEFINE b == requests("deleteClaim", {c \in Claims : claims[c] \in {"pending", "bound"}})
  <2>1. Fine(Head(script), task, a) /\ Fine(Head(script), task, b) /\ AnsweredWith(whenever(VolumesLeft, a \o b))
    BY <1>3, ListFine DEF ListVolumes
  <2> HIDE DEF a, b
  <2> Fine(Head(script), task, whenever(VolumesLeft, a \o b))
    BY <2>1, FineParts
  <2> QED BY <2>1
<1> CASE LookForCRDs(s)
  <2> DEFINE a == <<request("annotate", ""), request("list", "mds"), request("list", "machineSets"),
                    request("list", "machines")>>
  <2> DEFINE b == <<request("until", "machines")>>
  <2> DEFINE more == IF ~CRDsReadyCondition THEN <<>> ELSE whenever(m.mc, a) \o b
  <2>1. Fine(Head(script), task, a)
    BY <1>4, <1>9, Harmless, FineFour
  <2>2. Fine(Head(script), task, b) /\ AnsweredWith(more)
    BY <1>3 DEF LookForCRDs
  <2> HIDE DEF a, b
  <2> Fine(Head(script), task, more)
    BY <2>1, <2>2, FineParts
  <2> HIDE DEF more
  <2> QED BY <2>2
<1> CASE ListWorkersToDestroy(s)
  <2> s.name \in {"mds", "machineSets", "machines"}
    BY AtHand DEF WorkerInv, ListWorkersToDestroy, Legal
  <2> QED BY ListFine DEF ListWorkersToDestroy
<1> QED OBVIOUS

LEMMA ResetRequestStep ==
    ASSUME WorkerInv, ResetRequest
    PROVE  WorkerInv' /\ Kept
<1> DEFINE s == Head(steps)
<1>1. status = "running" /\ steps # <<>> /\ world' = world
  BY DEF ResetRequest
<1> USE <1>1
<1>2. ASSUME Routine(steps'), releases' = releases, up' => up PROVE WorkerInv' /\ Kept
  BY <1>2, RoutineStep, SameWorkers DEF WorkerInv
<1> CASE \/ Block(s) \/ Until(s) \/ Teardown(s) \/ DeleteService(s) \/ DeletePods(s) \/ DeleteClaim(s)
           \/ Annotate(s) \/ DeleteMachineSet(s) \/ DeleteMachine(s)
  BY <1>2, ResetPlain
<1> CASE ListServices(s) \/ ListVolumes(s) \/ LookForCRDs(s) \/ ListWorkersToDestroy(s)
  BY <1>2, ResetLists
<1> CASE DeleteMD(s)
  <2>1. UNCHANGED <<script, status, todo, task, up, releases, machineSets, machines>> /\ Fine(Head(script), task, steps')
    BY AtHand DEF WorkerInv, DeleteMD, Answered, AnsweredWith, TaskFails, GoOnWith, objects, node
  <2> USE <2>1
  <2> ScriptInv' /\ QueueInv' /\ RequestsInv'
    BY SameScript, GoesOn, QueueParts DEF WorkerInv
  <2>3. mds' = [mds EXCEPT ![s.name] = NoMD] \/ mds' = mds
    BY DEF DeleteMD
  <2>4. mds \in [Workers -> MachineDeployment \cup {NoMD}]
    BY DEF WorkerInv, ReadInv
  <2> HIDE DEF s
  <2>5. mds' \in [Workers -> MachineDeployment \cup {NoMD}] /\ Kept
    BY <2>3, <2>4 DEF Kept
  <2> ReadInv'
    BY <2>5, NothingRead DEF WorkerInv, ReadInv
  <2> QED BY <2>5 DEF WorkerInv
<1> QED BY DEF ResetRequest

LEMMA FaultStep ==
    ASSUME WorkerInv, ApplyRequestFails \/ ResetRequestFails \/ RequestRefused
    PROVE  WorkerInv' /\ Kept
<1>1. status = "running" /\ steps # <<>> /\ UNCHANGED <<world, up, releases>>
  BY DEF ApplyRequestFails, ResetRequestFails, RequestRefused, node, objects
<1>2. Fine(Head(script), task, <<>>) /\ Fine(Head(script), task, <<Again>>)
  BY <1>1, AtHand DEF WorkerInv
<1> Routine(steps')
  <2> CASE ApplyRequestFails
    BY ApplyFailsStep
  <2> CASE ResetRequestFails
    BY <1>2 DEF ResetRequestFails, TaskFails, GoOnWith, Routine, workers
  <2> CASE RequestRefused
    BY <1>2 DEF RequestRefused, TaskFails, GoOnWith, Routine, workers
  <2> QED OBVIOUS
<1> QED BY <1>1, RoutineStep, SameWorkers DEF WorkerInv

LEMMA ProcessStep ==
    ASSUME WorkerInv,
           \/ Start \/ ResetWithoutClient \/ Succeed \/ Kill
           \/ NextTask(Requests(Head(todo))) \/ RetryTask(Requests(task))
    PROVE  WorkerInv' /\ Kept
<1>1. UNCHANGED <<world, up, mds, machineSets, machines, releases>>
  BY DEF Start, StartCommand, ResetWithoutClient, Succeed, Kill, NextTask, RetryTask, node, workers, objects
<1> USE <1>1
<1>2. ASSUME ScriptInv', QueueInv', RequestsInv', NEW com, NEW t, Fine(com, t, steps') PROVE WorkerInv' /\ Kept
  <2> ReadInv'
    BY <1>2, NothingRead DEF WorkerInv, ReadInv
  <2> QED BY <1>2, SameWorkers DEF WorkerInv
<1> USE <1>2
<1>3. ASSUME script' = script PROVE ScriptInv'
  BY <1>3, SameScript DEF WorkerInv
<1> USE <1>3
<1> CASE Start
  BY StartFine DEF WorkerInv, Start, StartCommand
<1> CASE ResetWithoutClient
  BY WithoutClientFine DEF WorkerInv
<1> CASE Succeed
  BY SucceedFine DEF WorkerInv
<1> CASE Kill
  BY KillFine DEF Kill
<1> CASE NextTask(Requests(Head(todo)))
  BY NextTaskFine DEF WorkerInv, NextTask
<1> CASE RetryTask(Requests(task))
  BY RetryFine DEF WorkerInv, RetryTask
<1> QED OBVIOUS

----------------------------------------------------------------------------
(* The controllers and the users.                                          *)

LEMMA SameProcess ==
    ASSUME ScriptInv, QueueInv, RequestsInv, UNCHANGED <<world, process, up>>
    PROVE  ScriptInv' /\ QueueInv' /\ RequestsInv' /\ UNCHANGED <<script, steps>>
<1>1. UNCHANGED <<script, status, todo, task, steps>>
  BY DEF process
<1> USE <1>1
<1> ScriptInv'
  BY SameScript
<1> TaskNames' = TaskNames
  BY DEF TaskNames, Resetting
<1> QED BY DEF QueueInv, RequestsInv

LEMMA ScaleStep ==
    ASSUME WorkerInv, steps' = steps, NEW w \in Workers, mds[w] # NoMD, NEW n \in 1..Machines,
           mds' = [mds EXCEPT ![w] = WithReplicas(mds[w], n)], machineSets' = machineSets
    PROVE  ReadInv'
<1>1. mds \in [Workers -> MachineDeployment \cup {NoMD}] /\ mds[w] \in MachineDeployment
  BY DEF WorkerInv, ReadInv
<1> USE <1>1
<1>2. n \in Nat
  BY ClusterAssumption, SMT
<1>3. WithReplicas(mds[w], n) \in MachineDeployment /\ WithReplicas(mds[w], n).rv = mds[w].rv + 1
  BY <1>2, Changed
<1> mds' \in [Workers -> MachineDeployment \cup {NoMD}]
  BY <1>3
<1> ASSUME steps # <<>>, Head(steps).op = "updateWorker", NEW s, s = Head(steps)
      PROVE  /\ s.read \in MachineDeployment
             /\ mds'[s.name] # NoMD => /\ s.read.rv <= mds'[s.name].rv
                                       /\ s.read.rv = mds'[s.name].rv => s.read.replicas = mds'[s.name].replicas
  <2>1. /\ s.read \in MachineDeployment
        /\ mds[s.name] # NoMD => /\ s.read.rv <= mds[s.name].rv
                                 /\ s.read.rv = mds[s.name].rv => s.read.replicas = mds[s.name].replicas
    BY DEF WorkerInv, ReadInv
  <2> USE <2>1
  <2>2. s.name \in Workers
    BY AtHand DEF WorkerInv, Legal
  <2> CASE s.name = w
    <3>1. s.read.rv \in Nat /\ mds[w].rv \in Nat /\ s.read.rv <= mds[w].rv
      BY Fields
    <3> s.read.rv <= mds[w].rv + 1 /\ s.read.rv # mds[w].rv + 1
      BY <3>1, SMT
    <3> mds'[s.name].rv = mds[w].rv + 1
      BY <1>3
    <3> QED OBVIOUS
  <2> CASE s.name # w
    <3> mds'[s.name] = mds[s.name]
      BY <2>2
    <3> QED OBVIOUS
  <2> QED OBVIOUS
<1> QED BY DEF WorkerInv, ReadInv

LEMMA RemoveStep ==
    ASSUME WorkerInv, steps' = steps, NEW w \in Workers,
           mds' = [mds EXCEPT ![w] = NoMD], machineSets' = machineSets
    PROVE  ReadInv'
<1>1. mds \in [Workers -> MachineDeployment \cup {NoMD}]
  BY DEF WorkerInv, ReadInv
<1> mds' \in [Workers -> MachineDeployment \cup {NoMD}]
  BY <1>1
<1> steps # <<>> /\ Head(steps).op = "updateWorker" => Head(steps).name \in Workers
  BY AtHand DEF WorkerInv, Legal
<1> \A x \in Workers : mds'[x] = mds[x] \/ mds'[x] = NoMD
  BY <1>1
<1> QED BY DEF WorkerInv, ReadInv

LEMMA ElsewhereStep ==
    ASSUME WorkerInv, Controller \/ User
    PROVE  WorkerInv' /\ Kept
<1>1. DOMAIN machines = Workers \X (1..Machines) /\ machineSets \subseteq Workers
  BY DEF WorkerInv, ReadInv
<1> USE <1>1
<1>2. ASSUME UNCHANGED <<world, process, node, objects, webhooks>>, ReadInv', DOMAIN machines' = DOMAIN machines
      PROVE  WorkerInv' /\ Kept
  <2> UNCHANGED <<up, releases>>
    BY <1>2 DEF node, objects
  <2> QED BY <1>2, SameProcess DEF WorkerInv, Kept
<1> USE <1>2
<1>3. ASSUME NEW changed, Elsewhere(changed), mds' = mds, machineSets' \subseteq Workers, DOMAIN machines' = DOMAIN machines
      PROVE  WorkerInv' /\ Kept
  <2> USE <1>3
  <2>1. steps' = steps
    BY DEF Elsewhere, process
  <2> ReadInv'
    BY <2>1 DEF WorkerInv, ReadInv
  <2> QED BY DEF Elsewhere
<1> USE <1>3
<1> ASSUME NEW x, CreateService(x) \/ EnsureLoadBalancer(x) \/ FinalizeService(x)
      PROVE  WorkerInv' /\ Kept
  BY DEF CreateService, EnsureLoadBalancer, FinalizeService, Elsewhere, workers
<1> ASSUME NEW c, CreateClaim(c) \/ CreatePod(c) \/ Provision(c) \/ FinalizeClaim(c) \/ Reclaim(c)
      PROVE  WorkerInv' /\ Kept
  BY DEF CreateClaim, CreatePod, Provision, FinalizeClaim, Reclaim, Elsewhere, workers
<1> ASSUME NEW w \in Workers, CreateMachineSet(w) \/ CollectGarbage(w)
      PROVE  WorkerInv' /\ Kept
  BY DEF CreateMachineSet, CollectGarbage, Elsewhere
<1> ASSUME NEW x, CreateMachine(x) \/ RemoveMachine(x) \/ CreateVM(x) \/ FinalizeMachine(x)
      PROVE  WorkerInv' /\ Kept
  BY DEF CreateMachine, RemoveMachine, CreateVM, FinalizeMachine, Elsewhere
<1> ASSUME NEW w \in Workers, Scale(w) PROVE WorkerInv' /\ Kept
  <2> /\ UNCHANGED <<world, process, node, objects, webhooks>> /\ mds[w] # NoMD
        /\ UNCHANGED <<machineSets, machines>> /\ steps' = steps
    BY DEF Scale, Elsewhere, process
  <2>2. PICK n \in 1..Machines : mds' = [mds EXCEPT ![w] = [mds[w] EXCEPT !.replicas = n, !.rv = @ + 1]]
    BY DEF Scale, Elsewhere
  <2> mds' = [mds EXCEPT ![w] = WithReplicas(mds[w], n)]
    BY <2>2 DEF WithReplicas
  <2> QED BY ScaleStep
<1> ASSUME NEW w \in Workers, RemoveMD(w) PROVE WorkerInv' /\ Kept
  <2> /\ UNCHANGED <<world, process, node, objects, webhooks>> /\ mds' = [mds EXCEPT ![w] = NoMD]
        /\ UNCHANGED <<machineSets, machines>> /\ steps' = steps
    BY DEF RemoveMD, Elsewhere, process
  <2> QED BY RemoveStep
<1> QED BY DEF Controller, User

LEMMA InitFine == ASSUME Init PROVE WorkerInv
<1>1. /\ world \in Worlds /\ script = world.script /\ status = "idle" /\ todo = <<>> /\ steps = <<>>
      /\ mds = world.mds /\ machineSets = {} /\ releases = {}
  BY DEF Init
<1> USE <1>1
<1>2. /\ world.mds \in [Workers -> MachineDeployment \cup {NoMD}] /\ IsSeq(world.script)
      /\ \A c \in Range(world.script) : c = [cmd |-> c.cmd, manifest |-> c.manifest, flags |-> c.flags]
  BY ClusterAssumption DEF IsSeq
<1> USE <1>2
<1> ScriptInv
  <2>1. Len(script) \in Nat /\ \A i \in 1..Len(script) : script[i] \in Range(script)
    BY Places
  <2> Done = 0 /\ Len(script) <= Len(world.script) /\ \A i \in 1..Len(script) : Done + i = i
    BY <2>1, SMT DEF Done
  <2> QED BY <2>1 DEF ScriptInv, IsSeq
<1> QueueInv /\ RequestsInv
  <2> IsSeq(<<>>) /\ \A i \in 1..Len(<<>>) - 1 : FALSE
    BY NoneAndOne, SMT
  <2> QED BY DEF QueueInv, RequestsInv, Queue
<1> ReadInv
  BY DEF ReadInv
<1> IsFiniteSet(releases)
  BY FS_EmptySet
<1> DOMAIN machines = Workers \X (1..Machines)
  BY DEF Init
<1> QED BY DEF WorkerInv

LEMMA WorkersStep ==
    ASSUME WorkerInv, [Next]_vars
    PROVE  WorkerInv' /\ Kept
<1> CASE Process
  BY ProcessStep, FaultStep, ApplyRequestStep, ResetRequestStep DEF Process
<1> CASE Fault
  BY ProcessStep, FaultStep DEF Fault
<1> CASE Controller \/ User
  BY ElsewhereStep
<1>4. CASE InitializeNodes \/ UNCHANGED vars
  <2>1. UNCHANGED <<world, process, up, objects, workers>>
    BY <1>4 DEF InitializeNodes, vars, node
  <2> ReadInv' /\ UNCHANGED <<releases, machines, mds>>
    BY <2>1 DEF WorkerInv, ReadInv, process, workers, objects
  <2> QED BY <2>1, SameProcess, SameWorkers DEF WorkerInv
<1> CASE Finished
  BY <1>4 DEF Finished
<1> QED BY <1>4 DEF Next

\* The number of machines that a user or the autoscaler asked for is changed by
\* them only: the update of a MachineDeployment is refused when it rests on a
\* number that has changed since (upgradeMachineDeployments, CreateOrUpdate).
THEOREM ScaleIsKept == Spec => ScaleKept
<1>1. Init => WorkerInv
  BY InitFine
<1>2. WorkerInv /\ [Next]_vars => WorkerInv' /\ Kept
  BY WorkersStep
<1> Spec => [][Kept]_vars
  BY <1>1, <1>2, PTL DEF Spec
<1> QED BY DEF ScaleKept, Kept

----------------------------------------------------------------------------
(* A task that waits at its end.                                           *)

LEMMA NotAgain == ASSUME steps = <<Again>> PROVE Head(steps).op = "again"
<1> Head(<<Again>>) = Again
  BY Triple
<1> Again.op = "again"
  BY SMT DEF Again
<1> QED OBVIOUS

LEMMA NotEmpty == ASSUME NEW a, NEW b, IsSeq(a), IsSeq(b), b # <<>> PROVE a \o b # <<>>
<1>1. Range(a \o b) = Range(a) \cup Range(b)
  BY Concatenation
<1>2. Head(b) \in Range(b)
  BY Rest
<1> Head(b) \in Range(a \o b)
  BY <1>1, <1>2
<1> QED BY NoneAndOne

LEMMA LastAnswer ==
    ASSUME IsSeq(steps), steps # <<>>, steps # <<Again>>, NEW more, IsSeq(more), AnsweredWith(more),
           NEW t, NEW r, EndsWith(t, r), Head(steps) = r => more = <<>>
    PROVE  EndsWith(t, r)' /\ (Passed(t)' => Passed(t) \/ (task = t /\ Head(steps) = r))
<1>1. steps' = more \o Tail(steps) /\ UNCHANGED <<todo, task>>
  BY DEF AnsweredWith
<1> USE <1>1
<1>2. IsSeq(Tail(steps)) /\ Head(steps) = steps[1] /\ Len(Tail(steps)) = Len(steps) - 1 /\ Len(steps) \in Nat
  BY Rest, Places
<1> USE <1>2
<1> CASE task # t
  BY DEF EndsWith, Passed
<1> CASE task = t /\ Tail(steps) = <<>>
  <2>1. Len(Tail(steps)) = 0
    BY Places
  <2>2. \A n \in Nat : 0 = n - 1 => n = 1
    BY SMT
  <2>3. Head(steps) = r
    BY <2>1, <2>2 DEF EndsWith
  <2>5. <<>> \o <<>> = <<>>
    BY SMT
  <2> steps' = <<>>
    BY <2>3, <2>5
  <2> QED BY <2>3 DEF EndsWith
<1> CASE task = t /\ Tail(steps) # <<>>
  <2>1. Tail(steps)[Len(Tail(steps))] = r
    BY Rest DEF EndsWith
  <2> steps'[Len(steps')] = r /\ steps' # <<>>
    BY <2>1, Concatenation, NotEmpty
  <2> QED BY DEF EndsWith, Passed
<1> QED OBVIOUS

LEMMA LastFails ==
    ASSUME TaskFails, steps # <<>>, NEW t, NEW r
    PROVE  EndsWith(t, r)' /\ (Passed(t)' => Passed(t) /\ task # t)
<1> <<Again>> # <<>>
  BY Triple
<1> QED BY DEF TaskFails, GoOnWith, EndsWith, Passed

LEMMA LastNext ==
    ASSUME IsSeq(todo), NEW q, NextTask(q), NEW t, NEW r, Head(todo) = t => q # <<>> /\ q[Len(q)] = r
    PROVE  EndsWith(t, r)' /\ (Passed(t)' => Passed(t) /\ task' # t)
<1>1. todo # <<>> /\ task' = Head(todo) /\ todo' = Tail(todo) /\ steps' = q /\ steps = <<>>
  BY DEF NextTask
<1> Range(todo) = {Head(todo)} \cup Range(Tail(todo))
  BY <1>1, Rest
<1> QED BY <1>1 DEF EndsWith, Passed

LEMMA LastRetry ==
    ASSUME NEW q, RetryTask(q), status' = "running", NEW t, NEW r, task = t => q # <<>> /\ q[Len(q)] = r
    PROVE  EndsWith(t, r)' /\ (Passed(t)' => Passed(t) /\ task # t)
<1> steps' = q /\ steps # <<>> /\ UNCHANGED <<todo, task>>
  BY DEF RetryTask
<1> QED BY DEF EndsWith, Passed

----------------------------------------------------------------------------
(* The cloud.                                                              *)

\* The steps that are neither a request of a reset nor of the cluster itself.
OfApply ==
    \/ Start \/ ResetWithoutClient \/ Succeed \/ Kill \/ NextTask(Requests(Head(todo))) \/ RetryTask(Requests(task))
    \/ RequestRefused \/ (~Resetting /\ ApplyRequestFails) \/ (Resetting /\ ResetRequestFails)
    \/ (~Resetting /\ ApplyRequest) \/ InitializeNodes \/ UNCHANGED vars

LEMMA Steps == ASSUME [Next]_vars PROVE OfApply \/ (Resetting /\ ResetRequest) \/ Controller \/ User
BY DEF Next, Process, Fault, Finished, OfApply

LEMMA CloudApart == ASSUME OfApply PROVE UNCHANGED <<workload, machines, vms>>
<1> ASSUME ApplyRequest PROVE UNCHANGED <<workload, machines, vms>>
  <2> DEFINE s == Head(steps)
  <2> CASE \/ InitCluster(s) \/ Wait(s) \/ PutSecret(s) \/ DeleteSecret(s) \/ WeaveSecret(s)
             \/ Migrate(s) \/ ApplyAddon(s) \/ DeleteAddon(s) \/ CleanupStale(s)
    BY DEF InitCluster, Wait, PutSecret, DeleteSecret, WeaveSecret, Migrate, ApplyAddon, DeleteAddon, CleanupStale,
                workers
  <2> CASE \/ Release(s) \/ RunRelease(s) \/ FinishRelease(s) \/ LabelRelease(s) \/ Uninstall(s)
             \/ CreateWorker(s) \/ ListWorkers(s) \/ GetWorker(s) \/ UpdateWorker(s)
    BY DEF Release, RunRelease, FinishRelease, LabelRelease, Uninstall, CreateWorker, ListWorkers, GetWorker,
                UpdateWorker, workers
  <2> QED BY DEF ApplyRequest
<1> QED BY DEF OfApply, Start, StartCommand, ResetWithoutClient, Succeed, Kill, NextTask, RetryTask, RequestRefused,
                    ApplyRequestFails, ResetRequestFails, InitializeNodes, vars, workers

LEMMA LbsStep ==
    ASSUME LbsInv, [Next]_vars
    PROVE  LbsInv' /\ ("services" \in webhooks /\ WaitCleanupLbs => WaitCleanupLbs')
<1>1. ASSUME UNCHANGED <<services, lbs>>
      PROVE  LbsInv' /\ ("services" \in webhooks /\ WaitCleanupLbs => WaitCleanupLbs')
  BY <1>1 DEF LbsInv, WaitCleanupLbs
<1> USE <1>1
<1>2. ASSUME NEW s, DeleteService(s)
      PROVE  LbsInv' /\ ("services" \in webhooks /\ WaitCleanupLbs => WaitCleanupLbs')
  BY <1>2 DEF DeleteService, LbsInv, WaitCleanupLbs
<1>3. ASSUME NEW x \in Services, CreateService(x)
      PROVE  LbsInv' /\ ("services" \in webhooks /\ WaitCleanupLbs => WaitCleanupLbs')
  BY <1>3 DEF CreateService, Elsewhere, LbsInv
<1>4. ASSUME NEW x \in Services, EnsureLoadBalancer(x)
      PROVE  LbsInv' /\ ("services" \in webhooks /\ WaitCleanupLbs => WaitCleanupLbs')
  BY <1>4 DEF EnsureLoadBalancer, Elsewhere, LbsInv, WaitCleanupLbs
<1>5. ASSUME NEW x \in Services, FinalizeService(x)
      PROVE  LbsInv' /\ ("services" \in webhooks /\ WaitCleanupLbs => WaitCleanupLbs')
  <2>1. services[x] = "deleting" /\ ~WaitCleanupLbs
    BY <1>5 DEF FinalizeService, Elsewhere, WaitCleanupLbs
  <2> CASE lbs' = lbs \ {x} /\ UNCHANGED services
    BY <2>1 DEF LbsInv
  <2> CASE x \notin lbs /\ services' = [services EXCEPT ![x] = "none"] /\ UNCHANGED lbs
    BY <2>1 DEF LbsInv
  <2> QED BY <1>5 DEF FinalizeService, Elsewhere
<1> CASE OfApply
  BY CloudApart DEF workload
<1> CASE ResetRequest
  BY <1>2 DEF ResetRequest, Block, Until, Teardown, ListServices, ListVolumes, DeletePods, DeleteClaim,
         LookForCRDs, Annotate, ListWorkersToDestroy, DeleteMD, DeleteMachineSet, DeleteMachine, workload
<1> CASE User
  BY <1>3 DEF User, CreateClaim, CreatePod, Scale, RemoveMD, Elsewhere, workload
<1> CASE Controller
  <2> CASE \E x \in Services : EnsureLoadBalancer(x) \/ FinalizeService(x)
    BY <1>4, <1>5
  <2> CASE ~\E x \in Services : EnsureLoadBalancer(x) \/ FinalizeService(x)
    BY DEF Controller, Provision, FinalizeClaim, Reclaim, CreateMachineSet, CollectGarbage, CreateMachine,
         RemoveMachine, CreateVM, FinalizeMachine, Elsewhere, workload
  <2> QED OBVIOUS
<1> QED BY Steps

LEMMA DisksStep ==
    ASSUME DisksInv, [Next]_vars
    PROVE  DisksInv' /\ ("volumes" \in webhooks /\ WaitCleanUpVolumes => WaitCleanUpVolumes')
<1> DEFINE Kind == DisksInv' /\ ("volumes" \in webhooks /\ WaitCleanUpVolumes => WaitCleanUpVolumes')
<1>1. ASSUME UNCHANGED <<claims, volumes, disks>> PROVE Kind
  BY <1>1 DEF DisksInv, WaitCleanUpVolumes, VolumesLeft, UnretainedVolumes
<1> USE <1>1
<1>2. ASSUME NEW s, DeleteClaim(s) PROVE Kind
  <2> USE <1>2
  <2> DisksInv'
    BY DEF DeleteClaim, DisksInv
  <2> ASSUME \A c \in Claims : claims[c] = "none" PROVE \A c \in Claims : claims'[c] = "none"
    BY DEF DeleteClaim, DisksInv
  <2> volumes' = volumes
    BY DEF DeleteClaim
  <2> QED BY DEF WaitCleanUpVolumes, VolumesLeft, UnretainedVolumes
<1>3. ASSUME NEW c \in Claims, CreateClaim(c) PROVE Kind
  BY <1>3 DEF CreateClaim, Elsewhere, DisksInv
<1>4. ASSUME NEW c \in Claims, Provision(c) PROVE Kind
  BY <1>4 DEF Provision, Elsewhere, DisksInv
<1>5. ASSUME NEW c \in Claims, FinalizeClaim(c) PROVE Kind
  <2> claims[c] = "deleting" /\ ~WaitCleanUpVolumes
    BY <1>5 DEF FinalizeClaim, Elsewhere, WaitCleanUpVolumes, VolumesLeft
  <2> DisksInv'
    BY <1>5 DEF FinalizeClaim, Elsewhere, DisksInv
  <2> QED OBVIOUS
<1>6. ASSUME NEW c \in Claims, Reclaim(c) PROVE Kind
  <2>1. volumes[c] = "released" /\ ~WaitCleanUpVolumes /\ claims' = claims
    BY <1>6 DEF Reclaim, Elsewhere, WaitCleanUpVolumes, VolumesLeft, UnretainedVolumes
  <2> CASE disks' = disks \ {c} /\ UNCHANGED volumes
    BY <2>1 DEF DisksInv
  <2> CASE c \notin disks /\ volumes' = [volumes EXCEPT ![c] = "none"] /\ UNCHANGED disks
    BY <2>1 DEF DisksInv
  <2> QED BY <1>6 DEF Reclaim, Elsewhere
<1> SUFFICES Kind
  OBVIOUS
<1> HIDE DEF Kind
<1> CASE OfApply
  BY CloudApart DEF workload
<1> CASE ResetRequest
  BY <1>2 DEF ResetRequest, Block, Until, Teardown, ListServices, DeleteService, ListVolumes, DeletePods,
         LookForCRDs, Annotate, ListWorkersToDestroy, DeleteMD, DeleteMachineSet, DeleteMachine, workload
<1> CASE User
  BY <1>3 DEF User, CreateService, CreatePod, Scale, RemoveMD, Elsewhere, workload
<1> CASE Controller
  <2> CASE \E c \in Claims : Provision(c) \/ FinalizeClaim(c) \/ Reclaim(c)
    BY <1>4, <1>5, <1>6
  <2> CASE ~\E c \in Claims : Provision(c) \/ FinalizeClaim(c) \/ Reclaim(c)
    BY DEF Controller, EnsureLoadBalancer, FinalizeService, CreateMachineSet, CollectGarbage,
         CreateMachine, RemoveMachine, CreateVM, FinalizeMachine, Elsewhere, workload
  <2> QED OBVIOUS
<1> QED BY Steps

LEMMA VmsStep ==
    ASSUME VmsInv, [Next]_vars
    PROVE  VmsInv' /\ (NoWorkers => \A x \in DOMAIN machines' : machines'[x] = "none")
<1> DEFINE None == \A x \in DOMAIN machines : machines[x] = "none"
<1> DEFINE Kind == VmsInv' /\ ((\A w \in Workers : mds[w] = NoMD) /\ None => None')
<1>1. UNCHANGED <<machines, vms>> => Kind
  BY DEF VmsInv
<1> USE <1>1
<1>2. ASSUME NEW s, DeleteMachine(s) PROVE Kind
  <2> VmsInv'
    BY <1>2 DEF DeleteMachine, VmsInv
  <2> None => None'
    BY <1>2 DEF DeleteMachine, VmsInv
  <2> QED OBVIOUS
<1>3. \A x \in DOMAIN machines : CreateMachine(x) => Kind
  <2> TAKE x \in DOMAIN machines
  <2> x[1] \in Workers
    BY SMT DEF VmsInv
  <2> QED BY DEF CreateMachine, Elsewhere, VmsInv
<1>4. \A x \in DOMAIN machines : RemoveMachine(x) => Kind
  BY DEF RemoveMachine, Elsewhere, VmsInv
<1>5. \A x \in DOMAIN machines : CreateVM(x) => Kind
  BY DEF CreateVM, Elsewhere, VmsInv
<1>6. ASSUME NEW x \in DOMAIN machines, FinalizeMachine(x) PROVE Kind
  <2> USE <1>6
  <2>1. machines[x] = "deleting" /\ ~None
    BY DEF FinalizeMachine, Elsewhere
  <2> CASE vms' = vms \ {x} /\ UNCHANGED machines
    BY <2>1 DEF VmsInv
  <2> CASE x \notin vms /\ machines' = [machines EXCEPT ![x] = "none"] /\ UNCHANGED vms
    BY <2>1 DEF VmsInv
  <2> QED BY DEF FinalizeMachine, Elsewhere
<1>7. \A w \in Workers : CollectGarbage(w) => Kind
  BY DEF CollectGarbage, Elsewhere, VmsInv
<1> SUFFICES Kind
  BY DEF NoWorkers
<1> HIDE DEF Kind
<1> OfApply => Kind
  BY CloudApart
<1> ResetRequest => Kind
  BY <1>2 DEF ResetRequest, Block, Until, Teardown, ListServices, DeleteService, ListVolumes, DeletePods, DeleteClaim,
         LookForCRDs, Annotate, ListWorkersToDestroy, DeleteMD, DeleteMachineSet, workers
<1> User => Kind
  BY DEF User, CreateService, CreateClaim, CreatePod, Scale, RemoveMD, Elsewhere, workers
<1> CASE Controller
  <2> CASE \E x \in DOMAIN machines : CreateMachine(x) \/ RemoveMachine(x) \/ CreateVM(x) \/ FinalizeMachine(x)
    BY <1>3, <1>4, <1>5, <1>6
  <2> CASE ~\E x \in DOMAIN machines : CreateMachine(x) \/ RemoveMachine(x) \/ CreateVM(x) \/ FinalizeMachine(x)
    BY <1>7 DEF Controller, EnsureLoadBalancer, FinalizeService, Provision, FinalizeClaim, Reclaim,
         CreateMachineSet, Elsewhere, workers
  <2> QED OBVIOUS
<1> QED BY Steps

\* MachineDeployments are created by the last task of an installation only.
LEMMA MdsStep ==
    ASSUME WorkerInv, [Next]_vars
    PROVE  (\A w \in Workers : mds[w] = NoMD => mds'[w] = NoMD) \/ (ApplyRequest /\ CreateWorker(Head(steps)))
<1> DEFINE s == Head(steps)
<1> DEFINE Kind == \A w \in Workers : mds[w] = NoMD => mds'[w] = NoMD
<1> mds \in [Workers -> MachineDeployment \cup {NoMD}]
  BY DEF WorkerInv, ReadInv
<1>1. mds' = mds => Kind
  OBVIOUS
<1> USE <1>1
<1>2. (\E x : mds' = [mds EXCEPT ![x] = NoMD]) => Kind
  OBVIOUS
<1>3. (\E x, d : mds[x] # NoMD /\ mds' = [mds EXCEPT ![x] = d]) => Kind
  OBVIOUS
<1> HIDE DEF Kind
<1>4. UpdateWorker(s) => Kind
  BY <1>3 DEF UpdateWorker
<1>5. ApplyRequest => Kind \/ CreateWorker(s)
  BY <1>4 DEF ApplyRequest, InitCluster, Wait, PutSecret, DeleteSecret, WeaveSecret, Migrate, ApplyAddon, DeleteAddon,
              CleanupStale, Release, RunRelease, FinishRelease, LabelRelease, Uninstall, ListWorkers, GetWorker, workers
<1>6. OfApply /\ ~ApplyRequest => Kind
  BY DEF OfApply, Start, StartCommand, ResetWithoutClient, Succeed, Kill, NextTask, RetryTask, RequestRefused,
         ApplyRequestFails, ResetRequestFails, InitializeNodes, vars, workers
<1>7. ResetRequest => Kind
  BY <1>2 DEF ResetRequest, Block, Until, Teardown, ListServices, DeleteService, ListVolumes, DeletePods, DeleteClaim,
         DeleteMD, LookForCRDs, Annotate, ListWorkersToDestroy, DeleteMachineSet, DeleteMachine, workers
<1>8. User => Kind
  BY <1>2, <1>3 DEF User, CreateService, CreateClaim, CreatePod, Scale, RemoveMD, Elsewhere, workers
<1>9. Controller => Kind
  BY DEF Controller, EnsureLoadBalancer, FinalizeService, Provision, FinalizeClaim, Reclaim, CreateMachineSet,
         CollectGarbage, CreateMachine, RemoveMachine, CreateVM, FinalizeMachine, Elsewhere, workers
<1> HIDE DEF s
<1> Kind \/ (ApplyRequest /\ CreateWorker(s))
  BY <1>5, <1>6, <1>7, <1>8, <1>9, Steps
<1> QED BY DEF s, Kind

----------------------------------------------------------------------------
(* Machine-controller.                                                     *)

LEMMA Equipped ==
    ASSUME Tended, ScriptInv, script # <<>>
    PROVE  /\ ~Resetting /\ DOMAIN m.workers # {} => m.mc
           /\ Resetting /\ up /\ flags.workers => m.mc
<1> PICK c \in Range(world.script) :
          /\ c.manifest = m /\ c.cmd = Head(script).cmd /\ c.cmd \in {"apply", "reset"}
          /\ up \/ c.cmd # "reset" => c = Head(script)
  BY Command
<1> QED BY DEF Tended, ScriptInv, Resetting, flags

LEMMA Present == \A a : ObjectsOf(a) # {} <=> \E p \in live : p[1] = a
BY DEF ObjectsOf

LEMMA ControllerStays ==
    ASSUME Tended, WorkerInv, [Next]_vars, ObjectsOf("machinecontroller") # {}
    PROVE  ObjectsOf("machinecontroller")' # {}
<1> DEFINE s == Head(steps)
<1> DEFINE There == \E p \in live : p[1] = "machinecontroller"
<1>1. ASSUME ApplyRequest PROVE There'
  <2>1. There
    BY Present
  <2> USE <2>1
  <2>2. live' = live => There'
    OBVIOUS
  <2>3. Migrate(s) \/ DeleteAddon(s) \/ CleanupStale(s) => s.addon # "machinecontroller"
    BY <1>1, AtHand DEF WorkerInv, ApplyRequest, Migrate, DeleteAddon, CleanupStale, Legal
  <2> USE <2>3
  <2>4. Migrate(s) => There'
    BY DEF Migrate
  <2>5. DeleteAddon(s) => There'
    BY DEF DeleteAddon
  <2>6. CleanupStale(s) => There'
    BY DEF CleanupStale
  <2>7. ApplyAddon(s) => There'
    <3>1. \A a, o : <<a, o>>[1] = a
      BY SMT
    <3>2. ApplyAddon(s) => \/ live' = live
                           \/ /\ s.objs # {}
                              /\ live' = {p \in live : p[1] # s.addon} \cup {<<s.addon, o>> : o \in s.objs}
      BY DEF ApplyAddon
    <3>3. s.objs # {} => \E p \in {<<s.addon, o>> : o \in s.objs} : p[1] = s.addon
      BY <3>1
    <3> QED BY <3>2, <3>3
  <2> HIDE DEF There
  <2> QED BY <1>1, <2>2, <2>4, <2>5, <2>6, <2>7 DEF ApplyRequest, InitCluster, Wait, PutSecret, DeleteSecret, WeaveSecret,
             Release, RunRelease, FinishRelease, LabelRelease, Uninstall, CreateWorker, ListWorkers, GetWorker, UpdateWorker,
             objects
<1>2. OfApply /\ ~ApplyRequest => live' = live
  BY DEF OfApply, Start, StartCommand, ResetWithoutClient, Succeed, Kill, NextTask, RetryTask, RequestRefused,
         ApplyRequestFails, ResetRequestFails, InitializeNodes, vars, objects
<1>3. ResetRequest => live' = live
  BY DEF ResetRequest, Block, Until, Teardown, ListServices, DeleteService, ListVolumes, DeletePods, DeleteClaim, DeleteMD,
         LookForCRDs, Annotate, ListWorkersToDestroy, DeleteMachineSet, DeleteMachine, objects
<1>4. Controller \/ User => live' = live
  BY DEF Controller, EnsureLoadBalancer, FinalizeService, Provision, FinalizeClaim, Reclaim, CreateMachineSet, CollectGarbage,
         CreateMachine, RemoveMachine, CreateVM, FinalizeMachine, User, CreateService, CreateClaim, CreatePod, Scale, RemoveMD,
         Elsewhere, objects
<1>5. There' \/ live' = live
  BY <1>1, <1>2, <1>3, <1>4, Steps
<1> QED BY <1>5 DEF ObjectsOf

LEMMA WaitsLast ==
    ASSUME ~Resetting, m.mc
    PROVE  LET q == Requests("machine-controller") IN q # <<>> /\ q[Len(q)] = wait("machine-controller")
<1> DEFINE a == cleanupStaleResources
<1> DEFINE b == <<wait("machine-controller")>>
<1> Requests("machine-controller") = a \o b
  BY DEF Requests, ApplyRequests, whenever
<1>2. IsSeq(a) /\ IsSeq(b) /\ b # <<>>
  BY NoneAndOne, Triple DEF cleanupStaleResources
<1> b[Len(b)] = wait("machine-controller")
  BY SMT
<1> HIDE DEF a, b
<1> a \o b # <<>>
  BY <1>2, NotEmpty
<1> (a \o b)[Len(a \o b)] = b[Len(b)]
  BY <1>2, Concatenation
<1> QED OBVIOUS

\* The first requests have been passed over.
LEMMA LastSkip ==
    ASSUME IsSeq(steps), NEW i \in DOMAIN steps, GoOnWith(SubSeq(steps, i + 1, Len(steps))), steps # <<Again>>,
           NEW t, NEW r, EndsWith(t, r), task = t => i # Len(steps)
    PROVE  EndsWith(t, r)' /\ (Passed(t)' => Passed(t))
<1> CASE task # t
  BY DEF GoOnWith, EndsWith, Passed
<1> CASE task = t
  <2> DEFINE q == SubSeq(steps, i + 1, Len(steps))
  <2>1. Len(steps) \in Nat /\ i \in 1..Len(steps) /\ i # Len(steps) /\ steps \in Seq(Range(steps)) /\ steps # <<>>
    <3>1. Len(steps) \in Nat /\ i \in 1..Len(steps) /\ (steps = <<>> <=> Len(steps) = 0)
      BY Places
    <3> Len(steps) # 0
      BY <3>1, SMT
    <3> QED BY <3>1 DEF IsSeq
  <2> USE <2>1
  <2>2. q \in Seq(Range(steps)) /\ Len(q) = Len(steps) - i /\ \A j \in 1..Len(steps) - i : q[j] = steps[i + j]
    BY SMT
  <2> HIDE DEF q
  <2>3. Len(q) # 0 /\ q[Len(q)] = steps[Len(steps)]
    <3> \A n \in Nat : \A k \in 1..n : k # n => n - k # 0 /\ n - k \in 1..n - k /\ k + (n - k) = n
      BY SMT
    <3> QED BY <2>2
  <2> q # <<>>
    BY <2>2, <2>3, OwnElements, Places
  <2> steps' = q /\ UNCHANGED <<task, todo>>
    BY DEF GoOnWith, q
  <2> QED BY <2>3 DEF EndsWith, Passed
<1> QED OBVIOUS

\* What becomes of the process at a request of kubeone apply.
LEMMA ApplyAnswer ==
    ASSUME WorkerInv, ApplyRequest
    PROVE  \/ TaskFails
           \/ TaskEnds /\ task = "upgradeMachineDeployments"
           \/ \E more : /\ IsSeq(more) /\ AnsweredWith(more) /\ Head(steps).op # "again"
                        /\ Head(steps).op = "wait" => more = <<>> /\ Reached(Head(steps).for)
<1> DEFINE s == Head(steps)
<1> DEFINE Kind ==
        \/ TaskFails
        \/ TaskEnds /\ task = "upgradeMachineDeployments"
        \/ \E more : /\ IsSeq(more) /\ AnsweredWith(more) /\ s.op # "again"
                     /\ s.op = "wait" => more = <<>> /\ Reached(s.for)
<1> SUFFICES Kind
  OBVIOUS
<1>1. Answered /\ s.op \notin {"again", "wait"} => Kind
  BY NoneAndOne DEF Answered
<1> USE <1>1
<1>2. TaskFails => Kind
  OBVIOUS
<1> Wait(s) => Kind
  BY NoneAndOne DEF Wait, Answered
<1> ASSUME Release(s) PROVE Kind
  <2> PICK x, y, z : \E more \in {<<>>, <<x, y, z>>} : AnsweredWith(more)
    BY DEF Release
  <2> IsSeq(<<>>) /\ IsSeq(<<x, y, z>>)
    <3>1. IsSeq(<<x>> \o (<<y>> \o <<z>>))
      BY NoneAndOne, Joined
    <3> IsSeq(<<x, y, z>>)
      BY <3>1, Triple
    <3> QED BY NoneAndOne
  <2>3. s.op = "release"
    BY DEF Release
  <2> s.op \notin {"again", "wait"}
    BY <2>3, SMT
  <2> QED OBVIOUS
<1> ASSUME ListWorkers(s) PROVE Kind
  <2> DEFINE q == [i \in 1..Cardinality(Existing) |-> getWorker(AnyOrder(Existing)[i])]
  <2>1. AnsweredWith(q) /\ s.op = "listWorkers"
    BY DEF ListWorkers
  <2>2. Cardinality(Existing) \in Nat
    BY ClusterAssumption, FS_Subset, FS_CardinalityType DEF Existing
  <2>3. q = [i \in 1..Cardinality(Existing) |-> q[i]]
    OBVIOUS
  <2> HIDE DEF q
  <2> IsSeq(q)
    BY <2>2, <2>3, IsList
  <2> s.op \notin {"again", "wait"}
    BY <2>1, SMT
  <2> QED BY <2>1
<1> ASSUME GetWorker(s) \/ UpdateWorker(s) PROVE Kind
  <2>1. s.op \in {"getWorker", "updateWorker"} /\ steps # <<>>
    BY DEF GetWorker, UpdateWorker, ApplyRequest
  <2> s.op \notin {"again", "wait"} /\ task = "upgradeMachineDeployments"
    BY <2>1, AtHand DEF WorkerInv, Legal
  <2> TaskFails \/ TaskEnds \/ Answered \/ \E x : AnsweredWith(<<x>>)
    BY DEF GetWorker, UpdateWorker
  <2> QED BY NoneAndOne
<1> HIDE DEF Kind
<1> CASE \/ PutSecret(s) \/ DeleteSecret(s) \/ WeaveSecret(s) \/ Migrate(s) \/ ApplyAddon(s) \/ DeleteAddon(s)
           \/ CleanupStale(s) \/ InitCluster(s)
  BY <1>2 DEF PutSecret, DeleteSecret, WeaveSecret, Migrate, ApplyAddon, DeleteAddon, CleanupStale, InitCluster
<1> RunRelease(s) \/ FinishRelease(s) \/ LabelRelease(s) \/ Uninstall(s) \/ CreateWorker(s) => Kind
  BY <1>2 DEF RunRelease, FinishRelease, LabelRelease, Uninstall, CreateWorker
<1> QED BY DEF ApplyRequest

\* The steps that leave the process as it is.
LEMMA Bystanders ==
    ASSUME InitializeNodes \/ Controller \/ User \/ UNCHANGED vars
    PROVE  UNCHANGED <<world, process, up, objects, webhooks>>
BY DEF Controller, EnsureLoadBalancer, FinalizeService, Provision, FinalizeClaim, Reclaim, CreateMachineSet, CollectGarbage,
       CreateMachine, RemoveMachine, CreateVM, FinalizeMachine, User, CreateService, CreateClaim, CreatePod, Scale, RemoveMD,
       Elsewhere, InitializeNodes, vars, node

LEMMA ToDo ==
    /\ "machine-controller" \in Range(ApplyTasks)
    /\ Range(ResetTasks) = ResetNames
<1>1. "machine-controller" \in Range(WithResources)
  <2> 7 \in DOMAIN WithResources /\ WithResources[7] = "machine-controller"
    BY SMT DEF WithResources
  <2> QED BY DEF Range
<1>2. IsSeq(WithResources)
  <2> WithResources \in Seq(ApplyNames)
    BY SMT DEF WithResources, ApplyNames
  <2> QED BY OwnElements
<1> Range(ResetTasks) = ResetNames
  <2>1. \A x : x \in Range(ResetTasks) <=> \E i \in DOMAIN ResetTasks : x = ResetTasks[i]
    BY DEF Range
  <2> \A x : x \in Range(ResetTasks) <=> x \in ResetNames
    BY <2>1, SMT DEF ResetTasks, ResetNames
  <2> QED OBVIOUS
<1> "machine-controller" \in Range(<<"init">> \o WithResources \o <<"createMachineDeployments">>)
  <2> DEFINE a == <<"init">>
  <2> DEFINE b == <<"createMachineDeployments">>
  <2>1. IsSeq(a) /\ IsSeq(b)
    BY NoneAndOne
  <2> HIDE DEF a, b
  <2> DEFINE c == a \o WithResources
  <2>2. IsSeq(c) /\ "machine-controller" \in Range(c)
    BY <1>1, <1>2, <2>1, Concatenation
  <2> HIDE DEF c
  <2>4. Range(c \o b) = Range(c) \cup Range(b)
    BY <2>1, <2>2, Concatenation
  <2> "machine-controller" \in Range(a \o WithResources \o b)
    BY <2>2, <2>4 DEF c
  <2> QED BY DEF a, b
<1> QED BY <1>1 DEF ApplyTasks

\* Where machine-controller is wanted, it is there once its task is done.
LEMMA Attended ==
    ASSUME Tended, WorkerInv, [Next]_vars,
           status = "running" /\ ~Resetting /\ m.mc =>
               /\ Passed("machine-controller") => ObjectsOf("machinecontroller") # {}
               /\ EndsWith("machine-controller", wait("machine-controller")),
           status' = "running", ~Resetting', m'.mc
    PROVE  /\ Passed("machine-controller")' => ObjectsOf("machinecontroller")' # {}
           /\ EndsWith("machine-controller", wait("machine-controller"))'
<1> DEFINE t == "machine-controller"
<1> DEFINE r == wait("machine-controller")
<1> DEFINE There == ObjectsOf("machinecontroller") # {}
<1> DEFINE Kind == (Passed(t)' => There') /\ EndsWith(t, r)'
<1>1. There => There'
  BY ControllerStays
<1>2. ASSUME script' = script, status = "running", EndsWith(t, r)', Passed(t)' => Passed(t) \/ There PROVE Kind
  <2> ~Resetting /\ m.mc
    BY <1>2 DEF Resetting, m
  <2> QED BY <1>1, <1>2
<1> USE <1>2
<1>3. script' = script => ~Resetting /\ m.mc
  BY DEF Resetting, m
<1> USE <1>3
<1>4. QueueInv /\ IsSeq(steps) /\ IsSeq(todo)
  BY DEF WorkerInv, QueueInv
<1> USE <1>4
<1> SUFFICES Kind
  OBVIOUS
<1>5. ASSUME Start PROVE Kind
  <2>1. script' = script /\ todo' = Tasks(Head(script)) /\ steps' = <<>> /\ script # <<>>
    BY <1>5 DEF Start, StartCommand
  <2> todo' = ApplyTasks
    BY <2>1 DEF Tasks, Resetting
  <2> QED BY <2>1, ToDo DEF Passed, EndsWith
<1>6. ASSUME NextTask(Requests(Head(todo))) PROVE Kind
  <2>1. script' = script /\ status = "running"
    BY <1>6 DEF NextTask
  <2> EndsWith(t, r)' /\ (Passed(t)' => Passed(t))
    BY <1>6, <2>1, WaitsLast, LastNext
  <2> QED BY <2>1
<1>7. ASSUME RetryTask(Requests(task)) PROVE Kind
  <2>1. script' = script /\ status = "running"
    BY <1>7 DEF RetryTask
  <2> EndsWith(t, r)' /\ (Passed(t)' => Passed(t))
    BY <1>7, <2>1, WaitsLast, LastRetry
  <2> QED BY <2>1
<1>8. ASSUME TaskFails, status = "running", steps # <<>> PROVE Kind
  <2> USE <1>8
  <2> script' = script
    BY DEF TaskFails, GoOnWith
  <2> EndsWith(t, r)' /\ (Passed(t)' => Passed(t))
    BY LastFails
  <2> QED OBVIOUS
<1> USE <1>8
<1>9. ASSUME TaskEnds, status = "running", task = "upgradeMachineDeployments" PROVE Kind
  <2> USE <1>9
  <2>1. script' = script /\ steps' = <<>> /\ UNCHANGED <<todo, task>>
    BY DEF TaskEnds, GoOnWith
  <2> EndsWith(t, r)' /\ (Passed(t)' => Passed(t))
    BY <2>1 DEF EndsWith, Passed
  <2> QED BY <2>1
<1>10. ASSUME ApplyRequest PROVE Kind
  <2>1. status = "running" /\ steps # <<>>
    BY <1>10 DEF ApplyRequest
  <2> USE <2>1
  <2> ASSUME NEW more, IsSeq(more), AnsweredWith(more), Head(steps).op # "again",
               Head(steps).op = "wait" => more = <<>> /\ Reached(Head(steps).for)
        PROVE  Kind
    <3>1. script' = script /\ EndsWith(t, r)
      BY DEF AnsweredWith
    <3>2. r.op = "wait" /\ r.for = t
      BY SMT DEF wait
    <3> EndsWith(t, r)' /\ (Passed(t)' => Passed(t) \/ (task = t /\ Head(steps) = r))
      BY <3>1, <3>2, NotAgain, LastAnswer
    <3> Head(steps) = r => There
      BY <3>2 DEF Reached, waitForMachineController, PodsReady
    <3> QED BY <3>1
  <2> QED BY <1>9, <1>10, ApplyAnswer
<1>11. ASSUME ApplyRequestFails PROVE Kind
  <2>1. status = "running" /\ steps # <<>> /\ Head(steps).op # "again" /\ script' = script
    BY <1>11 DEF ApplyRequestFails, TaskEnds, TaskFails, GoOnWith
  <2> USE <2>1
  <2> Head(steps).op = "updateWorker" => task = "upgradeMachineDeployments"
    BY AtHand DEF WorkerInv, Legal
  <2> ASSUME NEW i \in DOMAIN steps, \A j \in 1..i : Lenient(steps[j]), GoOnWith(SubSeq(steps, i + 1, Len(steps)))
        PROVE  Kind
    <3>1. EndsWith(t, r) /\ steps # <<Again>>
      BY NotAgain
    <3>2. i \in 1..i
      BY Places, SMT
    <3>3. r.op = "wait"
      BY SMT DEF wait
    <3>4. steps[i].op = "migrate"
      BY <3>2 DEF Lenient
    <3>5. task = t => i # Len(steps)
      BY <3>1, <3>3, <3>4 DEF EndsWith
    <3> EndsWith(t, r)' /\ (Passed(t)' => Passed(t))
      BY <3>1, <3>5, LastSkip
    <3> QED OBVIOUS
  <2> QED BY <1>9, <1>11 DEF ApplyRequestFails
<1>12. ASSUME UNCHANGED <<process, objects>> PROVE Kind
  BY <1>12 DEF process, objects, Passed, EndsWith, ObjectsOf, Resetting, m
<1> HIDE DEF Kind
<1>13. Resetting /\ (ResetRequest \/ ResetRequestFails) => script' = script
  BY DEF ResetRequestFails, TaskFails, GoOnWith, ResetRequest, Block, Until, Teardown, ListServices, DeleteService, ListVolumes,
         DeletePods, DeleteClaim, DeleteMD, LookForCRDs, Annotate, ListWorkersToDestroy, DeleteMachineSet, DeleteMachine,
         Answered, AnsweredWith
<1>14. ~ResetWithoutClient
  BY WithoutClientFine DEF WorkerInv
<1>15. ~Succeed /\ ~Kill
  BY DEF Succeed, Kill
<1>16. RequestRefused => Kind
  BY DEF RequestRefused
<1>17. InitializeNodes \/ Controller \/ User \/ UNCHANGED vars => Kind
  BY <1>12, Bystanders
<1> OfApply => Kind
  BY <1>5, <1>6, <1>7, <1>10, <1>11, <1>13, <1>14, <1>15, <1>16, <1>17 DEF OfApply
<1> QED BY <1>13, <1>17, Steps

LEMMA ControllerStep ==
    ASSUME WorkerInv, VmsInv, ControllerInv, [Next]_vars
    PROVE  ControllerInv'
<1> SUFFICES ASSUME Tended PROVE ControllerInv'
  BY DEF ControllerInv
<1> DEFINE There == ObjectsOf("machinecontroller") # {}
<1> ASSUME ~There' PROVE NoWorkers'
  <2>1. ~There /\ NoWorkers
    BY ControllerStays DEF ControllerInv
  <2> ASSUME ApplyRequest, ~Resetting, CreateWorker(Head(steps)) PROVE FALSE
    <3>1. status = "running" /\ steps # <<>> /\ Head(steps).op = "createWorker" /\ script # <<>>
      BY DEF ApplyRequest, CreateWorker, WorkerInv, QueueInv
    <3> USE <3>1
    <3>2. task = "createMachineDeployments" /\ DOMAIN m.workers # {}
      BY AtHand DEF WorkerInv, Legal, m
    <3> USE <3>2
    <3>3. todo = <<>>
      BY DEF WorkerInv, QueueInv, LastTasks
    <3> Passed("machine-controller")
      BY <3>3, NoneAndOne DEF Passed
    <3> m.mc
      BY Equipped DEF WorkerInv
    <3> QED BY <2>1 DEF ControllerInv
  <2> ApplyRequest /\ CreateWorker(Head(steps)) => ~Resetting
    <3> ASSUME ApplyRequest, CreateWorker(Head(steps)) PROVE Legal(Head(script), task, Head(steps))
      BY AtHand DEF ApplyRequest, WorkerInv
    <3> QED BY DEF CreateWorker, Legal, Resetting
  <2> QED BY <2>1, VmsStep, MdsStep DEF NoWorkers
<1> ASSUME status' = "running", ~Resetting', m'.mc
      PROVE  /\ Passed("machine-controller")' => There'
             /\ EndsWith("machine-controller", wait("machine-controller"))'
  BY Attended DEF ControllerInv
<1> QED BY DEF ControllerInv

----------------------------------------------------------------------------
(* The cleanups of a reset.                                                *)

\* What becomes of the process and of the webhooks at a request of kubeone reset.
LEMMA ResetAnswer ==
    ASSUME WorkerInv, ResetRequest
    PROVE  /\ webhooks \subseteq webhooks' /\ skipped' = skipped
           /\ \/ TaskFails
              \/ \E more : /\ IsSeq(more) /\ AnsweredWith(more) /\ Head(steps).op # "again"
                           /\ Head(steps).op = "until" => more = <<>> /\ Gone(Head(steps).name)
                           /\ Head(steps).op = "block" => Head(steps).name \in webhooks'
<1> DEFINE s == Head(steps)
<1> DEFINE Kind == /\ webhooks \subseteq webhooks' /\ skipped' = skipped
                   /\ \/ TaskFails
                      \/ \E more : /\ IsSeq(more) /\ AnsweredWith(more) /\ s.op # "again"
                                   /\ s.op = "until" => more = <<>> /\ Gone(s.name)
                                   /\ s.op = "block" => s.name \in webhooks'
<1> SUFFICES Kind
  OBVIOUS
<1> steps # <<>> /\ IsSeq(<<>>)
  BY NoneAndOne DEF ResetRequest
<1>1. s.op \notin {"again", "until", "block"} /\ webhooks' = webhooks /\ Answered => Kind
  BY DEF Answered, AnsweredWith
<1>2. webhooks' = webhooks /\ TaskFails => Kind
  BY DEF TaskFails, GoOnWith
<1> Block(s) => Kind
  BY DEF Block, Answered, AnsweredWith
<1> Until(s) => Kind
  BY <1>2 DEF Until, Answered, AnsweredWith
<1> CASE ListServices(s) \/ ListVolumes(s) \/ LookForCRDs(s) \/ ListWorkersToDestroy(s)
  <2> webhooks' = webhooks /\ s.op \in {"listServices", "listVolumes", "crds", "list"}
    BY DEF ListServices, ListVolumes, LookForCRDs, ListWorkersToDestroy
  <2> \E more : AnsweredWith(more) /\ Fine(Head(script), task, more)
    BY ResetLists
  <2> QED BY DEF AnsweredWith, Fine
<1> HIDE DEF Kind
<1> Teardown(s) \/ DeleteService(s) \/ DeletePods(s) \/ DeleteClaim(s) \/ Annotate(s) \/ DeleteMachineSet(s) => Kind
  BY <1>1 DEF Teardown, DeleteService, DeletePods, DeleteClaim, Annotate, DeleteMachineSet
<1> DeleteMD(s) \/ DeleteMachine(s) => Kind
  BY <1>1, <1>2 DEF DeleteMD, DeleteMachine
<1> QED BY DEF ResetRequest

\* The steps while a reset runs that has a control plane to talk to.
LEMMA ResetSteps ==
    ASSUME WorkerInv, [Next]_vars, status' = "running", Resetting', up'
    PROVE  /\ script' = script /\ Resetting /\ up
           /\ \/ Start
              \/ /\ status = "running"
                 /\ \/ NextTask(Requests(Head(todo))) \/ RetryTask(Requests(task))
                    \/ RequestRefused \/ ResetRequestFails \/ ResetRequest
                    \/ UNCHANGED <<process, webhooks>>
<1> DEFINE Same == script' = script /\ Resetting /\ up
<1> DEFINE Bystander == InitializeNodes \/ Controller \/ User \/ UNCHANGED vars
<1>1. script' = script /\ up' = up => Same
  BY DEF Resetting
<1>2. Start \/ NextTask(Requests(Head(todo))) \/ RetryTask(Requests(task)) \/ RequestRefused \/ ResetRequestFails => Same
  BY <1>1 DEF Start, StartCommand, NextTask, RetryTask, RequestRefused, ResetRequestFails, TaskFails, GoOnWith, node
<1>3. ResetRequest => Same
  <2> ResetRequest => script' = script
    BY ResetAnswer DEF TaskFails, GoOnWith, AnsweredWith
  <2> ResetRequest => up
    BY DEF ResetRequest, Block, Until, Teardown, ListServices, DeleteService, ListVolumes, DeletePods, DeleteClaim, DeleteMD,
           LookForCRDs, Annotate, ListWorkersToDestroy, DeleteMachineSet, DeleteMachine, node
  <2> QED BY DEF Resetting
<1>4. ~Succeed /\ ~Kill /\ ~ResetWithoutClient
  BY DEF Succeed, Kill, ResetWithoutClient, node
<1>5. ~Resetting => ~ApplyRequest /\ ~ApplyRequestFails
  <2> ApplyRequest => script' = script
    BY ApplyAnswer DEF TaskFails, TaskEnds, GoOnWith, AnsweredWith
  <2> ApplyRequestFails => script' = script
    BY DEF ApplyRequestFails, TaskFails, TaskEnds, GoOnWith
  <2> QED BY DEF Resetting
<1>6. Bystander => Same /\ status = "running" /\ UNCHANGED <<process, webhooks>>
  BY <1>1, Bystanders DEF process
<1> NextTask(Requests(Head(todo))) \/ RetryTask(Requests(task)) \/ RequestRefused \/ ResetRequestFails \/ ResetRequest
      => status = "running"
  BY DEF NextTask, RetryTask, RequestRefused, ResetRequestFails, ResetRequest
<1> HIDE DEF Same
<1>8. \/ Start \/ NextTask(Requests(Head(todo))) \/ RetryTask(Requests(task))
      \/ RequestRefused \/ ResetRequestFails \/ ResetRequest \/ Bystander
  BY <1>4, <1>5, Steps DEF OfApply
<1> Same
  BY <1>2, <1>3, <1>6, <1>8
<1> QED BY <1>6, <1>8 DEF Same

\* A reset waits for what its cleanup of Services or of volumes has to remove.
LEMMA CleanupStep ==
    ASSUME WorkerInv, [Next]_vars, status' = "running", Resetting', up', NEW t, NEW what,
           (t = "removeLBServices" /\ what = "services") \/ (t = "removeVolumes" /\ what = "volumes"),
           what \in webhooks /\ Gone(what) => Gone(what)',
           status = "running" => Cleanup(t, what),
           Requests(t) # <<>>, Head(Requests(t)) = request("block", what),
           Requests(t)[Len(Requests(t))] = request("until", what)
    PROVE  Cleanup(t, what)'
<1> DEFINE r == request("until", what)
<1> DEFINE first == request("block", what)
<1> DEFINE Kept0 == what \in webhooks => what \in webhooks'
<1> DEFINE Working == task = t /\ steps # <<>> /\ steps # <<Again>> => what \in webhooks \/ Head(steps) = first
<1>1. ASSUME Passed(t)' => Passed(t) /\ what \in webhooks', EndsWith(t, r)', Working', status = "running"
      PROVE  Cleanup(t, what)'
  <2> USE <1>1
  <2>1. Cleanup(t, what)
    OBVIOUS
  <2> Passed(t)' => what \in webhooks' /\ Gone(what)'
    BY <2>1 DEF Cleanup
  <2> QED BY DEF Cleanup
<1> USE <1>1
<1>2. IsSeq(steps) /\ IsSeq(todo)
  BY DEF WorkerInv, QueueInv
<1>3. t \in ResetNames /\ t # "destroyWorkers"
  BY DEF ResetNames
<1> ASSUME Start PROVE Cleanup(t, what)'
  <2> todo' = ResetTasks /\ steps' = <<>>
    BY ResetSteps DEF Start, StartCommand, Tasks, Resetting
  <2> QED BY <1>3, ToDo DEF Cleanup, Passed, EndsWith
<1> ASSUME NextTask(Requests(Head(todo))) PROVE Cleanup(t, what)'
  <2> EndsWith(t, r)' /\ (Passed(t)' => Passed(t))
    BY <1>2, LastNext
  <2>2. status = "running" /\ webhooks' = webhooks /\ Working'
    BY DEF NextTask
  <2> Passed(t) => what \in webhooks
    BY <2>2 DEF Cleanup
  <2> QED BY <2>2
<1> ASSUME RetryTask(Requests(task)) PROVE Cleanup(t, what)'
  <2> EndsWith(t, r)' /\ (Passed(t)' => Passed(t))
    BY LastRetry
  <2>2. status = "running" /\ webhooks' = webhooks /\ Working'
    BY DEF RetryTask
  <2> Passed(t) => what \in webhooks
    BY <2>2 DEF Cleanup
  <2> QED BY <2>2
<1>7. ASSUME TaskFails, steps # <<>>, status = "running", task # t => Kept0 PROVE Cleanup(t, what)'
  <2> USE <1>7
  <2> EndsWith(t, r)' /\ (Passed(t)' => Passed(t) /\ task # t)
    BY LastFails
  <2> Working'
    BY DEF TaskFails, GoOnWith
  <2> Passed(t) => what \in webhooks
    BY DEF Cleanup
  <2> QED OBVIOUS
<1> USE <1>7
<1> ASSUME ResetRequestFails PROVE Cleanup(t, what)'
  <2>1. status = "running" /\ steps # <<>>
    BY DEF ResetRequestFails
  <2> USE <2>1
  <2>2. task # t => Kept0
    BY DEF ResetRequestFails, DeletePreventingWebhooks
  <2> ASSUME Head(steps).op = "crds", steps' = <<>>, UNCHANGED <<todo, task>> PROVE Cleanup(t, what)'
    <3>1. task # t
      BY <1>3, AtHand DEF WorkerInv, Legal
    <3> EndsWith(t, r)' /\ Working' /\ (Passed(t)' => Passed(t))
      BY <3>1 DEF EndsWith, Passed
    <3> Passed(t) => what \in webhooks
      BY DEF Cleanup
    <3> QED BY <2>2, <3>1
  <2> QED BY <2>2 DEF ResetRequestFails
<1> ASSUME ResetRequest PROVE Cleanup(t, what)'
  <2>1. status = "running" /\ steps # <<>> /\ Kept0
    BY ResetAnswer DEF ResetRequest
  <2> USE <2>1
  <2> ASSUME NEW more, IsSeq(more), AnsweredWith(more), Head(steps).op # "again",
               Head(steps).op = "until" => more = <<>> /\ Gone(Head(steps).name),
               Head(steps).op = "block" => Head(steps).name \in webhooks'
        PROVE  Cleanup(t, what)'
    <3>1. Cleanup(t, what) /\ EndsWith(t, r) /\ Working /\ steps # <<Again>>
      BY NotAgain DEF Cleanup
    <3> USE <3>1
    <3>2. r.op = "until" /\ r.name = what /\ first.op = "block" /\ first.name = what
      BY SMT DEF request
    <3> USE <3>2
    <3> HIDE DEF r, first
    <3>3. EndsWith(t, r)' /\ (Passed(t)' => Passed(t) \/ (task = t /\ Head(steps) = r))
      BY <1>2, LastAnswer
    <3>4. task = t => what \in webhooks'
      OBVIOUS
    <3> Working'
      BY <3>4 DEF AnsweredWith
    <3>6. task = t /\ Head(steps) = r => what \in webhooks /\ Gone(what)
      OBVIOUS
    <3> Passed(t)' => what \in webhooks /\ Gone(what)
      BY <3>3, <3>6 DEF Cleanup
    <3> QED BY <3>3 DEF Cleanup, r, first
  <2> QED BY ResetAnswer
<1> ASSUME UNCHANGED <<process, webhooks>>, status = "running" PROVE Cleanup(t, what)'
  <2> UNCHANGED <<todo, task, steps>>
    BY DEF process
  <2> QED BY DEF Cleanup, Passed, EndsWith
<1> RequestRefused => Cleanup(t, what)'
  BY DEF RequestRefused
<1> QED BY ResetSteps

\* No workers are created while a reset runs.
LEMMA NoneCreated ==
    ASSUME WorkerInv, VmsInv, [Next]_vars, Resetting
    PROVE  /\ \A w \in Workers : mds[w] = NoMD => mds'[w] = NoMD
           /\ NoWorkers => NoWorkers'
<1>1. ~(ApplyRequest /\ CreateWorker(Head(steps)))
  BY AtHand DEF ApplyRequest, CreateWorker, WorkerInv, Legal, Resetting
<1> \A w \in Workers : mds[w] = NoMD => mds'[w] = NoMD
  BY <1>1, MdsStep
<1> QED BY VmsStep DEF NoWorkers

\* The requests after the one that was answered wait on.
LEMMA StillAsked ==
    ASSUME IsSeq(steps), steps # <<>>, NEW more, IsSeq(more), AnsweredWith(more)
    PROVE  Range(steps') = Range(more) \cup Range(Tail(steps)) /\ Range(steps) = {Head(steps)} \cup Range(Tail(steps))
<1>1. IsSeq(Tail(steps)) /\ Range(steps) = {Head(steps)} \cup Range(Tail(steps))
  BY Rest
<1> Range(more \o Tail(steps)) = Range(more) \cup Range(Tail(steps))
  BY <1>1, Concatenation
<1> QED BY <1>1 DEF AnsweredWith

LEMMA InViewStep ==
    ASSUME WorkerInv, VmsInv, [Next]_vars, Resetting, ResetRequest, InView,
           NEW more, IsSeq(more), AnsweredWith(more)
    PROVE  InView'
<1> DEFINE s == Head(steps)
<1> DEFINE S == {w \in Workers : mds[w] # NoMD}
<1>1. Range(steps') = Range(more) \cup Range(Tail(steps)) /\ Range(steps) = {s} \cup Range(Tail(steps)) /\ steps # <<>>
  BY StillAsked DEF WorkerInv, QueueInv, ResetRequest
<1>2. /\ request("list", "mds").op = "list" /\ request("list", "mds").name = "mds"
      /\ \A w : request("deleteMD", w).op = "deleteMD" /\ request("deleteMD", w).name = w
  BY SMT DEF request
<1> ASSUME NEW w \in Workers, s = request("deleteMD", w) PROVE mds'[w] = NoMD
  <2>1. s.op = "deleteMD" /\ s.name = w
    BY <1>2
  <2>2. DeleteMD(s)
    BY <2>1 DEF ResetRequest, Block, Until, Teardown, ListServices, DeleteService, ListVolumes, DeletePods, DeleteClaim,
       LookForCRDs, Annotate, ListWorkersToDestroy, DeleteMachineSet, DeleteMachine
  <2> mds[w] = NoMD \/ mds' = [mds EXCEPT ![w] = NoMD]
    BY <2>1, <2>2 DEF DeleteMD
  <2> QED BY NoneCreated DEF WorkerInv, ReadInv
<1> ASSUME s = request("list", "mds") PROVE UNCHANGED mds /\ \A w \in S : request("deleteMD", w) \in Range(steps')
  <2>1. s.op = "list" /\ s.name = "mds"
    BY <1>2
  <2>2. ListWorkersToDestroy(s)
    BY <2>1 DEF ResetRequest, Block, Until, Teardown, ListServices, DeleteService, ListVolumes, DeletePods, DeleteClaim,
       LookForCRDs, Annotate, DeleteMD, DeleteMachineSet, DeleteMachine
  <2> DEFINE q == requests("deleteMD", S)
  <2>3. AnsweredWith(q) /\ UNCHANGED mds
    BY <2>1, <2>2 DEF ListWorkersToDestroy, workers
  <2>4. IsSeq(q) /\ Range(q) = Each("deleteMD", S)
    BY ListFine DEF Fine
  <2> Range(steps') = Range(q) \cup Range(Tail(steps))
    BY <1>1, <2>3, <2>4, StillAsked DEF WorkerInv, QueueInv
  <2> QED BY <2>3, <2>4 DEF Each
<1> QED BY <1>1, NoneCreated DEF InView

LEMMA Waited == ASSUME ResetRequest, Head(steps).op = "until" PROVE machines' = machines
BY DEF ResetRequest, Block, Until, Teardown, ListServices, DeleteService, ListVolumes, DeletePods, DeleteClaim, DeleteMD,
       LookForCRDs, Annotate, ListWorkersToDestroy, DeleteMachineSet, DeleteMachine, workers

LEMMA Fourfold ==
    ASSUME NEW a, NEW b, NEW c, NEW d
    PROVE  IsSeq(<<a, b, c, d>>) /\ b \in Range(<<a, b, c, d>>)
<1> DEFINE q == <<a, b, c, d>>
<1>1. 4 \in Nat /\ q = [i \in 1..4 |-> q[i]] /\ 2 \in 1..4 /\ q[2] = b
  BY SMT
<1> HIDE DEF q
<1>2. IsSeq(q) /\ Range(q) = {q[i] : i \in 1..4}
  BY <1>1, IsList
<1> b \in Range(q)
  BY <1>1, <1>2
<1> QED BY <1>2 DEF q

LEMMA Single == (\A x : <<x>>[Len(<<x>>)] = x) /\ request("crds", "").op = "crds"
BY SMT DEF request

\* The lookup of the CRDs finds none, and there are no workers; or it starts
\* their destruction.
LEMMA LookedUp ==
    ASSUME Tended, WorkerInv, ControllerInv, ResetRequest, Resetting, up, flags.workers, NoWorkers => NoWorkers',
           task = "destroyWorkers", steps = <<request("crds", "")>>
    PROVE  Destruction'
<1> DEFINE crds == request("crds", "")
<1> DEFINE a == <<request("annotate", ""), request("list", "mds"), request("list", "machineSets"), request("list", "machines")>>
<1> DEFINE b == <<request("until", "machines")>>
<1>1. Head(steps) = crds /\ Tail(steps) = <<>> /\ crds.op = "crds" /\ steps # <<>>
  BY Single, Triple
<1> USE <1>1
<1>2. LookForCRDs(crds)
  BY DEF ResetRequest, Block, Until, Teardown, ListServices, DeleteService, ListVolumes, DeletePods, DeleteClaim, DeleteMD,
       Annotate, ListWorkersToDestroy, DeleteMachineSet, DeleteMachine
<1>3. m.mc
  BY Equipped DEF WorkerInv, Resetting
<1> CASE ~CRDsReadyCondition
  <2>1. steps' = <<>> \o <<>>
    BY <1>2 DEF LookForCRDs, AnsweredWith
  <2> steps' = <<>>
    BY <2>1, NoneAndOne, Concatenation
  <2> NoWorkers
    BY DEF ControllerInv, CRDsReadyCondition
  <2> QED BY DEF Destruction
<1> CASE CRDsReadyCondition
  <2>1. steps' = (a \o b) \o <<>> /\ task' = task
    BY <1>2, <1>3 DEF LookForCRDs, AnsweredWith, whenever
  <2>2. IsSeq(a) /\ request("list", "mds") \in Range(a)
    BY Fourfold
  <2>3. IsSeq(b) /\ b # <<>> /\ b[Len(b)] = request("until", "machines")
    BY Single, NoneAndOne, Triple
  <2> HIDE DEF a, b
  <2>4. /\ IsSeq(a \o b) /\ Range(a \o b) = Range(a) \cup Range(b) /\ (a \o b)[Len(a \o b)] = request("until", "machines")
        /\ a \o b # <<>>
    BY <2>2, <2>3, Concatenation, NotEmpty
  <2> USE <2>4
  <2>5. steps' = a \o b
    BY <2>1, Joining DEF IsSeq
  <2> USE <2>5
  <2> request("list", "mds") \in Range(steps')
    BY <2>2
  <2> ~Passed("destroyWorkers")'
    BY <2>1 DEF Passed
  <2> QED BY DEF Destruction, InView
<1> QED OBVIOUS

\* A reset that is past its workers has none left, unless it could not ask.
LEMMA DestructionStep ==
    ASSUME Tended, WorkerInv, VmsInv, ControllerInv, [Next]_vars, status' = "running", Resetting', up', flags'.workers,
           status = "running" => Destruction
    PROVE  Destruction'
<1> DEFINE t == "destroyWorkers"
<1> DEFINE crds == request("crds", "")
<1> DEFINE until == request("until", "machines")
<1> DEFINE Working == task = t /\ steps # <<>> /\ steps # <<Again>> =>
                          steps = <<crds>> \/ (steps[Len(steps)] = until /\ InView)
<1> until.op = "until" /\ until.name = "machines"
  BY SMT DEF request
<1>1. IsSeq(steps) /\ IsSeq(todo)
  BY DEF WorkerInv, QueueInv
<1>2. script' = script /\ Resetting /\ up /\ flags.workers
  BY ResetSteps DEF flags
<1> USE <1>2
<1>3. Requests(t) = <<crds>> /\ <<crds>> # <<>> /\ <<crds>>[Len(<<crds>>)] = crds
  BY Single, Triple DEF Requests, ResetRequests, whenever
<1> USE <1>3
<1>4. (\A w \in Workers : mds[w] = NoMD => mds'[w] = NoMD) /\ (NoWorkers => NoWorkers')
  BY NoneCreated
<1> USE <1>4
<1>5. ASSUME Passed(t)' => Passed(t), Working', status = "running", skipped => skipped' PROVE Destruction'
  BY <1>5 DEF Destruction
<1> USE <1>5
<1> ASSUME Start PROVE Destruction'
  <2> todo' = ResetTasks /\ steps' = <<>>
    BY DEF Start, StartCommand, Tasks, Resetting
  <2> QED BY ToDo DEF Destruction, Passed, ResetNames
<1> ASSUME NextTask(Requests(Head(todo))) PROVE Destruction'
  <2> Passed(t)' => Passed(t)
    BY <1>1, LastNext
  <2> QED BY DEF NextTask
<1> ASSUME RetryTask(Requests(task)) PROVE Destruction'
  <2> Passed(t)' => Passed(t)
    BY LastRetry
  <2> QED BY DEF RetryTask
<1>9. ASSUME TaskFails, steps # <<>>, status = "running" PROVE Destruction'
  <2> Passed(t)' => Passed(t)
    BY <1>9, LastFails
  <2> QED BY <1>9 DEF TaskFails, GoOnWith
<1> USE <1>9
<1> ASSUME ResetRequestFails PROVE Destruction'
  <2> status = "running" /\ steps # <<>>
    BY DEF ResetRequestFails
  <2> skipped' /\ steps' = <<>> => Destruction'
    BY DEF Destruction
  <2> QED BY DEF ResetRequestFails
<1> ASSUME UNCHANGED <<process, webhooks>>, status = "running" PROVE Destruction'
  <2>1. UNCHANGED <<todo, task, steps, skipped>> /\ Destruction
    BY DEF process
  <2> InView => InView'
    BY <2>1 DEF InView
  <2> QED BY <2>1 DEF Destruction, Passed
<1> ASSUME ResetRequest PROVE Destruction'
  <2>1. status = "running" /\ steps # <<>> /\ skipped' = skipped
    BY ResetAnswer DEF ResetRequest
  <2> USE <2>1
  <2> ASSUME NEW more, IsSeq(more), AnsweredWith(more), Head(steps).op # "again",
               Head(steps).op = "until" => more = <<>> /\ Gone(Head(steps).name)
        PROVE  Destruction'
    <3>1. UNCHANGED <<todo, task>> /\ steps' = more \o Tail(steps) /\ steps # <<Again>>
      BY NotAgain DEF AnsweredWith
    <3> USE <3>1
    <3> CASE task # t
      <4> (Passed(t)' => Passed(t)) /\ Working'
        BY DEF Passed
      <4> QED OBVIOUS
    <3> CASE task = t /\ steps = <<crds>>
      BY LookedUp
    <3> CASE task = t /\ steps[Len(steps)] = until /\ InView
      <4> EndsWith(t, until)
        BY DEF EndsWith
      <4>2. EndsWith(t, until)' /\ (Passed(t)' => Passed(t) \/ Head(steps) = until)
        BY <1>1, LastAnswer
      <4>3. InView'
        BY InViewStep
      <4> Passed(t)' => skipped' \/ NoWorkers'
        <5> ASSUME Passed(t)', Head(steps) = until PROVE NoWorkers'
          <6> WaitDestroy
            BY DEF Gone
          <6> Range(steps') = {}
            BY NoneAndOne DEF Passed
          <6> machines' = machines
            BY Waited
          <6> QED BY <4>3 DEF InView, NoWorkers, WaitDestroy
        <5> Passed(t) => skipped \/ NoWorkers
          BY DEF Destruction
        <5> QED BY <4>2
      <4> QED BY <4>2, <4>3 DEF Destruction, EndsWith
    <3> QED BY DEF Destruction
  <2> QED BY ResetAnswer
<1> RequestRefused => Destruction'
  BY DEF RequestRefused
<1> QED BY ResetSteps

LEMMA CleanupRequests ==
    ASSUME Resetting
    PROVE  /\ LET q == Requests("removeLBServices")
              IN flags.lbs => /\ q # <<>> /\ Head(q) = request("block", "services")
                              /\ q[Len(q)] = request("until", "services")
           /\ LET q == Requests("removeVolumes")
              IN flags.volumes => /\ q # <<>> /\ Head(q) = request("block", "volumes")
                                  /\ q[Len(q)] = request("until", "volumes")
<1>1. \A q, a, b, c : q = <<a, b, c>> => q # <<>> /\ Head(q) = a /\ q[Len(q)] = c
  BY SMT
<1>2. \A q, a, b, c, d : q = <<a, b, c, d>> => q # <<>> /\ Head(q) = a /\ q[Len(q)] = d
  BY SMT
<1>3. flags.lbs => Requests("removeLBServices")
                     = <<request("block", "services"), request("listServices", ""), request("until", "services")>>
  BY DEF Requests, ResetRequests, whenever
<1>4. flags.volumes => Requests("removeVolumes")
                         = <<request("block", "volumes"), disablePodCreation, request("listVolumes", ""),
                             request("until", "volumes")>>
  BY DEF Requests, ResetRequests, whenever, disablePVCreation
<1>5. flags.lbs => /\ Requests("removeLBServices") # <<>> /\ Head(Requests("removeLBServices")) = request("block", "services")
                   /\ Requests("removeLBServices")[Len(Requests("removeLBServices"))] = request("until", "services")
  BY <1>1, <1>3
<1>6. flags.volumes => /\ Requests("removeVolumes") # <<>> /\ Head(Requests("removeVolumes")) = request("block", "volumes")
                       /\ Requests("removeVolumes")[Len(Requests("removeVolumes"))] = request("until", "volumes")
  BY <1>2, <1>4
<1> QED BY <1>5, <1>6

LEMMA CleanupInvStep ==
    ASSUME WorkerInv, LbsInv, DisksInv, VmsInv, ControllerInv, CleanupInv, [Next]_vars
    PROVE  CleanupInv'
<1> SUFFICES ASSUME status' = "running", Resetting', up'
             PROVE  /\ flags'.lbs => Cleanup("removeLBServices", "services")'
                    /\ flags'.volumes => Cleanup("removeVolumes", "volumes")'
                    /\ flags'.workers /\ Tended => Destruction'
  BY DEF CleanupInv
<1>1. Resetting /\ up /\ flags' = flags
  BY ResetSteps DEF flags
<1> USE <1>1
<1> ASSUME flags.lbs PROVE Cleanup("removeLBServices", "services")'
  <2> "services" \in webhooks /\ Gone("services") => Gone("services")'
    BY LbsStep DEF Gone
  <2> status = "running" => Cleanup("removeLBServices", "services")
    BY DEF CleanupInv
  <2> QED BY CleanupRequests, CleanupStep
<1> ASSUME flags.volumes PROVE Cleanup("removeVolumes", "volumes")'
  <2> "volumes" \in webhooks /\ Gone("volumes") => Gone("volumes")'
    BY DisksStep DEF Gone
  <2> status = "running" => Cleanup("removeVolumes", "volumes")
    BY DEF CleanupInv
  <2> QED BY CleanupRequests, CleanupStep
<1> flags.workers /\ Tended => Destruction'
  BY DestructionStep DEF CleanupInv
<1> QED OBVIOUS

----------------------------------------------------------------------------
(* After the control plane.                                                *)

\* Without a control plane nothing happens in the cloud.
LEMMA Stillness ==
    ASSUME [Next]_vars, ~up \/ (Resetting /\ ResetRequest)
    PROVE  UNCHANGED <<world, lbs, disks, vms>> /\ (skipped => skipped')
<1> ResetRequest => UNCHANGED <<world, lbs, disks, vms, skipped>>
  BY DEF ResetRequest, Block, Until, Teardown, ListServices, DeleteService, ListVolumes, DeletePods, DeleteClaim, DeleteMD,
         LookForCRDs, Annotate, ListWorkersToDestroy, DeleteMachineSet, DeleteMachine, workload, workers, Answered, AnsweredWith,
         TaskFails, GoOnWith
<1> Controller \/ User => up
  BY DEF Controller, EnsureLoadBalancer, FinalizeService, Provision, FinalizeClaim, Reclaim, CreateMachineSet, CollectGarbage,
         CreateMachine, RemoveMachine, CreateVM, FinalizeMachine, User, CreateService, CreateClaim, CreatePod, Scale, RemoveMD,
         Elsewhere
<1> OfApply => UNCHANGED <<lbs, disks, vms>>
  BY CloudApart DEF workload
<1>4. ApplyRequest => world' = world /\ skipped' = skipped
  <2> Answered \/ TaskFails \/ TaskEnds \/ (\E q : AnsweredWith(q)) => skipped' = skipped
    BY DEF Answered, AnsweredWith, TaskFails, TaskEnds, GoOnWith
  <2> ApplyRequest => Answered \/ TaskFails \/ TaskEnds \/ \E q : AnsweredWith(q)
    BY DEF ApplyRequest, InitCluster, Wait, PutSecret, DeleteSecret, WeaveSecret, Migrate, ApplyAddon, DeleteAddon,
           CleanupStale, Release, RunRelease, FinishRelease, LabelRelease, Uninstall, CreateWorker, ListWorkers, GetWorker,
           UpdateWorker
  <2> QED BY DEF ApplyRequest
<1> OfApply => world' = world /\ (skipped' = skipped \/ skipped' = TRUE)
  BY <1>4 DEF OfApply, Start, StartCommand, ResetWithoutClient, Succeed, Kill, NextTask, RetryTask, RequestRefused,
         ApplyRequestFails, ResetRequestFails, InitializeNodes, vars, process, TaskFails, TaskEnds, GoOnWith
<1> skipped' = skipped \/ skipped' = TRUE => (skipped => skipped')
  OBVIOUS
<1> QED BY Steps

\* The nodes are reset only after all cleanups.
LEMMA TornDown ==
    ASSUME Tended, WorkerInv, LbsInv, DisksInv, VmsInv, CleanupInv, [Next]_vars, up, ~up'
    PROVE  Resetting /\ ResetRequest /\ Clean(flags)
<1>1. Resetting /\ ResetRequest /\ Teardown(Head(steps))
  <2> ApplyRequest => up' = up \/ up' = TRUE
    BY DEF ApplyRequest, InitCluster, Wait, PutSecret, DeleteSecret, WeaveSecret, Migrate, ApplyAddon, DeleteAddon,
           CleanupStale, Release, RunRelease, FinishRelease, LabelRelease, Uninstall, CreateWorker, ListWorkers, GetWorker,
           UpdateWorker, node
  <2> OfApply /\ ~ApplyRequest => up' = up
    BY DEF OfApply, Start, StartCommand, ResetWithoutClient, Succeed, Kill, NextTask, RetryTask, RequestRefused,
           ApplyRequestFails, ResetRequestFails, InitializeNodes, vars, node
  <2> ResetRequest => up' = up \/ Teardown(Head(steps))
    BY DEF ResetRequest, Block, Until, ListServices, DeleteService, ListVolumes, DeletePods, DeleteClaim, DeleteMD,
           LookForCRDs, Annotate, ListWorkersToDestroy, DeleteMachineSet, DeleteMachine, node
  <2> Controller \/ User => up' = up
    BY Bystanders
  <2> QED BY Steps
<1> USE <1>1
<1>2. status = "running" /\ steps # <<>> /\ task = "resetAllNodes"
  BY AtHand DEF ResetRequest, Teardown, WorkerInv, Legal
<1> USE <1>2
<1>3. todo = <<>>
  BY DEF WorkerInv, QueueInv, LastTasks
<1>4. Passed("removeLBServices") /\ Passed("removeVolumes") /\ Passed("destroyWorkers")
  BY <1>3, NoneAndOne DEF Passed
<1> USE <1>4
<1> flags.lbs => lbs = {}
  <2> flags.lbs => WaitCleanupLbs
    BY DEF CleanupInv, Cleanup, Gone
  <2> QED BY DEF LbsInv, WaitCleanupLbs
<1> flags.volumes => disks \subseteq Retained
  <2> flags.volumes => WaitCleanUpVolumes
    BY DEF CleanupInv, Cleanup, Gone
  <2> QED BY DEF DisksInv, WaitCleanUpVolumes, VolumesLeft, UnretainedVolumes
<1> flags.workers => skipped \/ vms = {}
  <2> flags.workers => skipped \/ NoWorkers
    BY DEF CleanupInv, Destruction
  <2> QED BY DEF VmsInv, NoWorkers
<1> QED BY DEF Clean

LEMMA DownStep ==
    ASSUME WorkerInv, LbsInv, DisksInv, VmsInv, CleanupInv, DownInv, [Next]_vars
    PROVE  DownInv'
<1> SUFFICES ASSUME Tended, OneCleanup, ~up', NEW c \in Range(world'.script), c.cmd = "reset" PROVE Clean(c.flags)'
  BY DEF DownInv
<1>1. ASSUME UNCHANGED <<lbs, disks, vms>>, skipped => skipped', Clean(c.flags) PROVE Clean(c.flags)'
  BY <1>1 DEF Clean
<1> CASE ~up
  BY <1>1, Stillness DEF DownInv
<1> CASE up
  <2>1. Resetting /\ ResetRequest /\ Clean(flags)
    BY TornDown
  <2> USE <2>1
  <2>2. c \in Range(world.script)
    BY Stillness
  <2>3. PICK d \in Range(world.script) : d.cmd = "reset" /\ d = Head(script)
    BY Command DEF WorkerInv, Resetting
  <2>4. flags.lbs = c.flags.lbs /\ flags.volumes = c.flags.volumes /\ flags.workers = c.flags.workers
    BY <2>2, <2>3 DEF OneCleanup, flags, WorkerInv, ScriptInv
  <2> Clean(c.flags)
    BY <2>4 DEF Clean
  <2> QED BY <1>1, Stillness
<1> QED OBVIOUS

TeardownInv == WorkerInv /\ LbsInv /\ DisksInv /\ VmsInv /\ ControllerInv /\ CleanupInv /\ DownInv

LEMMA TeardownInit == ASSUME Init PROVE TeardownInv
<1>1. status # "running" /\ lbs = {} /\ disks = {} /\ vms = {} /\ world \in Worlds /\ mds = world.mds /\ live = world.live
  BY DEF Init
<1> USE <1>1
<1> LbsInv
  BY DEF Init, LbsInv
<1> DisksInv
  BY DEF Init, DisksInv
<1> VmsInv
  BY DEF Init, VmsInv
<1> ControllerInv
  <2>1. \A x \in DOMAIN machines : machines[x] = "none"
    BY DEF Init
  <2> Tended /\ ObjectsOf("machinecontroller") = {} => NoWorkers
    BY <2>1, Present DEF Tended, NoWorkers
  <2> QED BY DEF ControllerInv
<1> CleanupInv
  BY DEF CleanupInv
<1> DownInv
  BY DEF DownInv, Clean
<1> QED BY InitFine DEF TeardownInv

\* Once a reset has taken the control plane down, no load balancer, no disk but
\* the retained ones and no worker VM is left in the cloud, whatever users and
\* controllers did meanwhile, which requests failed and how often the process
\* was killed; unless the lookup of the CRDs failed (RemoveLBServices,
\* RemoveVolumes, destroyWorkers).
THEOREM NothingLeftBehind ==
    ASSUME Tended, OneCleanup
    PROVE  Spec => []TeardownClean
<1> Init => TeardownInv
  BY TeardownInit
<1> TeardownInv /\ [Next]_vars => TeardownInv'
  BY WorkersStep, LbsStep, DisksStep, VmsStep, ControllerStep, CleanupInvStep, DownStep DEF TeardownInv
<1> TeardownInv => TeardownClean
  <2> SUFFICES ASSUME TeardownInv, NEW i \in DOMAIN world.script, world.script[i].cmd = "reset", ~up
               PROVE  Clean(world.script[i].flags)
    BY DEF TeardownClean, Clean
  <2> world.script[i] \in Range(world.script)
    BY DEF Range
  <2> QED BY DEF TeardownInv, DownInv
<1> QED BY PTL DEF Spec

============================================================================
