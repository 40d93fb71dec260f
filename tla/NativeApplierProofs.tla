------------------------ MODULE NativeApplierProofs ------------------------
(***************************************************************************)
(* Proofs about NativeApplier for every set of addons, objects, kinds and  *)
(* manifests.                                                              *)
(***************************************************************************)
EXTENDS NativeApplier, TLAPS

(***************************************************************************)
(* Type correctness.                                                       *)
(***************************************************************************)

LEMMA RemoveType ==
    ASSUME TypeOK, NEW r \in Refs, Remove(r) \/ deleteObject(r)
    PROVE  /\ label' \in [Refs -> Addons \cup {None}]
           /\ manager' \in [Refs -> {"kubectl", "both", "kubeone"}]
           /\ stale' \subseteq Refs /\ established' \subseteq Refs
           /\ terminating' \subseteq Refs
           /\ inventory' \in [Addons -> SUBSET Kinds]
BY Zenon DEF TypeOK, Remove, deleteObject, Gone

LEMMA ServerSideApplyType ==
    ASSUME TypeOK, NEW r \in Refs, ServerSideApply(r), addon \in Addons
    PROVE  /\ label' \in [Refs -> Addons \cup {None}]
           /\ manager' \in [Refs -> {"kubectl", "both", "kubeone"}]
           /\ stale' \subseteq Refs /\ established' \subseteq Refs
           /\ terminating' \subseteq Refs
           /\ inventory' \in [Addons -> SUBSET Kinds]
BY Zenon DEF TypeOK, ServerSideApply

LEMMA ReturnType ==
    ASSUME TypeOK, NEW o \in {"applied", "deleted", "error"}, Return(o),
           o = "error" \/ phase # "idle"
    PROVE  /\ phase' \in Phases /\ addon' \in Addons \cup {None} /\ phase' = "idle"
           /\ outcome' \in {"applied", "deleted"} => addon' \in Addons
           /\ objs' \subseteq Refs /\ previous' \subseteq Kinds
           /\ step' \in [Refs -> Steps] /\ pruneKinds' \subseteq Kinds
           /\ outcome' \in {"none", "applied", "deleted", "error"}
BY Zenon DEF TypeOK, Return, Phases, Steps

LEMMA AdvanceType ==
    ASSUME TypeOK, NEW r \in Refs, NEW s \in Steps, Advance(r, s)
    PROVE  /\ phase' \in Phases /\ addon' \in Addons \cup {None}
           /\ phase' # "idle" \/ outcome' \in {"applied", "deleted"} => addon' \in Addons
           /\ objs' \subseteq Refs /\ previous' \subseteq Kinds
           /\ step' \in [Refs -> Steps] /\ pruneKinds' \subseteq Kinds
           /\ outcome' \in {"none", "applied", "deleted", "error"}
BY Zenon DEF TypeOK, Advance

LEMMA GroupKindsType ==
    ASSUME NEW S \in SUBSET Refs
    PROVE  groupKinds(S) \in SUBSET Kinds
BY RefsAssumption DEF groupKinds

LEMMA TypeStep == TypeOK /\ [Next]_vars => TypeOK'
<1> SUFFICES ASSUME TypeOK, [Next]_vars PROVE TypeOK'
  BY Zenon
<1>1. ASSUME NEW a \in Addons, NEW S \in Manifests, BeginApply(a, S) PROVE TypeOK'
  <2>1. S \in SUBSET Refs /\ groupKinds(S) \in SUBSET Kinds
    BY InputAssumption, GroupKindsType, Zenon
  <2>2. preparedKinds(a, S) \in SUBSET Kinds
    BY <2>1, <1>1, Zenon DEF preparedKinds, TypeOK
  <2>3. /\ label' \in [Refs -> Addons \cup {None}]
        /\ manager' \in [Refs -> {"kubectl", "both", "kubeone"}]
        /\ stale' \subseteq Refs /\ established' \subseteq Refs
        /\ terminating' \subseteq Refs
        /\ inventory' \in [Addons -> SUBSET Kinds]
    BY <1>1, <2>1, <2>2, Zenon DEF BeginApply, writeInventory, TypeOK
  <2>4. CASE Return("error")
    BY <2>3, <2>4, ReturnType, Zenon DEF TypeOK
  <2>5. CASE ~Return("error")
    BY <1>1, <2>1, <2>3, <2>5, Zenon DEF BeginApply, TypeOK, Phases, Steps
  <2> QED BY <2>4, <2>5, Zenon
<1>2. ASSUME NEW r \in Refs, ApplyFirst(r) PROVE TypeOK'
  <2>1. addon \in Addons
    BY <1>2, Zenon DEF ApplyFirst, PhaseObjs, TypeOK, Phases
  <2>2. \E s \in Steps : Advance(r, s)
    BY <1>2, Zenon DEF ApplyFirst, Steps
  <2>3. ServerSideApply(r) \/ UNCHANGED cluster
    BY <1>2, Zenon DEF ApplyFirst
  <2> QED BY <2>1, <2>2, <2>3, AdvanceType, ServerSideApplyType, Zenon DEF TypeOK, cluster
<1>3. ASSUME NEW r \in Refs, MigrateClientSideApply(r) PROVE TypeOK'
  <2>1. \E s \in Steps : Advance(r, s)
    BY <1>3, Zenon DEF MigrateClientSideApply, Steps
  <2>2. /\ manager' \in [Refs -> {"kubectl", "both", "kubeone"}]
        /\ UNCHANGED <<label, stale, established, terminating, inventory>>
    BY <1>3, Zenon DEF MigrateClientSideApply, TypeOK, cluster
  <2> QED BY <2>1, <2>2, AdvanceType, Zenon DEF TypeOK
<1>4. ASSUME NEW r \in Refs, ApplyAgain(r) PROVE TypeOK'
  <2>1. addon \in Addons
    BY <1>4, Zenon DEF ApplyAgain, PhaseObjs, TypeOK, Phases
  <2>2. \E s \in Steps : Advance(r, s)
    BY <1>4, Zenon DEF ApplyAgain, Steps
  <2>3. ServerSideApply(r) \/ UNCHANGED cluster
    BY <1>4, Zenon DEF ApplyAgain
  <2> QED BY <2>1, <2>2, <2>3, AdvanceType, ServerSideApplyType, Zenon DEF TypeOK, cluster
<1>5. ASSUME NEW r \in Refs, Prune(r) PROVE TypeOK'
  <2>1. CASE UNCHANGED call
    <3>1. deleteObject(r) \/ UNCHANGED cluster
      BY <1>5, Zenon DEF Prune
    <3> QED BY <2>1, <3>1, RemoveType, Zenon DEF TypeOK, call, cluster
  <2>2. CASE Return("error")
    <3>1. deleteObject(r) \/ UNCHANGED cluster
      BY <1>5, Zenon DEF Prune
    <3> QED BY <2>2, <3>1, RemoveType, ReturnType, Zenon DEF TypeOK, cluster
  <2> QED BY <1>5, <2>1, <2>2, Zenon DEF Prune
<1>6. CASE EndPhase
  <2>1. UNCHANGED cluster
    BY <1>6, Zenon DEF EndPhase
  <2>2. CASE Return("error")
    BY <2>1, <2>2, ReturnType, Zenon DEF TypeOK, cluster
  <2>3. CASE ~Return("error")
    <3>1. phase' \in Phases /\ UNCHANGED <<addon, objs, previous, step, outcome>> /\ phase # "idle"
      BY <1>6, <2>3, Zenon DEF EndPhase, Phases
    <3>2. \A F : pruneGVKs(F) \subseteq Kinds
      BY GroupKindsType, PruneAssumption, Zenon DEF pruneGVKs, TypeOK
    <3>3. pruneKinds' \subseteq Kinds
      BY <1>6, <2>3, <3>2 DEF EndPhase, TypeOK
    <3> QED BY <2>1, <3>1, <3>3, Zenon DEF TypeOK, cluster
  <2> QED BY <2>2, <2>3, Zenon
<1>7. CASE WaitForCRDs
  <2>1. UNCHANGED cluster
    BY <1>7, Zenon DEF WaitForCRDs
  <2>2. CASE Return("error")
    BY <2>1, <2>2, ReturnType, Zenon DEF TypeOK, cluster
  <2> QED BY <1>7, <2>1, <2>2, Zenon DEF WaitForCRDs, TypeOK, cluster, Phases
<1>8. CASE EndPrune
  <2>1. UNCHANGED cluster
    BY <1>8, Zenon DEF EndPrune
  <2>2. CASE Return("error")
    BY <2>1, <2>2, ReturnType, Zenon DEF TypeOK, cluster
  <2> QED BY <1>8, <2>1, <2>2, Zenon DEF EndPrune, TypeOK, cluster, Phases
<1>9. CASE FinalizeInventory
  <2>1. phase # "idle" /\ \E o \in {"applied", "error"} : Return(o)
    BY <1>9, Zenon DEF FinalizeInventory
  <2>2. addon \in Addons /\ groupKinds(objs) \in SUBSET Kinds
    BY <1>9, GroupKindsType, Zenon DEF FinalizeInventory, TypeOK
  <2>3. /\ inventory' \in [Addons -> SUBSET Kinds]
        /\ UNCHANGED <<label, manager, stale, established, terminating>>
    BY <1>9, <2>2, Zenon DEF FinalizeInventory, writeInventory, TypeOK, cluster
  <2> QED BY <2>1, <2>3, ReturnType, Zenon DEF TypeOK
<1>10. ASSUME NEW a \in Addons, NEW S \in Manifests, BeginDelete(a, S) PROVE TypeOK'
  BY <1>10, InputAssumption, Zenon DEF BeginDelete, TypeOK, cluster, Phases, Steps
<1>11. ASSUME NEW r \in Refs, DeleteOne(r) PROVE TypeOK'
  <2>1. deleteObject(r) \/ UNCHANGED cluster
    BY <1>11, Zenon DEF DeleteOne
  <2>2. Advance(r, "done") \/ Return("error")
    BY <1>11, Zenon DEF DeleteOne
  <2>3. "done" \in Steps
    BY Zenon DEF Steps
  <2>4. CASE Advance(r, "done")
    BY <2>1, <2>3, <2>4, RemoveType, AdvanceType, Zenon DEF TypeOK, cluster
  <2>5. CASE Return("error")
    BY <2>1, <2>5, RemoveType, ReturnType, Zenon DEF TypeOK, cluster
  <2> QED BY <2>2, <2>4, <2>5, Zenon
<1>12. CASE EndDelete
  BY <1>12, Zenon DEF EndDelete, TypeOK, cluster, Phases
<1>13. CASE DeleteInventory
  <2>1. phase # "idle" /\ \E o \in {"deleted", "error"} : Return(o)
    BY <1>13, Zenon DEF DeleteInventory
  <2>2. addon \in Addons
    BY <1>13, Zenon DEF DeleteInventory, TypeOK
  <2>3. /\ inventory' \in [Addons -> SUBSET Kinds]
        /\ UNCHANGED <<label, manager, stale, established, terminating>>
    BY <1>13, <2>2, Zenon DEF DeleteInventory, writeInventory, TypeOK, cluster
  <2> QED BY <2>1, <2>3, ReturnType, Zenon DEF TypeOK
<1>14. CASE Crash
  BY <1>14, ReturnType, Zenon DEF Crash, TypeOK, cluster
<1>15. ASSUME NEW r \in Refs, Establish(r) PROVE TypeOK'
  BY <1>15, Zenon DEF Establish, TypeOK, call
<1>16. ASSUME NEW r \in Refs, Finalized(r) PROVE TypeOK'
  BY <1>16, RemoveType, Zenon DEF Finalized, TypeOK, call
<1>17. CASE UNCHANGED vars
  BY <1>17, Zenon DEF vars, TypeOK
<1> QED
  BY <1>1, <1>2, <1>3, <1>4, <1>5, <1>6, <1>7, <1>8, <1>9, <1>10, <1>11, <1>12, <1>13,
     <1>14, <1>15, <1>16, <1>17, Zenon DEF Next, ApplyStep, DeleteStep, Environment

LEMMA TypeInit == Init => TypeOK
BY RefsAssumption, InputAssumption DEF Init, TypeOK, Phases, Steps, CRDs

\* The type invariant holds whatever the applier and the cluster do.
THEOREM TypeCorrect == Spec => []TypeOK
BY TypeInit, TypeStep, PTL DEF Spec

(***************************************************************************)
(* The inventory.                                                          *)
(***************************************************************************)

\* A step of the cluster in which objects only disappear or start to.
Shrinks ==
    /\ manager' = manager /\ inventory' = inventory
    /\ \A q \in Refs : label'[q] # None => label'[q] = label[q]
    /\ \A q \in Refs : label'[q] # None /\ q \notin terminating' => q \notin terminating
    /\ Closed'

LEMMA ParentsOf ==
    ASSUME NEW r \in Refs
    PROVE  /\ Parents(r) \subseteq Refs
           /\ \A p \in Parents(r) : KindOf[p] \in {CRDKind, NamespaceKind} /\ Parents(p) = {}
BY RefsAssumption DEF Parents

LEMMA RemoveShrinks ==
    ASSUME InventoryInv, NEW r \in Refs, Remove(r) \/ deleteObject(r)
    PROVE  Shrinks
<1>1. CASE Remove(r)
  <2>1. Closed'
    BY <1>1, ParentsOf, Zenon DEF InventoryInv, Closed, Remove, Gone, Live
  <2> QED BY <1>1, <2>1, Zenon DEF Remove, Shrinks, Gone
<1>2. CASE deleteObject(r) /\ ~Remove(r)
  BY <1>2, Zenon DEF deleteObject, Shrinks, InventoryInv, Closed, Live
<1> QED BY <1>1, <1>2, Zenon

LEMMA StillShrinks ==
    ASSUME InventoryInv, UNCHANGED cluster
    PROVE  Shrinks
BY Zenon DEF InventoryInv, Closed, Live, cluster, Shrinks

LEMMA ShrinksCovers ==
    ASSUME InventoryInv, Shrinks, TypeOK'
    PROVE  InventoryCovers' /\ Closed'
BY Zenon DEF InventoryInv, InventoryCovers, Shrinks, TypeOK, Live

LEMMA ShrinksReturn ==
    ASSUME InventoryInv, Shrinks, TypeOK', TakenOver', Return("error")
    PROVE  InventoryInv'
<1>1. phase' = "idle" /\ outcome' = "error"
  BY Zenon DEF Return
<1> QED
  BY <1>1, ShrinksCovers, Zenon DEF InventoryInv, Running, Prepared, PruneComplete, FinalizeReady,
     DeleteReady, ApplyPhases

LEMMA ShrinksOnly ==
    ASSUME InventoryInv, Shrinks, TypeOK', TakenOver', UNCHANGED call
    PROVE  InventoryInv'
<1>1. InventoryCovers' /\ Closed'
  BY ShrinksCovers, Zenon
<1>2. Running' /\ Prepared'
  BY Zenon DEF InventoryInv, Running, Prepared, Shrinks, call, groupKinds
<1>3. PruneComplete'
  BY Zenon DEF InventoryInv, PruneComplete, Shrinks, call, groupKinds, Live
<1>4. FinalizeReady'
  <2> SUFFICES ASSUME phase = "finalizeInventory"
               PROVE  FinalizeReady'
    BY Zenon DEF FinalizeReady, call
  <2>1. addon # None
    BY RefsAssumption DEF InventoryInv, TypeOK
  <2> QED BY <2>1, Zenon DEF InventoryInv, FinalizeReady, Shrinks, call, groupKinds
<1>5. DeleteReady'
  <2> SUFFICES ASSUME NEW r \in Refs, label'[r] = addon, r \notin terminating'
               PROVE  /\ phase = "delete" => r \in objs /\ step[r] = "pending"
                      /\ phase # "deleteInventory"
                      /\ outcome # "deleted"
    BY Zenon DEF DeleteReady, call
  <2>1. CASE addon \in Addons
    <3>1. addon # None
      BY <2>1, RefsAssumption, Zenon
    <3> QED BY <3>1, Zenon DEF InventoryInv, DeleteReady, Shrinks
  <2>2. CASE addon \notin Addons
    BY <2>2, Zenon DEF InventoryInv, TypeOK
  <2> QED BY <2>1, <2>2, Zenon
<1> QED BY <1>1, <1>2, <1>3, <1>4, <1>5, Zenon DEF InventoryInv

LEMMA TakenOverStep ==
    ASSUME InventoryInv, [Next]_vars
    PROVE  TakenOver'
<1>0. TypeOK
  BY Zenon DEF InventoryInv
<1>1. \A r \in Refs : manager'[r] = "kubectl" => manager[r] = "kubectl"
  <2>1. CASE \E q \in Refs : ApplyFirst(q) \/ MigrateClientSideApply(q) \/ ApplyAgain(q)
    BY <1>0, <2>1, Zenon DEF TypeOK, ApplyFirst, ServerSideApply, MigrateClientSideApply, ApplyAgain,
        cluster
  <2>2. CASE \E q \in Refs : Prune(q) \/ DeleteOne(q) \/ Establish(q) \/ Finalized(q)
    BY <1>0, <2>2, Zenon DEF TypeOK, Prune, deleteObject, Remove, DeleteOne, Establish, Finalized, cluster
  <2>3. CASE (\E a \in Addons, S \in Manifests : BeginApply(a, S) \/ BeginDelete(a, S))
             \/ EndPhase \/ WaitForCRDs \/ EndPrune \/ FinalizeInventory
             \/ EndDelete \/ DeleteInventory \/ Crash \/ UNCHANGED vars
    BY <2>3, Zenon DEF BeginApply, writeInventory, BeginDelete, EndPhase, WaitForCRDs, EndPrune,
       FinalizeInventory, EndDelete, DeleteInventory, Crash, vars, cluster
  <2> QED BY <2>1, <2>2, <2>3, Zenon DEF Next, ApplyStep, DeleteStep, Environment
<1>2. ASSUME NEW r \in Refs, step'[r] \in {"applied", "migrated"}
      PROVE  step[r] \in {"applied", "migrated"} \/ manager'[r] # "kubectl"
  <2>1. CASE \E q \in Refs : ApplyFirst(q) \/ MigrateClientSideApply(q) \/ ApplyAgain(q)
    BY <1>0, <1>2, <2>1
    DEF TypeOK, ApplyFirst, ServerSideApply, MigrateClientSideApply, ApplyAgain, Return, Advance, call
  <2>2. CASE \E q \in Refs : Prune(q) \/ DeleteOne(q) \/ Establish(q) \/ Finalized(q)
    BY <1>0, <1>2, <2>2 DEF TypeOK, Prune, DeleteOne, Establish, Finalized, Return, Advance, call
  <2>3. CASE (\E a \in Addons, S \in Manifests : BeginApply(a, S) \/ BeginDelete(a, S))
             \/ EndPhase \/ WaitForCRDs \/ EndPrune \/ FinalizeInventory
             \/ EndDelete \/ DeleteInventory \/ Crash \/ UNCHANGED vars
    BY <1>2, <2>3, Zenon DEF BeginApply, BeginDelete, EndPhase, WaitForCRDs, EndPrune,
       FinalizeInventory, EndDelete, DeleteInventory, Crash, vars, call, Return
  <2> QED BY <2>1, <2>2, <2>3, Zenon DEF Next, ApplyStep, DeleteStep, Environment
<1> QED BY <1>1, <1>2, Zenon DEF TakenOver, InventoryInv

\* A request that creates or updates an object of the manifest.
LEMMA ServerSideApplyCovers ==
    ASSUME InventoryInv, TypeOK', NEW r \in objs, ServerSideApply(r),
           phase \in {"crds", "namespaces", "rest"}
    PROVE  InventoryCovers' /\ Closed'
<1>1. r \in Refs /\ addon \in Addons /\ addon # None
  BY RefsAssumption DEF InventoryInv, TypeOK
<1>2. KindOf[r] \in inventory[addon]
  BY Zenon DEF InventoryInv, Prepared, ApplyPhases, groupKinds
<1>3. InventoryCovers'
  BY <1>1, <1>2, Zenon DEF InventoryInv, InventoryCovers, ServerSideApply, Live, TypeOK
<1>4. Closed'
  <2> SUFFICES ASSUME NEW q \in Refs, label'[q] # None, NEW p \in Parents(q)
               PROVE  label'[p] # None /\ (KindOf[p] = CRDKind => p \in established')
    BY Zenon DEF Closed, Live
  <2>1. p \in Refs
    BY ParentsOf, Zenon
  <2>2. CASE q = r
    <3>1. p = CRDOf[KindOf[r]] \/ p = NamespaceOf[r]
      BY <2>2, Zenon DEF Parents
    <3>2. p # None
      BY Zenon DEF Parents
    <3>3. KindOf[p] = CRDKind => p = CRDOf[KindOf[r]]
      BY <1>1, <3>1, <3>2, RefsAssumption, Zenon
    <3>4. label[p] # None /\ (KindOf[p] = CRDKind => p \in established)
      BY <3>1, <3>2, <3>3, Zenon DEF ServerSideApply, Accepts, Served, Live
    <3> QED BY <1>1, <2>1, <3>4, Zenon DEF ServerSideApply, InventoryInv, TypeOK
  <2>3. CASE q # r
    <3>1. label[q] # None
      BY <1>1, <2>3, Zenon DEF ServerSideApply, InventoryInv, TypeOK
    <3>2. label[p] # None /\ (KindOf[p] = CRDKind => p \in established)
      BY <3>1, Zenon DEF InventoryInv, Closed, Live
    <3> QED BY <1>1, <2>1, <3>2, Zenon DEF ServerSideApply, InventoryInv, TypeOK
  <2> QED BY <2>2, <2>3, Zenon
<1> QED BY <1>3, <1>4, Zenon

LEMMA PhaseObjsIn ==
    ASSUME NEW r \in PhaseObjs
    PROVE  r \in objs /\ phase \in {"crds", "namespaces", "rest"}
BY Zenon DEF PhaseObjs, CRDs, Namespaces, Rest

\* A step of applyOne, whatever the cluster makes of it.
LEMMA ApplyStepInv ==
    ASSUME InventoryInv, TypeOK', TakenOver', NEW r \in PhaseObjs, NEW s \in Steps, Advance(r, s),
           InventoryCovers', Closed', inventory' = inventory
    PROVE  InventoryInv'
<1>1. phase' = phase /\ phase \in {"crds", "namespaces", "rest"} /\ outcome' = "none"
  BY PhaseObjsIn, Zenon DEF Advance, InventoryInv, Running
<1> QED
  BY <1>1, Zenon DEF InventoryInv, Running, Prepared, PruneComplete, FinalizeReady, DeleteReady,
     ApplyPhases, Advance, groupKinds

LEMMA InventoryStep ==
    ASSUME KeepManifest, ~FlakyDiscovery, InventoryInv, [Next]_vars
    PROVE  InventoryInv'
<1>0. TypeOK' /\ TakenOver'
  BY TypeStep, TakenOverStep, Zenon DEF InventoryInv
<1>1. ASSUME NEW a \in Addons, NEW S \in Manifests, BeginApply(a, S) PROVE InventoryInv'
  <2>1. UNCHANGED <<label, manager, established, terminating>>
    BY <1>1, Zenon DEF BeginApply, writeInventory
  <2>2. /\ inventory[a] \subseteq inventory'[a]
        /\ \A b \in Addons : b # a => inventory'[b] = inventory[b]
    BY <1>1, Zenon DEF BeginApply, writeInventory, preparedKinds, InventoryInv, TypeOK
  <2>3. InventoryCovers' /\ Closed'
    BY <2>1, <2>2, Zenon DEF InventoryInv, InventoryCovers, Closed, Live, TypeOK
  <2>4. CASE Return("error")
    BY <1>0, <2>3, <2>4, Zenon DEF Return, InventoryInv, Running, Prepared, PruneComplete,
       FinalizeReady, DeleteReady, ApplyPhases
  <2>5. CASE ~Return("error")
    <3>1. /\ phase' = "crds" /\ outcome' = "none" /\ addon' = a /\ objs' = S
          /\ previous' = inventory[a]
          /\ inventory' = [inventory EXCEPT ![a] = inventory[a] \cup groupKinds(S)]
      BY <1>1, <2>5, Zenon DEF BeginApply, writeInventory, preparedKinds
    <3>2. Prepared'
      BY <3>1, Zenon DEF Prepared, InventoryInv, TypeOK, groupKinds
    <3> QED BY <1>0, <2>3, <3>1, <3>2, Zenon DEF InventoryInv, Running, PruneComplete,
            FinalizeReady, DeleteReady
  <2> QED BY <2>4, <2>5, Zenon
<1>2. ASSUME NEW r \in Refs, ApplyFirst(r) \/ ApplyAgain(r) PROVE InventoryInv'
  <2>1. r \in PhaseObjs /\ \E s \in Steps : Advance(r, s)
    BY <1>2, Zenon DEF ApplyFirst, ApplyAgain, Steps
  <2>2. CASE ServerSideApply(r)
    BY <1>0, <2>1, <2>2, PhaseObjsIn, ServerSideApplyCovers, ApplyStepInv, Zenon DEF ServerSideApply
  <2>3. CASE UNCHANGED cluster
    BY <1>0, <2>1, <2>3, StillShrinks, ShrinksCovers, ApplyStepInv, Zenon DEF cluster
  <2> QED BY <1>2, <2>2, <2>3, Zenon DEF ApplyFirst, ApplyAgain
<1>3. ASSUME NEW r \in Refs, MigrateClientSideApply(r) PROVE InventoryInv'
  <2>1. r \in PhaseObjs /\ \E s \in Steps : Advance(r, s)
    BY <1>3, Zenon DEF MigrateClientSideApply, Steps
  <2>2. step[r] = "applied" /\ UNCHANGED <<label, established, terminating, inventory>>
    BY <1>3, Zenon DEF MigrateClientSideApply, cluster
  <2>3. \A q \in Refs : manager'[q] = manager[q] \/ q = r
    BY <1>3, Zenon DEF MigrateClientSideApply, cluster, InventoryInv, TypeOK
  <2>4. Closed'
    BY <2>2, Zenon DEF InventoryInv, Closed, Live
  <2>5. InventoryCovers'
    BY <2>2, <2>3, Zenon DEF InventoryInv, InventoryCovers, TakenOver, Live
  <2> QED BY <1>0, <2>1, <2>2, <2>4, <2>5, ApplyStepInv, Zenon
<1>4. ASSUME NEW r \in Refs, Prune(r) PROVE InventoryInv'
  <2>1. Shrinks
    BY <1>4, RemoveShrinks, StillShrinks, Zenon DEF Prune
  <2> QED BY <1>0, <1>4, <2>1, ShrinksOnly, ShrinksReturn, Zenon DEF Prune
<1>5. CASE EndPhase
  <2>1. Shrinks /\ UNCHANGED cluster
    BY <1>5, StillShrinks, Zenon DEF EndPhase
  <2>2. CASE Return("error")
    BY <1>0, <2>1, <2>2, ShrinksReturn, Zenon
  <2>3. CASE ~Return("error")
    <3>1. /\ phase' \in {"waitForCRDs", "rest", "prune"} /\ phase \in {"crds", "namespaces", "rest"}
          /\ UNCHANGED <<addon, objs, previous, step, outcome>>
          /\ phase' = "prune" => pruneKinds' = pruneGVKs({})
      BY <1>5, <2>3, Zenon DEF EndPhase
    <3>2. InventoryCovers' /\ Closed'
      BY <1>0, <2>1, ShrinksCovers, Zenon
    <3>3. PruneComplete'
      <4> SUFFICES ASSUME phase' = "prune", NEW r \in Refs, label[r] # None,
                          KindOf[r] # CRDKind, KindOf[r] \in previous \cup groupKinds(objs)
                   PROVE  KindOf[r] \in pruneGVKs({})
        BY <2>1, <3>1, Zenon DEF PruneComplete, Live, cluster, groupKinds
      <4>1. CRDOf[KindOf[r]] # None => CRDOf[KindOf[r]] \in Parents(r)
        BY Zenon DEF Parents
      <4>2. Served(KindOf[r])
        BY <4>1, RefsAssumption, Zenon DEF Served, InventoryInv, Closed, Live
      <4> QED BY <4>2, Zenon DEF pruneGVKs
    <3> QED
      BY <1>0, <2>1, <3>1, <3>2, <3>3, Zenon DEF InventoryInv, Running, Prepared, FinalizeReady,
         DeleteReady, ApplyPhases, cluster, groupKinds
  <2> QED BY <2>2, <2>3, Zenon
<1>6. CASE WaitForCRDs
  <2>1. Shrinks /\ UNCHANGED cluster
    BY <1>6, StillShrinks, Zenon DEF WaitForCRDs
  <2>2. CASE Return("error")
    BY <1>0, <2>1, <2>2, ShrinksReturn, Zenon
  <2>3. CASE ~Return("error")
    <3>1. InventoryCovers' /\ Closed'
      BY <1>0, <2>1, ShrinksCovers, Zenon
    <3> QED
      BY <1>0, <1>6, <2>1, <2>3, <3>1, Zenon DEF WaitForCRDs, InventoryInv, Running, Prepared,
         PruneComplete, FinalizeReady, DeleteReady, ApplyPhases, cluster, groupKinds
  <2> QED BY <2>2, <2>3, Zenon
<1>7. CASE EndPrune
  <2>1. Shrinks /\ UNCHANGED cluster
    BY <1>7, StillShrinks, Zenon DEF EndPrune
  <2>2. CASE Return("error")
    BY <1>0, <2>1, <2>2, ShrinksReturn, Zenon
  <2>3. CASE ~Return("error")
    <3>1. /\ Stale = {} /\ phase = "prune" /\ phase' = "finalizeInventory"
          /\ UNCHANGED <<addon, objs, previous, step, pruneKinds, outcome>>
      BY <1>7, <2>3, Zenon DEF EndPrune
    <3>2. InventoryCovers' /\ Closed'
      BY <1>0, <2>1, ShrinksCovers, Zenon
    <3>3. FinalizeReady'
      <4> SUFFICES ASSUME NEW r \in Refs, label[r] = addon, r \notin terminating,
                          manager[r] # "kubectl", KindOf[r] # CRDKind
                   PROVE  KindOf[r] \in DefaultPruneTypes \cup groupKinds(objs)
        BY <2>1, <3>1, Zenon DEF FinalizeReady, cluster, groupKinds
      <4>1. addon \in Addons /\ label[r] # None
        BY <3>1, RefsAssumption, Zenon DEF InventoryInv, TypeOK
      <4>2. KindOf[r] \in DefaultPruneTypes \cup previous \cup groupKinds(objs)
        BY <3>1, <4>1, Zenon DEF InventoryInv, InventoryCovers, Prepared, ApplyPhases, Live
      <4>3. CASE KindOf[r] \in previous
        <5>1. KindOf[r] \in pruneKinds
          BY <3>1, <4>1, <4>3, Zenon DEF InventoryInv, PruneComplete, Live
        <5>2. r \in objs \/ r \in Protected
          BY <3>1, <5>1, Zenon DEF Stale
        <5> QED BY <5>2, PruneAssumption, Zenon DEF groupKinds
      <4> QED BY <4>2, <4>3, Zenon
    <3> QED
      BY <1>0, <2>1, <3>1, <3>2, <3>3, Zenon DEF InventoryInv, Running, Prepared, PruneComplete,
         DeleteReady, ApplyPhases, cluster, groupKinds
  <2> QED BY <2>2, <2>3, Zenon
<1>8. CASE FinalizeInventory
  <2>1. CASE UNCHANGED cluster /\ Return("error")
    BY <1>0, <2>1, StillShrinks, ShrinksReturn, Zenon
  <2>2. CASE writeInventory(addon, groupKinds(objs))
    <3>1. /\ phase = "finalizeInventory" /\ phase' = "idle" /\ outcome' \in {"applied", "error"}
          /\ UNCHANGED <<label, manager, established, terminating>>
      BY <1>8, <2>2, Zenon DEF FinalizeInventory, Return, writeInventory
    <3>2. addon \in Addons
      BY <3>1, Zenon DEF InventoryInv, TypeOK
    <3>3. /\ inventory'[addon] = groupKinds(objs)
          /\ \A b \in Addons : b # addon => inventory'[b] = inventory[b]
      BY <2>2, <3>2, Zenon DEF writeInventory, InventoryInv, TypeOK
    <3>4. InventoryCovers'
      BY <3>1, <3>3, Zenon DEF InventoryInv, InventoryCovers, FinalizeReady, Live, TypeOK
    <3>5. Closed'
      BY <3>1, Zenon DEF InventoryInv, Closed, Live
    <3> QED
      BY <1>0, <3>1, <3>4, <3>5, Zenon DEF InventoryInv, Running, Prepared, PruneComplete,
         FinalizeReady, DeleteReady, ApplyPhases
  <2> QED BY <1>8, <2>1, <2>2, Zenon DEF FinalizeInventory
<1>9. ASSUME NEW a \in Addons, NEW S \in Manifests, BeginDelete(a, S) PROVE InventoryInv'
  <2>1. /\ UNCHANGED cluster /\ phase' = "delete" /\ outcome' = "none"
        /\ addon' = a /\ objs' = S
        /\ step' = [r \in Refs |-> IF r \in S THEN "pending" ELSE "none"]
        /\ \A r \in Refs : label[r] = a => r \in S
    BY <1>9, Zenon DEF BeginDelete
  <2>2. InventoryCovers' /\ Closed'
    BY <1>0, <2>1, StillShrinks, ShrinksCovers, Zenon
  <2>3. DeleteReady'
    BY <2>1, Zenon DEF DeleteReady, cluster
  <2> QED
    BY <1>0, <2>1, <2>2, <2>3, Zenon DEF InventoryInv, Running, Prepared, PruneComplete,
       FinalizeReady, ApplyPhases
<1>10. ASSUME NEW r \in Refs, DeleteOne(r) PROVE InventoryInv'
  <2>1. Shrinks /\ phase = "delete"
    BY <1>10, RemoveShrinks, StillShrinks, Zenon DEF DeleteOne
  <2>2. CASE Return("error")
    BY <1>0, <2>1, <2>2, ShrinksReturn, Zenon
  <2>3. CASE Advance(r, "done")
    <3>1. /\ UNCHANGED <<phase, addon, objs, previous, pruneKinds, outcome>>
          /\ \A q \in Refs : q # r => step'[q] = step[q]
      BY <2>3, Zenon DEF Advance, InventoryInv, TypeOK
    <3>2. addon \in Addons /\ addon # None /\ outcome = "none"
      BY <2>1, RefsAssumption, Zenon DEF InventoryInv, TypeOK, Running
    <3>3. InventoryCovers' /\ Closed'
      BY <1>0, <2>1, ShrinksCovers, Zenon
    <3>4. label'[r] = addon => r \in terminating'
      <4>1. CASE deleteObject(r)
        BY <3>2, <4>1, Zenon DEF deleteObject, Remove, Gone
      <4>2. CASE label[r] # addon /\ UNCHANGED cluster
        BY <4>2, Zenon DEF cluster
      <4>3. CASE Return("error")
        BY <2>1, <3>1, <4>3, Zenon DEF Return
      <4> QED BY <1>10, <4>1, <4>2, <4>3, Zenon DEF DeleteOne
    <3>5. DeleteReady'
      <4> SUFFICES ASSUME NEW q \in Refs, label'[q] = addon, q \notin terminating'
                   PROVE  q \in objs /\ step'[q] = "pending"
        BY <2>1, <3>1, <3>2, Zenon DEF DeleteReady
      <4>1. q # r
        BY <3>4, Zenon
      <4> QED BY <2>1, <3>1, <3>2, <4>1, Zenon DEF InventoryInv, DeleteReady, Shrinks
    <3> QED
      BY <1>0, <2>1, <3>1, <3>2, <3>3, <3>5, Zenon DEF InventoryInv, Running, Prepared,
         PruneComplete, FinalizeReady, ApplyPhases
  <2> QED BY <1>10, <2>2, <2>3, Zenon DEF DeleteOne
<1>11. CASE EndDelete
  <2>1. /\ UNCHANGED cluster /\ phase = "delete" /\ phase' = "deleteInventory"
        /\ \A r \in objs : step[r] = "done"
        /\ UNCHANGED <<addon, objs, previous, step, pruneKinds, outcome>>
    BY <1>11, Zenon DEF EndDelete
  <2>2. InventoryCovers' /\ Closed'
    BY <1>0, <2>1, StillShrinks, ShrinksCovers, Zenon
  <2>3. DeleteReady'
    BY <2>1, Zenon DEF InventoryInv, DeleteReady, cluster
  <2> QED
    BY <1>0, <2>1, <2>2, <2>3, Zenon DEF InventoryInv, Running, Prepared, PruneComplete,
       FinalizeReady, ApplyPhases
<1>12. CASE DeleteInventory
  <2>1. CASE UNCHANGED cluster /\ Return("error")
    BY <1>0, <2>1, StillShrinks, ShrinksReturn, Zenon
  <2>2. CASE writeInventory(addon, {})
    <3>1. /\ phase = "deleteInventory" /\ phase' = "idle" /\ outcome' \in {"deleted", "error"}
          /\ UNCHANGED <<label, manager, established, terminating>>
          /\ outcome' = "deleted" => addon' = addon
      BY <1>12, <2>2, Zenon DEF DeleteInventory, Return, writeInventory
    <3>2. addon \in Addons
      BY <3>1, Zenon DEF InventoryInv, TypeOK
    <3>3. \A b \in Addons : b # addon => inventory'[b] = inventory[b]
      BY <2>2, <3>2, Zenon DEF writeInventory, InventoryInv, TypeOK
    <3>4. \A r \in Refs : label[r] = addon => r \in terminating
      BY <3>1, Zenon DEF InventoryInv, DeleteReady
    <3>5. InventoryCovers'
      BY <3>1, <3>3, <3>4, Zenon DEF InventoryInv, InventoryCovers, Live, TypeOK
    <3>6. Closed'
      BY <3>1, Zenon DEF InventoryInv, Closed, Live
    <3>7. DeleteReady'
      BY <3>1, <3>4, Zenon DEF DeleteReady
    <3> QED
      BY <1>0, <3>1, <3>5, <3>6, <3>7, Zenon DEF InventoryInv, Running, Prepared, PruneComplete,
         FinalizeReady, ApplyPhases
  <2> QED BY <1>12, <2>1, <2>2, Zenon DEF DeleteInventory
<1>13. CASE Crash
  BY <1>0, <1>13, StillShrinks, ShrinksReturn, Zenon DEF Crash
<1>14. ASSUME NEW r \in Refs, Establish(r) PROVE InventoryInv'
  <2>1. Shrinks
    BY <1>14, Zenon DEF Establish, Shrinks, InventoryInv, Closed, Live
  <2> QED BY <1>0, <1>14, <2>1, ShrinksOnly, Zenon DEF Establish
<1>15. ASSUME NEW r \in Refs, Finalized(r) PROVE InventoryInv'
  BY <1>0, <1>15, RemoveShrinks, ShrinksOnly, Zenon DEF Finalized
<1>16. CASE UNCHANGED vars
  BY <1>0, <1>16, StillShrinks, ShrinksOnly, Zenon DEF vars, cluster, call
<1> QED
  BY <1>1, <1>2, <1>3, <1>4, <1>5, <1>6, <1>7, <1>8, <1>9, <1>10, <1>11, <1>12, <1>13,
     <1>14, <1>15, <1>16, Zenon DEF Next, ApplyStep, DeleteStep, Environment

LEMMA InventoryInit == Init => InventoryInv
<1> SUFFICES ASSUME Init PROVE InventoryInv
  BY Zenon
<1>1. PICK L \in Legacy : \E owner \in [L -> Addons] :
          /\ \A r \in L : Parents(r) \subseteq L
          /\ label = [r \in Refs |-> IF r \in L THEN owner[r] ELSE None]
          /\ established = CRDs(L)
          /\ manager = [r \in Refs |-> IF r \in L THEN "kubectl" ELSE "kubeone"]
  BY Zenon DEF Init
<1>2. L \subseteq Refs /\ \A r \in Refs : Live(r) <=> r \in L
  BY <1>1, InputAssumption, RefsAssumption DEF Live
<1>3. Closed
  BY <1>1, <1>2, ParentsOf, Zenon DEF Closed, CRDs
<1>4. InventoryCovers
  BY <1>1, <1>2, Zenon DEF InventoryCovers
<1> QED
  BY <1>3, <1>4, TypeInit, Zenon DEF Init, InventoryInv, Running, TakenOver, Prepared, PruneComplete,
     FinalizeReady, DeleteReady, ApplyPhases

\* As long as the lookup of recorded kinds does not fail and Delete is given the
\* addon's whole manifest, every object Apply has ever put into the cluster is
\* of a kind that the addon's next Apply will search, whatever request failed
\* and wherever the process was killed.
THEOREM InventorySound ==
    ASSUME KeepManifest, ~FlakyDiscovery
    PROVE  Spec => []InventoryCovers
<1>1. InventoryInv => InventoryCovers
  BY Zenon DEF InventoryInv
<1>2. InventoryInv /\ [Next]_vars => InventoryInv'
  BY InventoryStep, Zenon
<1> QED BY <1>1, <1>2, InventoryInit, PTL DEF Spec

\* Under the same assumptions a Delete that returns without an error leaves
\* nothing of the addon behind, although it deletes the inventory.
THEOREM DeleteComplete ==
    ASSUME KeepManifest, ~FlakyDiscovery
    PROVE  Spec => []NothingLeftAfterDelete
<1>1. InventoryInv => NothingLeftAfterDelete
  BY Zenon DEF InventoryInv, DeleteReady, NothingLeftAfterDelete
<1>2. InventoryInv /\ [Next]_vars => InventoryInv'
  BY InventoryStep, Zenon
<1> QED BY <1>1, <1>2, InventoryInit, PTL DEF Spec

(***************************************************************************)
(* The phases of Apply.                                                    *)
(***************************************************************************)

\* The objects that the running Apply is done with, or that the last one, if it
\* returned no error, was given.
Settled ==
    IF outcome = "applied" THEN objs
    ELSE {r \in objs : phase \in ApplyPhases /\ step[r] = "done"}

\* A phase starts when all objects of the phases before it are done.
PhasesInOrder ==
    /\ phase \in {"waitForCRDs", "namespaces", "rest", "prune", "finalizeInventory"} =>
          \A r \in CRDs(objs) : step[r] = "done"
    /\ phase \in {"rest", "prune", "finalizeInventory"} =>
          \A r \in Namespaces(objs) : step[r] = "done"
    /\ phase \in {"prune", "finalizeInventory"} => \A r \in Rest(objs) : step[r] = "done"

\* An object that is done holds no dropped field, and it stays unless it, its
\* CRD or its Namespace was being deleted before or is not of the manifest.
InPlace ==
    \A r \in Settled :
        /\ r \notin stale
        /\ Parents(r) \subseteq objs /\ ({r} \cup Parents(r)) \cap Finalizer = {} => label[r] = addon

CRDsServed == phase \in {"namespaces", "rest"} => CRDs(objs) \ Finalizer \subseteq established

PruneKindsOK == phase = "prune" => DefaultPruneTypes \subseteq pruneKinds /\ CRDKind \notin pruneKinds

StepsOK ==
    /\ terminating \subseteq Finalizer
    /\ \A r \in Refs : step[r] # "none" => r \in objs
    /\ \A r \in Refs : step[r] = "migrated" => manager[r] = "kubeone"

PhaseInv ==
    /\ TypeOK /\ Running /\ StepsOK /\ PhasesInOrder /\ InPlace /\ CRDsServed /\ PruneKindsOK

\* Once the pruning has ended without an error no object of an earlier
\* revision is left.
Pruned ==
    phase = "finalizeInventory" \/ outcome = "applied" =>
        \A r \in Refs :
            /\ label[r] = addon /\ r \notin terminating \cup Protected
            /\ KindOf[r] # CRDKind
            /\ manager[r] # "kubectl" \/ KindOf[r] \in DefaultPruneTypes
            => r \in objs

\* The three phases share out the manifest.
LEMMA PhasesOf ==
    /\ \A r \in objs : r \in CRDs(objs) \/ r \in Namespaces(objs) \/ r \in Rest(objs)
    /\ CRDs(objs) \subseteq objs /\ Namespaces(objs) \subseteq objs /\ Rest(objs) \subseteq objs
    /\ \A r \in CRDs(objs) : KindOf[r] = CRDKind
    /\ \A r \in Namespaces(objs) : KindOf[r] = NamespaceKind
    /\ \A r \in Rest(objs) : KindOf[r] # CRDKind /\ KindOf[r] # NamespaceKind
BY Zenon DEF CRDs, Namespaces, Rest

\* Apply and Delete forget everything when they fail.
LEMMA ErrorPhase ==
    ASSUME TypeOK', terminating' \subseteq Finalizer, Return("error")
    PROVE  PhaseInv'
<1>1. /\ phase' = "idle" /\ outcome' = "error" /\ objs' = {}
      /\ \A r \in Refs : step'[r] = "none"
  BY Zenon DEF Return
<1>2. Settled' = {}
  BY <1>1, Zenon DEF Settled
<1> QED
  BY <1>1, <1>2, Zenon DEF PhaseInv, Running, StepsOK, PhasesInOrder, InPlace, CRDsServed, PruneKindsOK

\* A deletion takes an object that is being deleted, or that the manifest does
\* not list, and what depends on it.
LEMMA DeletionPhase ==
    ASSUME PhaseInv, TypeOK', NEW q \in Refs, Remove(q) \/ deleteObject(q), UNCHANGED call,
           q \in terminating \/ q \notin objs
    PROVE  PhaseInv'
<1>1. /\ terminating' \subseteq Finalizer /\ manager' = manager /\ stale' \subseteq stale
      /\ established \ Gone(q) \subseteq established'
      /\ \A r \in Refs : r \notin Gone(q) => label'[r] = label[r]
  BY Zenon DEF PhaseInv, StepsOK, Remove, deleteObject
<1>2. /\ UNCHANGED <<phase, addon, objs, previous, step, pruneKinds, outcome>>
      /\ objs \subseteq Refs
  BY Zenon DEF call, PhaseInv, TypeOK
<1>3. \A r \in objs : Parents(r) \subseteq objs /\ ({r} \cup Parents(r)) \cap Finalizer = {} => r \notin Gone(q)
  BY <1>2, Zenon DEF Gone, PhaseInv, StepsOK
<1>4. Settled' = Settled /\ Settled \subseteq objs
  BY <1>2, Zenon DEF Settled
<1>5. InPlace'
  BY <1>1, <1>2, <1>3, <1>4, Zenon DEF PhaseInv, InPlace, Parents
<1>6. CRDsServed'
  <2>1. \A r \in CRDs(objs) \ Finalizer : r \in objs /\ Parents(r) = {}
    BY <1>2, PhasesOf, RefsAssumption DEF Parents
  <2>2. \A r \in CRDs(objs) \ Finalizer : r \notin Gone(q)
    BY <1>3, <2>1, Zenon
  <2> QED BY <1>1, <1>2, <2>2, Zenon DEF PhaseInv, CRDsServed, CRDs
<1> QED
  BY <1>1, <1>2, <1>5, <1>6, Zenon DEF PhaseInv, Running, StepsOK, PhasesInOrder, PruneKindsOK,
     CRDs, Namespaces, Rest

\* A step of applyOne.
LEMMA ObjectPhase ==
    ASSUME PhaseInv, TypeOK', NEW r \in PhaseObjs, step[r] # "done", NEW s \in Steps, Advance(r, s),
           UNCHANGED <<established, terminating>>, stale' \subseteq stale, s # "none",
           \A q \in Refs : q # r => label'[q] = label[q] /\ manager'[q] = manager[q],
           s = "done" => r \notin stale' /\ label'[r] = addon,
           s = "migrated" => manager'[r] = "kubeone"
    PROVE  PhaseInv'
<1>1. /\ r \in objs /\ objs \subseteq Refs /\ phase \in {"crds", "namespaces", "rest"}
      /\ UNCHANGED <<phase, addon, objs, previous, pruneKinds, outcome>> /\ outcome = "none"
  BY PhaseObjsIn, Zenon DEF Advance, PhaseInv, TypeOK, Running
<1>2. step'[r] = s /\ \A q \in Refs : q # r => step'[q] = step[q]
  BY <1>1, Zenon DEF Advance, PhaseInv, TypeOK
<1>3. StepsOK'
  BY <1>1, <1>2, Zenon DEF PhaseInv, StepsOK
<1>4. PhasesInOrder'
  <2>1. phase = "namespaces" => r \in Namespaces(objs) /\ r \notin CRDs(objs)
    BY PhasesOf, RefsAssumption DEF PhaseObjs
  <2>2. phase = "rest" => r \in Rest(objs) /\ r \notin CRDs(objs) /\ r \notin Namespaces(objs)
    BY PhasesOf, Zenon DEF PhaseObjs
  <2> QED BY <1>1, <1>2, <2>1, <2>2, PhasesOf, Zenon DEF PhaseInv, PhasesInOrder, CRDs, Namespaces, Rest
<1>5. InPlace'
  <2>1. \A q \in Settled' : q \in objs /\ step'[q] = "done"
    BY <1>1, Zenon DEF Settled
  <2>2. \A q \in Settled' : q # r => q \in Settled
    BY <1>1, <1>2, Zenon DEF Settled
  <2> QED BY <1>1, <1>2, <2>1, <2>2, Zenon DEF PhaseInv, InPlace, Parents
<1> QED
  BY <1>1, <1>3, <1>4, <1>5, Zenon DEF PhaseInv, Running, CRDsServed, PruneKindsOK, CRDs

\* The two requests of applyOne that apply an object.
LEMMA AppliedObject ==
    ASSUME TypeOK, NEW r \in Refs, ServerSideApply(r)
    PROVE  /\ UNCHANGED <<established, terminating>> /\ stale' \subseteq stale
           /\ \A q \in Refs : q # r => label'[q] = label[q] /\ manager'[q] = manager[q]
           /\ label'[r] = addon
           /\ manager'[r] = "kubeone" => r \notin stale'
           /\ manager[r] = "kubeone" => manager'[r] = "kubeone"
BY Zenon DEF TypeOK, ServerSideApply

LEMMA PhaseStep ==
    ASSUME PhaseInv, [Next]_vars
    PROVE  PhaseInv'
<1>0. TypeOK /\ TypeOK' /\ terminating \subseteq Finalizer /\ objs \subseteq Refs
  BY TypeStep, Zenon DEF PhaseInv, StepsOK, TypeOK
<1>1. ASSUME NEW a \in Addons, NEW S \in Manifests, BeginApply(a, S) PROVE PhaseInv'
  <2>1. terminating' = terminating
    BY <1>1, Zenon DEF BeginApply, writeInventory
  <2>2. CASE Return("error")
    BY <1>0, <2>1, <2>2, ErrorPhase, Zenon
  <2>3. CASE ~Return("error")
    <3>1. /\ phase' = "crds" /\ outcome' = "none" /\ objs' = S
          /\ step' = [r \in Refs |-> IF r \in S THEN "pending" ELSE "none"]
      BY <1>1, <2>3, Zenon DEF BeginApply
    <3>2. Settled' = {}
      BY <1>0, <3>1, Zenon DEF Settled, TypeOK
    <3> QED
      BY <1>0, <2>1, <3>1, <3>2, Zenon DEF PhaseInv, Running, StepsOK, PhasesInOrder, InPlace, CRDsServed,
         PruneKindsOK
  <2> QED BY <2>2, <2>3, Zenon
<1>2. ASSUME NEW r \in Refs, ApplyFirst(r) PROVE PhaseInv'
  <2>1. r \in PhaseObjs /\ step[r] # "done"
    BY <1>2, Zenon DEF ApplyFirst
  <2>2. ASSUME ServerSideApply(r), NEW s \in {"done", "applied", "failed"}, Advance(r, s),
               s = "done" => manager'[r] = "kubeone"
        PROVE  PhaseInv'
    BY <1>0, <2>1, <2>2, AppliedObject, ObjectPhase, Zenon DEF Steps
  <2>3. CASE UNCHANGED cluster /\ Advance(r, "failed")
    BY <1>0, <2>1, <2>3, ObjectPhase, Zenon DEF Steps, cluster
  <2> QED BY <1>2, <2>2, <2>3, Zenon DEF ApplyFirst
<1>3. ASSUME NEW r \in Refs, MigrateClientSideApply(r) PROVE PhaseInv'
  <2>1. r \in PhaseObjs /\ step[r] # "done"
    BY <1>3, Zenon DEF MigrateClientSideApply
  <2>2. CASE UNCHANGED cluster /\ Advance(r, "failed")
    BY <1>0, <2>1, <2>2, ObjectPhase, Zenon DEF Steps, cluster
  <2>3. ASSUME manager' = [manager EXCEPT ![r] = "kubeone"],
               UNCHANGED <<label, stale, established, terminating, inventory>>,
               NEW s \in {"migrated", "failed"}, Advance(r, s)
        PROVE  PhaseInv'
    <3>1. manager'[r] = "kubeone" /\ \A q \in Refs : q # r => manager'[q] = manager[q]
      BY <1>0, <2>3, Zenon DEF TypeOK
    <3> QED BY <1>0, <2>1, <2>3, <3>1, ObjectPhase, Zenon DEF Steps
  <2> QED BY <1>3, <2>2, <2>3, Zenon DEF MigrateClientSideApply
<1>4. ASSUME NEW r \in Refs, ApplyAgain(r) PROVE PhaseInv'
  <2>1. r \in PhaseObjs /\ step[r] # "done" /\ manager[r] = "kubeone"
    BY <1>4, Zenon DEF ApplyAgain, PhaseInv, StepsOK
  <2>2. ASSUME ServerSideApply(r), NEW s \in {"done", "failed"}, Advance(r, s) PROVE PhaseInv'
    BY <1>0, <2>1, <2>2, AppliedObject, ObjectPhase, Zenon DEF Steps
  <2>3. CASE UNCHANGED cluster /\ Advance(r, "failed")
    BY <1>0, <2>1, <2>3, ObjectPhase, Zenon DEF Steps, cluster
  <2> QED BY <1>4, <2>2, <2>3, Zenon DEF ApplyAgain
<1>5. ASSUME NEW r \in Refs, Prune(r) PROVE PhaseInv'
  <2>1. r \notin objs
    BY <1>5, Zenon DEF Prune, Stale
  <2>2. terminating' \subseteq Finalizer
    BY <1>0, <1>5, Zenon DEF Prune, deleteObject, Remove, cluster
  <2>3. CASE Return("error")
    BY <1>0, <2>2, <2>3, ErrorPhase, Zenon
  <2>4. CASE deleteObject(r) /\ UNCHANGED call
    BY <1>0, <2>1, <2>4, DeletionPhase, Zenon
  <2> QED BY <1>5, <2>3, <2>4, Zenon DEF Prune
<1>6. CASE EndPhase
  <2>1. UNCHANGED cluster
    BY <1>6, Zenon DEF EndPhase
  <2>2. CASE Return("error")
    BY <1>0, <2>1, <2>2, ErrorPhase, Zenon DEF cluster
  <2>3. CASE ~Return("error")
    <3>1. /\ phase \in {"crds", "namespaces", "rest"}
          /\ \A r \in PhaseObjs : step[r] = "done"
          /\ phase' = IF phase = "crds" THEN "waitForCRDs"
                      ELSE IF phase = "namespaces" THEN "rest" ELSE "prune"
          /\ UNCHANGED <<addon, objs, previous, step, outcome>>
      BY <1>6, <2>3, Zenon DEF EndPhase
    <3>2. Settled' = Settled
      BY <3>1, Zenon DEF Settled, ApplyPhases
    <3>3. PhasesInOrder'
      <4>1. /\ phase = "crds" => \A r \in CRDs(objs) : step[r] = "done"
            /\ phase = "namespaces" => \A r \in Namespaces(objs) : step[r] = "done"
            /\ phase = "rest" => \A r \in Rest(objs) : step[r] = "done"
        BY <3>1, Zenon DEF PhaseObjs
      <4> QED BY <3>1, <4>1, Zenon DEF PhaseInv, PhasesInOrder, CRDs, Namespaces, Rest
    <3>4. PruneKindsOK'
      <4>1. ASSUME phase' = "prune" PROVE \E failed : pruneKinds' = pruneGVKs(failed)
        BY <1>6, <2>3, <3>1, <4>1, Zenon DEF EndPhase
      <4> QED BY <4>1, PruneAssumption, Zenon DEF PruneKindsOK, pruneGVKs
    <3>5. InPlace'
      BY <2>1, <3>1, <3>2, Zenon DEF PhaseInv, InPlace, Parents, cluster
    <3>6. Running' /\ StepsOK' /\ CRDsServed'
      BY <2>1, <3>1, Zenon DEF PhaseInv, Running, StepsOK, CRDsServed, CRDs, cluster
    <3> QED BY <1>0, <3>3, <3>4, <3>5, <3>6, Zenon DEF PhaseInv
  <2> QED BY <2>2, <2>3, Zenon
<1>7. CASE WaitForCRDs
  <2>1. UNCHANGED cluster
    BY <1>7, Zenon DEF WaitForCRDs
  <2>2. CASE Return("error")
    BY <1>0, <2>1, <2>2, ErrorPhase, Zenon DEF cluster
  <2>3. CASE ~Return("error")
    <3>1. /\ phase = "waitForCRDs" /\ phase' = "namespaces" /\ CRDs(objs) \subseteq established
          /\ UNCHANGED <<addon, objs, previous, step, pruneKinds, outcome>>
      BY <1>7, <2>3, Zenon DEF WaitForCRDs, CRDsReadyCondition
    <3>2. Settled' = Settled
      BY <3>1, Zenon DEF Settled, ApplyPhases
    <3> QED
      BY <1>0, <2>1, <3>1, <3>2, Zenon DEF PhaseInv, Running, StepsOK, PhasesInOrder, InPlace, Parents,
         CRDsServed, CRDs, PruneKindsOK, cluster
  <2> QED BY <2>2, <2>3, Zenon
<1>8. CASE EndPrune
  <2>1. UNCHANGED cluster
    BY <1>8, Zenon DEF EndPrune
  <2>2. CASE Return("error")
    BY <1>0, <2>1, <2>2, ErrorPhase, Zenon DEF cluster
  <2>3. CASE ~Return("error")
    <3>1. /\ phase = "prune" /\ phase' = "finalizeInventory"
          /\ UNCHANGED <<addon, objs, previous, step, pruneKinds, outcome>>
      BY <1>8, <2>3, Zenon DEF EndPrune
    <3>2. Settled' = Settled
      BY <3>1, Zenon DEF Settled, ApplyPhases
    <3> QED
      BY <1>0, <2>1, <3>1, <3>2, Zenon DEF PhaseInv, Running, StepsOK, PhasesInOrder, InPlace, Parents,
         CRDsServed, PruneKindsOK, CRDs, Namespaces, Rest, cluster
  <2> QED BY <2>2, <2>3, Zenon
<1>9. CASE FinalizeInventory
  <2>1. UNCHANGED <<label, manager, stale, established, terminating>>
    BY <1>9, Zenon DEF FinalizeInventory, writeInventory, cluster
  <2>2. CASE Return("error")
    BY <1>0, <2>1, <2>2, ErrorPhase, Zenon
  <2>3. CASE ~Return("error")
    <3>1. /\ phase = "finalizeInventory" /\ phase' = "idle" /\ outcome' = "applied"
          /\ \A r \in Refs : step'[r] = "none"
          /\ UNCHANGED <<addon, objs>>
      BY <1>9, <2>3, Zenon DEF FinalizeInventory, Return
    <3>2. Settled' \subseteq Settled
      <4>1. \A r \in objs : step[r] = "done"
        BY <3>1, PhasesOf, Zenon DEF PhaseInv, PhasesInOrder
      <4> QED BY <3>1, <4>1, Zenon DEF Settled, ApplyPhases
    <3> QED
      BY <1>0, <2>1, <3>1, <3>2, Zenon DEF PhaseInv, Running, StepsOK, PhasesInOrder, InPlace, Parents,
         CRDsServed, PruneKindsOK
  <2> QED BY <2>2, <2>3, Zenon
<1>10. ASSUME NEW a \in Addons, NEW S \in Manifests, BeginDelete(a, S) PROVE PhaseInv'
  <2>1. /\ phase' = "delete" /\ outcome' = "none" /\ objs' = S /\ terminating' = terminating
        /\ step' = [r \in Refs |-> IF r \in S THEN "pending" ELSE "none"]
    BY <1>10, Zenon DEF BeginDelete, cluster
  <2>2. Settled' = {}
    BY <2>1, Zenon DEF Settled, ApplyPhases
  <2> QED
    BY <1>0, <2>1, <2>2, Zenon DEF PhaseInv, Running, StepsOK, PhasesInOrder, InPlace, CRDsServed,
       PruneKindsOK
<1>11. ASSUME NEW r \in Refs, DeleteOne(r) PROVE PhaseInv'
  <2>1. terminating' \subseteq Finalizer /\ manager' = manager
    BY <1>0, <1>11, Zenon DEF DeleteOne, deleteObject, Remove, cluster
  <2>2. CASE Return("error")
    BY <1>0, <2>1, <2>2, ErrorPhase, Zenon
  <2>3. CASE ~Return("error")
    <3>1. phase = "delete" /\ step[r] = "pending" /\ Advance(r, "done")
      BY <1>11, <2>3, Zenon DEF DeleteOne
    <3>2. Settled' = {} /\ outcome' = "none"
      BY <3>1, Zenon DEF Advance, Settled, ApplyPhases, PhaseInv, Running
    <3>3. StepsOK'
      BY <1>0, <2>1, <3>1, Zenon DEF Advance, PhaseInv, StepsOK, TypeOK
    <3> QED
      BY <1>0, <3>1, <3>2, <3>3, Zenon DEF PhaseInv, Running, PhasesInOrder, InPlace, CRDsServed,
         PruneKindsOK, Advance
  <2> QED BY <2>2, <2>3, Zenon
<1>12. CASE EndDelete
  <2>1. /\ UNCHANGED cluster /\ phase' = "deleteInventory" /\ phase = "delete"
        /\ UNCHANGED <<addon, objs, previous, step, pruneKinds, outcome>>
    BY <1>12, Zenon DEF EndDelete
  <2>2. Settled' = {} /\ outcome' = "none"
    BY <2>1, Zenon DEF Settled, ApplyPhases, PhaseInv, Running
  <2> QED
    BY <1>0, <2>1, <2>2, Zenon DEF PhaseInv, Running, StepsOK, PhasesInOrder, InPlace, CRDsServed,
       PruneKindsOK, cluster
<1>13. CASE DeleteInventory
  <2>1. terminating' = terminating
    BY <1>13, Zenon DEF DeleteInventory, writeInventory, cluster
  <2>2. CASE Return("error")
    BY <1>0, <2>1, <2>2, ErrorPhase, Zenon
  <2>3. CASE Return("deleted")
    <3>1. phase' = "idle" /\ outcome' = "deleted" /\ \A r \in Refs : step'[r] = "none"
      BY <2>3, Zenon DEF Return
    <3>2. Settled' = {}
      BY <3>1, Zenon DEF Settled, ApplyPhases
    <3> QED
      BY <1>0, <2>1, <3>1, <3>2, Zenon DEF PhaseInv, Running, StepsOK, PhasesInOrder, InPlace, CRDsServed,
         PruneKindsOK
  <2> QED BY <1>13, <2>2, <2>3, Zenon DEF DeleteInventory
<1>14. CASE Crash
  BY <1>0, <1>14, ErrorPhase, Zenon DEF Crash, cluster
<1>15. ASSUME NEW r \in Refs, Establish(r) PROVE PhaseInv'
  <2>1. /\ established \subseteq established' /\ UNCHANGED <<label, manager, stale, terminating>>
        /\ UNCHANGED <<phase, addon, objs, previous, step, pruneKinds, outcome>>
    BY <1>15, Zenon DEF Establish, call
  <2>2. Settled' = Settled
    BY <2>1, Zenon DEF Settled
  <2> QED
    BY <1>0, <2>1, <2>2, Zenon DEF PhaseInv, Running, StepsOK, PhasesInOrder, InPlace, Parents, CRDsServed,
       PruneKindsOK, CRDs, Namespaces, Rest
<1>16. ASSUME NEW r \in Refs, Finalized(r) PROVE PhaseInv'
  BY <1>0, <1>16, DeletionPhase, Zenon DEF Finalized
<1>17. CASE UNCHANGED vars
  <2>1. /\ UNCHANGED <<label, manager, stale, established, terminating>>
        /\ UNCHANGED <<phase, addon, objs, previous, step, pruneKinds, outcome>>
    BY <1>17, Zenon DEF vars
  <2>2. Settled' = Settled
    BY <2>1, Zenon DEF Settled
  <2> QED
    BY <1>0, <2>1, <2>2, Zenon DEF PhaseInv, Running, StepsOK, PhasesInOrder, InPlace, Parents, CRDsServed,
       PruneKindsOK, CRDs, Namespaces, Rest
<1> QED
  BY <1>1, <1>2, <1>3, <1>4, <1>5, <1>6, <1>7, <1>8, <1>9, <1>10, <1>11, <1>12, <1>13,
     <1>14, <1>15, <1>16, <1>17, Zenon DEF Next, ApplyStep, DeleteStep, Environment

LEMMA PhaseInit == Init => PhaseInv
<1> SUFFICES ASSUME Init PROVE PhaseInv
  BY Zenon
<1>1. Settled = {}
  BY Zenon DEF Init, Settled, ApplyPhases
<1> QED
  BY <1>1, TypeInit, Zenon DEF Init, PhaseInv, Running, StepsOK, PhasesInOrder, InPlace, CRDsServed,
     PruneKindsOK

\* What the phases of Apply have promised is there when the last one starts,
\* whatever finishes being deleted meanwhile.
THEOREM PhasesPrepare == Spec => []ParentsReady
<1>1. PhaseInv => ParentsReady
  <2> SUFFICES ASSUME PhaseInv, phase = "rest", NEW r \in Rest(objs), NEW p \in Parents(r) \cap objs,
                      p \notin Finalizer
               PROVE  Live(p) /\ (KindOf[p] = CRDKind => p \in established)
    BY Zenon DEF ParentsReady
  <2>1. /\ objs \subseteq Refs /\ addon \in Addons /\ outcome = "none"
        /\ r \in Refs /\ p \in Refs
    BY PhasesOf, Zenon DEF PhaseInv, TypeOK, Running
  <2>2. KindOf[p] \in {CRDKind, NamespaceKind} /\ Parents(p) = {}
    BY <2>1, ParentsOf, Zenon
  <2>3. step[p] = "done"
    BY <2>2, Zenon DEF PhaseInv, PhasesInOrder, CRDs, Namespaces
  <2>4. label[p] = addon
    BY <2>1, <2>2, <2>3, Zenon DEF PhaseInv, InPlace, Settled, ApplyPhases
  <2> QED BY <2>1, <2>4, RefsAssumption, Zenon DEF Live, PhaseInv, CRDsServed, CRDs
<1>2. PhaseInv /\ [Next]_vars => PhaseInv'
  BY PhaseStep, Zenon
<1> QED BY <1>1, <1>2, PhaseInit, PTL DEF Spec

\* The applier deletes nothing that is not its own: neither what another addon
\* has labelled nor, when it prunes, what the manifest lists.
Justified ==
    \A r \in Refs : Deleted(r) =>
        \/ r \in terminating
        \/ \E p \in Parents(r) : label'[p] = None
        \/ /\ label[r] = addon
           /\ \/ phase = "delete" /\ r \in objs
              \/ /\ phase = "prune" /\ r \notin objs
                 /\ KindOf[r] # CRDKind /\ r \notin Protected
                 /\ \A q \in objs : step[q] = "done"

\* What one deletion makes disappear.
LEMMA DeletedBy ==
    ASSUME NEW q \in Refs, Remove(q) \/ deleteObject(q), NEW r \in Refs, Deleted(r)
    PROVE  r = q \/ (q \in Parents(r) /\ label'[q] = None)
BY Zenon DEF Remove, deleteObject, Gone, Deleted, Live

LEMMA NoneDeleted ==
    ASSUME UNCHANGED <<label, terminating>>, NEW r
    PROVE  ~Deleted(r)
BY Zenon DEF Deleted, Live

LEMMA AppliedNotDeleted ==
    ASSUME TypeOK, NEW q \in PhaseObjs, ServerSideApply(q), NEW r \in Refs
    PROVE  ~Deleted(r)
<1>1. addon # None
  BY PhaseObjsIn, RefsAssumption, Zenon DEF TypeOK
<1> QED BY <1>1, Zenon DEF ServerSideApply, Deleted, Live, TypeOK

LEMMA StepJustified ==
    ASSUME PhaseInv, Next
    PROVE  Justified
<1> SUFFICES ASSUME NEW r \in Refs, Deleted(r)
             PROVE  \/ r \in terminating
                    \/ \E p \in Parents(r) : label'[p] = None
                    \/ /\ label[r] = addon
                       /\ \/ phase = "delete" /\ r \in objs
                          \/ /\ phase = "prune" /\ r \notin objs
                             /\ KindOf[r] # CRDKind /\ r \notin Protected
                             /\ \A q \in objs : step[q] = "done"
  BY Zenon DEF Justified
<1>0. TypeOK /\ ~UNCHANGED <<label, terminating>>
  BY NoneDeleted, Zenon DEF PhaseInv
<1>1. \A a, S : ~BeginApply(a, S) /\ ~BeginDelete(a, S)
  BY <1>0, Zenon DEF BeginApply, writeInventory, BeginDelete, cluster
<1>2. \A q \in Refs : ~ApplyFirst(q) /\ ~MigrateClientSideApply(q) /\ ~ApplyAgain(q)
  BY <1>0, AppliedNotDeleted, Zenon DEF ApplyFirst, MigrateClientSideApply, ApplyAgain, cluster
<1>3. ~EndPhase /\ ~WaitForCRDs /\ ~EndPrune /\ ~FinalizeInventory
  BY <1>0, Zenon DEF EndPhase, WaitForCRDs, EndPrune, FinalizeInventory, writeInventory, cluster
<1>4. ~EndDelete /\ ~DeleteInventory /\ ~Crash /\ \A q \in Refs : ~Establish(q)
  BY <1>0, Zenon DEF EndDelete, DeleteInventory, Crash, Establish, writeInventory, cluster
<1>5. ASSUME NEW q \in Refs, Prune(q)
      PROVE  \/ \E p \in Parents(r) : label'[p] = None
             \/ /\ label[r] = addon /\ phase = "prune" /\ r \notin objs
                /\ KindOf[r] # CRDKind /\ r \notin Protected
                /\ \A o \in objs : step[o] = "done"
  <2>1. deleteObject(q) /\ phase = "prune" /\ q \in Stale
    BY <1>0, <1>5, Zenon DEF Prune, cluster
  <2>2. \A o \in objs : step[o] = "done"
    BY <2>1, PhasesOf, Zenon DEF PhaseInv, PhasesInOrder
  <2>3. label[q] = addon /\ q \notin objs /\ KindOf[q] # CRDKind /\ q \notin Protected
    BY <2>1, Zenon DEF Stale, PhaseInv, PruneKindsOK
  <2> QED BY <2>1, <2>2, <2>3, DeletedBy, Zenon
<1>6. ASSUME NEW q \in Refs, DeleteOne(q)
      PROVE  \/ \E p \in Parents(r) : label'[p] = None
             \/ label[r] = addon /\ phase = "delete" /\ r \in objs
  <2>1. deleteObject(q) /\ phase = "delete" /\ label[q] = addon /\ step[q] = "pending"
    BY <1>0, <1>6, Zenon DEF DeleteOne, cluster
  <2>2. q \in objs
    BY <2>1, Zenon DEF PhaseInv, StepsOK
  <2> QED BY <2>1, <2>2, DeletedBy, Zenon
<1>7. ASSUME NEW q \in Refs, Finalized(q)
      PROVE  r \in terminating \/ \E p \in Parents(r) : label'[p] = None
  BY <1>7, DeletedBy, Zenon DEF Finalized
<1> QED
  BY <1>1, <1>2, <1>3, <1>4, <1>5, <1>6, <1>7, Zenon DEF Next, ApplyStep, DeleteStep, Environment

\* Every object that disappears was to: it carried the label of the addon that
\* is deleted or applied, and an Apply had been through with all its manifest.
THEOREM OnlyJustifiedDeletions == Spec => DeletionsJustified
<1>1. PhaseInv /\ [Next]_vars => [Justified]_vars
  BY StepJustified, Zenon
<1>2. PhaseInv /\ [Next]_vars => PhaseInv'
  BY PhaseStep, Zenon
<1>3. Spec => [][Justified]_vars
  BY <1>1, <1>2, PhaseInit, PTL DEF Spec
<1> QED BY <1>3, Zenon DEF DeletionsJustified, Justified

\* The pruning leaves no object of an earlier revision.
LEMMA PrunedStep ==
    ASSUME InventoryInv, PhaseInv, Pruned, [Next]_vars
    PROVE  Pruned'
<1>0. TypeOK
  BY Zenon DEF PhaseInv
<1>1. CASE EndPrune
  <2>1. CASE Return("error")
    BY <2>1, Zenon DEF Return, Pruned
  <2>2. CASE ~Return("error")
    <3>1. /\ phase = "prune" /\ Stale = {} /\ addon \in Addons
          /\ UNCHANGED <<label, manager, terminating, addon, objs>>
      BY <1>0, <1>1, <2>2, Zenon DEF EndPrune, cluster, TypeOK
    <3>2. ASSUME NEW r \in Refs, label[r] = addon, r \notin terminating \cup Protected,
                 KindOf[r] # CRDKind, manager[r] # "kubectl" \/ KindOf[r] \in DefaultPruneTypes
          PROVE  r \in objs
      <4>1. Live(r)
        BY <3>1, <3>2, RefsAssumption, Zenon DEF Live
      <4>2. KindOf[r] \in DefaultPruneTypes \/ KindOf[r] \in previous \cup groupKinds(objs)
        BY <3>1, <3>2, <4>1, Zenon DEF InventoryInv, InventoryCovers, Prepared, ApplyPhases
      <4>3. KindOf[r] \in pruneKinds
        BY <3>1, <3>2, <4>1, <4>2, Zenon DEF InventoryInv, PruneComplete, PhaseInv, PruneKindsOK
      <4> QED BY <3>1, <3>2, <4>3, Zenon DEF Stale
    <3> QED BY <3>1, <3>2, Zenon DEF Pruned
  <2> QED BY <2>1, <2>2, Zenon
<1>2. CASE FinalizeInventory
  BY <1>2, Zenon DEF FinalizeInventory, Return, writeInventory, cluster, Pruned
<1>3. ASSUME NEW q \in Refs, Establish(q) \/ Finalized(q) PROVE Pruned'
  <2>1. /\ UNCHANGED <<phase, addon, objs, previous, step, pruneKinds, outcome, manager>>
        /\ phase = "finalizeInventory" \/ outcome = "applied" => addon \in Addons
    BY <1>0, <1>3, Zenon DEF Establish, Finalized, Remove, call, TypeOK
  <2>2. phase = "finalizeInventory" \/ outcome = "applied" =>
          \A r \in Refs : label'[r] = addon /\ r \notin terminating' => label[r] = addon /\ r \notin terminating
    BY <1>3, <2>1, RefsAssumption DEF Establish, Finalized, Remove
  <2> QED BY <2>1, <2>2, Zenon DEF Pruned
<1>4. CASE UNCHANGED vars
  BY <1>4, Zenon DEF vars, Pruned
<1>5. ASSUME NEW q \in Refs, ApplyFirst(q) \/ MigrateClientSideApply(q) \/ ApplyAgain(q) PROVE Pruned'
  <2>1. phase' \in {"crds", "namespaces", "rest"} /\ outcome' = "none"
    BY <1>5, PhaseObjsIn, Zenon DEF ApplyFirst, MigrateClientSideApply, ApplyAgain, Advance, PhaseInv,
       Running
  <2> QED BY <2>1, Zenon DEF Pruned
<1>6. ASSUME NEW q \in Refs, Prune(q) \/ DeleteOne(q) PROVE Pruned'
  BY <1>6, Zenon DEF Prune, DeleteOne, Return, Advance, call, PhaseInv, Running, Pruned
<1>7. CASE EndPhase \/ WaitForCRDs \/ EndDelete \/ DeleteInventory \/ Crash
  BY <1>7, Zenon DEF EndPhase, WaitForCRDs, EndDelete, DeleteInventory, Crash, Return, PhaseInv, Running,
     Pruned
<1>8. ASSUME NEW a, NEW S, BeginApply(a, S) \/ BeginDelete(a, S) PROVE Pruned'
  BY <1>8, Zenon DEF BeginApply, BeginDelete, Return, Pruned
<1> QED
  BY <1>1, <1>2, <1>3, <1>4, <1>5, <1>6, <1>7, <1>8, Zenon DEF Next, ApplyStep, DeleteStep, Environment

\* Under the assumptions of InventorySound an Apply that returns without an
\* error has brought the cluster to what the manifest says, whatever earlier
\* runs of it were interrupted.
THEOREM ApplyConverges ==
    ASSUME KeepManifest, ~FlakyDiscovery
    PROVE  Spec => []Converged
<1> DEFINE Inv == InventoryInv /\ PhaseInv /\ Pruned
<1>1. Inv => Converged
  BY Zenon DEF PhaseInv, InPlace, Settled, Pruned, Converged
<1>2. Inv /\ [Next]_vars => Inv'
  BY InventoryStep, PhaseStep, PrunedStep, Zenon
<1>3. Init => Inv
  BY InventoryInit, PhaseInit, Zenon DEF Init, Pruned
<1> QED BY <1>1, <1>2, <1>3, PTL DEF Spec
=============================================================================
