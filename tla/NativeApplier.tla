--------------------------- MODULE NativeApplier ---------------------------
(***************************************************************************)
(* The server-side applier of pkg/nativeclient as the addons code          *)
(* (pkg/addons/applier.go) drives it: one Apply or Delete of one addon at  *)
(* a time, with pruning and an inventory ConfigMap always requested and    *)
(* never a dry run.  Every request to the API server may fail, and a       *)
(* failed request may still have taken effect; the process may be killed   *)
(* between any two requests.                                               *)
(*                                                                         *)
(* An object is a Ref (group, kind, namespace and name).  Its manifest     *)
(* content is abstracted to one bit: does the live object still hold a     *)
(* field that the manifest being applied no longer has (stale).            *)
(***************************************************************************)
EXTENDS FiniteSets, Naturals

CONSTANTS
    Addons,             \* names in the kubeone.io/addon label
    Refs,               \* objects that manifests mention
    Kinds,              \* group kinds
    KindOf,             \* [Refs -> Kinds]
    CRDKind,            \* CustomResourceDefinition
    NamespaceKind,      \* Namespace
    CRDOf,              \* [Kinds -> Refs \cup {None}]: the CRD that defines a kind
    NamespaceOf,        \* [Refs -> Refs \cup {None}]: the Namespace an object is in
    None,
    DefaultPruneTypes,  \* kinds pruned whatever the inventory says
    Protected,          \* the namespaces default, kube-system, ...
    Finalizer,          \* objects that a finalizer keeps after their deletion
    Manifests,          \* object sets an addon may consist of
    Legacy,             \* object sets "kubectl apply" may have left behind
    Concurrency,        \* requests in flight in the last phase
    KeepManifest,       \* Delete gets a manifest that lists every object of the addon
    FlakyDiscovery      \* looking up the version of a recorded kind may fail

ASSUME RefsAssumption ==
    /\ KindOf \in [Refs -> Kinds]
    /\ CRDOf \in [Kinds -> Refs \cup {None}]
    /\ NamespaceOf \in [Refs -> Refs \cup {None}]
    /\ None \notin Refs \cup Addons
    /\ \A k \in Kinds : CRDOf[k] # None => KindOf[CRDOf[k]] = CRDKind
    /\ \A r \in Refs : NamespaceOf[r] # None => KindOf[NamespaceOf[r]] = NamespaceKind
    /\ CRDKind \in Kinds /\ NamespaceKind \in Kinds /\ CRDKind # NamespaceKind
    /\ CRDOf[CRDKind] = None /\ CRDOf[NamespaceKind] = None
    /\ \A r \in Refs : KindOf[r] \in {CRDKind, NamespaceKind} => NamespaceOf[r] = None

ASSUME PruneAssumption ==
    /\ DefaultPruneTypes \subseteq Kinds
    /\ NamespaceKind \in DefaultPruneTypes /\ CRDKind \notin DefaultPruneTypes
    /\ Protected \subseteq {r \in Refs : KindOf[r] = NamespaceKind}
    /\ Finalizer \subseteq Refs

ASSUME InputAssumption ==
    /\ Manifests \subseteq SUBSET Refs /\ {} \notin Manifests
    /\ Legacy \subseteq SUBSET Refs
    /\ Concurrency \in Nat \ {0}
    /\ KeepManifest \in BOOLEAN /\ FlakyDiscovery \in BOOLEAN

VARIABLES
    \* The cluster.
    label,        \* the addon a live object is labelled with, None if it does not exist
    manager,      \* who owns its fields: "kubectl", "kubeone" or "both"
    stale,        \* live objects that hold a field their manifest has dropped
    established,  \* CRDs whose types are served
    terminating,  \* deleted objects whose finalizer has not run yet
    inventory,    \* the kinds recorded in each addon's inventory ConfigMap
    \* The running Apply or Delete.
    phase,
    addon, objs,  \* its arguments
    previous,     \* kinds the inventory held when Apply began
    step,         \* how far each object of objs has got
    pruneKinds,   \* kinds that are searched for stale objects
    outcome       \* what the last Apply or Delete returned

cluster == <<label, manager, stale, established, terminating, inventory>>
call == <<phase, addon, objs, previous, step, pruneKinds, outcome>>
vars == <<label, manager, stale, established, terminating, inventory,
          phase, addon, objs, previous, step, pruneKinds, outcome>>

Phases == {"idle", "crds", "waitForCRDs", "namespaces", "rest", "prune",
           "finalizeInventory", "delete", "deleteInventory"}
ApplyPhases == {"crds", "waitForCRDs", "namespaces", "rest", "prune", "finalizeInventory"}
Steps == {"none", "pending", "applied", "migrated", "done", "failed"}

(* The type invariant: every variable of the cluster and of the running     *)
(* call keeps its shape.                                                   *)
TypeOK ==
    /\ label \in [Refs -> Addons \cup {None}]
    /\ manager \in [Refs -> {"kubectl", "both", "kubeone"}]
    /\ stale \subseteq Refs
    /\ established \subseteq Refs
    /\ terminating \subseteq Refs
    /\ inventory \in [Addons -> SUBSET Kinds]
    /\ phase \in Phases
    /\ addon \in Addons \cup {None}
    /\ phase # "idle" \/ outcome \in {"applied", "deleted"} => addon \in Addons
    /\ objs \subseteq Refs
    /\ previous \subseteq Kinds
    /\ step \in [Refs -> Steps]
    /\ pruneKinds \subseteq Kinds
    /\ outcome \in {"none", "applied", "deleted", "error"}

-----------------------------------------------------------------------------
(* The API server, as far as the applier can tell. *)

Live(r) == label[r] # None
Parents(r) == {CRDOf[KindOf[r]], NamespaceOf[r]} \ {None}
Served(k) == CRDOf[k] # None => Live(CRDOf[k]) /\ CRDOf[k] \in established
\* A request for r can succeed: its type is served and its namespace exists.
Accepts(r) == Served(KindOf[r]) /\ (NamespaceOf[r] # None => Live(NamespaceOf[r]))

\* Deleting a CRD deletes its custom resources, deleting a Namespace what is in it.
Gone(r) == {q \in Refs : r = q \/ r \in Parents(q)}

Remove(r) ==
    /\ label' = [q \in Refs |-> IF q \in Gone(r) THEN None ELSE label[q]]
    /\ stale' = stale \ Gone(r)
    /\ established' = established \ Gone(r)
    /\ terminating' = terminating \ Gone(r)
    /\ UNCHANGED <<manager, inventory>>

\* A deletion with background propagation: at once, or when a finalizer allows it.
deleteObject(r) ==
    \/ r \notin Finalizer /\ Remove(r)
    \/ /\ r \in Finalizer
       /\ terminating' = terminating \cup {r}
       /\ UNCHANGED <<label, manager, stale, established, inventory>>

\* A server-side apply of r with forced ownership: creates or updates it, sets
\* the addon label, and drops the fields that only kubeone owned and that the
\* manifest no longer has.
ServerSideApply(r) ==
    /\ Accepts(r)
    /\ label' = [label EXCEPT ![r] = addon]
    /\ manager' = [manager EXCEPT ![r] =
                     IF ~Live(r) \/ @ = "kubeone" THEN "kubeone" ELSE "both"]
    /\ stale' = IF ~Live(r) \/ manager[r] = "kubeone" THEN stale \ {r} ELSE stale
    /\ UNCHANGED <<established, terminating, inventory>>

writeInventory(a, kinds) ==
    /\ inventory' = [inventory EXCEPT ![a] = kinds]
    /\ UNCHANGED <<label, manager, established, terminating>>

Establish(r) ==
    /\ KindOf[r] = CRDKind /\ Live(r) /\ r \notin established
    /\ established' = established \cup {r}
    /\ UNCHANGED <<label, manager, stale, terminating, inventory>> /\ UNCHANGED call

Finalized(r) ==
    /\ r \in terminating
    /\ Remove(r)
    /\ UNCHANGED call

-----------------------------------------------------------------------------
(* Apply *)

groupKinds(S) == {KindOf[r] : r \in S}
CRDs(S) == {r \in S : KindOf[r] = CRDKind}
Namespaces(S) == {r \in S : KindOf[r] = NamespaceKind}
Rest(S) == S \ (CRDs(S) \cup Namespaces(S))

PhaseObjs == CASE phase = "crds" -> CRDs(objs)
               [] phase = "namespaces" -> Namespaces(objs)
               [] phase = "rest" -> Rest(objs)
               [] OTHER -> {}
Limit == IF phase = "rest" THEN Concurrency ELSE 1
InFlight == {r \in PhaseObjs : step[r] \in {"applied", "migrated"}}

Return(result) ==
    /\ phase' = "idle"
    /\ outcome' = result
    /\ step' = [r \in Refs |-> "none"]
    /\ previous' = {} /\ pruneKinds' = {}
    /\ IF result = "error" THEN addon' = None /\ objs' = {} ELSE UNCHANGED <<addon, objs>>

preparedKindsOverwrite(a, S) == groupKinds(S)
\* What prepareInventory records before anything is applied.
preparedKinds(a, S) == inventory[a] \cup groupKinds(S)

\* loadAndApplyAddon and the start of Apply: the recorded kinds are read and
\* the union with the new ones is written before anything is applied.  The
\* manifest is a new revision: the live objects it lists hold a field that it
\* has dropped.
BeginApply(a, S) ==
    /\ phase = "idle"
    /\ stale' = stale \cup {r \in S : Live(r)}
    /\ \/ /\ addon' = a /\ objs' = S
          /\ writeInventory(a, preparedKinds(a, S))
          /\ previous' = inventory[a]
          /\ phase' = "crds"
          /\ step' = [r \in Refs |-> IF r \in S THEN "pending" ELSE "none"]
          /\ outcome' = "none"
          /\ UNCHANGED pruneKinds
       \/ \* reading or writing the inventory failed
          /\ \/ writeInventory(a, preparedKinds(a, S))
             \/ UNCHANGED <<label, manager, established, terminating, inventory>>
          /\ Return("error")

Advance(r, s) ==
    /\ step' = [step EXCEPT ![r] = s]
    /\ UNCHANGED <<phase, addon, objs, previous, pruneKinds, outcome>>

\* applyOne: the first request.  An object that "kubectl apply" does not own
\* fields of is done, the others have their managed fields migrated.
ApplyFirst(r) ==
    /\ r \in PhaseObjs /\ step[r] = "pending"
    /\ Cardinality(InFlight) < Limit
    /\ \/ /\ ServerSideApply(r)
          /\ Advance(r, IF manager'[r] = "kubeone" THEN "done" ELSE "applied")
       \/ /\ ServerSideApply(r) \/ UNCHANGED cluster
          /\ Advance(r, "failed")

\* applyOne: the patch of migrateClientSideApply; the object may have been
\* deleted meanwhile.
MigrateClientSideApply(r) ==
    /\ r \in PhaseObjs /\ step[r] = "applied"
    /\ \/ /\ Live(r)
          /\ manager' = [manager EXCEPT ![r] = "kubeone"]
          /\ UNCHANGED <<label, stale, established, terminating, inventory>>
          /\ \/ Advance(r, "migrated")
             \/ Advance(r, "failed")
       \/ UNCHANGED cluster /\ Advance(r, "failed")

\* applyOne: the second request, which drops the fields just taken over.
ApplyAgain(r) ==
    /\ r \in PhaseObjs /\ step[r] = "migrated"
    /\ \/ ServerSideApply(r) /\ Advance(r, "done")
       \/ /\ ServerSideApply(r) \/ UNCHANGED cluster
          /\ Advance(r, "failed")

pruneGVKsOfManifest(lookupFailed) == DefaultPruneTypes \cup (groupKinds(objs) \ {CRDKind})
\* pruneGVKs: the defaults, the kinds of objs, and the recorded kinds that are
\* still served; a recorded kind whose lookup fails is skipped as well.
pruneGVKs(lookupFailed) ==
    LET seen == DefaultPruneTypes \cup (groupKinds(objs) \ {CRDKind})
    IN seen \cup {k \in previous \ (seen \cup {CRDKind}) : Served(k) /\ k \notin lookupFailed}

\* The end of applyPhase: wait for all of its requests, then fail or go on.
EndPhase ==
    /\ phase \in {"crds", "namespaces", "rest"}
    /\ \A r \in PhaseObjs : step[r] \in {"done", "failed"}
    /\ IF \E r \in PhaseObjs : step[r] = "failed"
       THEN Return("error")
       ELSE /\ phase' = IF phase = "crds" THEN "waitForCRDs"
                        ELSE IF phase = "namespaces" THEN "rest" ELSE "prune"
            /\ IF phase = "rest"
               THEN \E lookupFailed \in IF FlakyDiscovery THEN SUBSET previous ELSE {{}} :
                        pruneKinds' = pruneGVKs(lookupFailed)
               ELSE UNCHANGED pruneKinds
            /\ UNCHANGED <<addon, objs, previous, step, outcome>>
    /\ UNCHANGED cluster

CRDsExist(S) == \A r \in S : Live(r)
CRDsReadyCondition(S) == \A r \in S : Live(r) /\ r \in established

\* waitForCRDs: polls until all CRDs of the manifest are established; a failing
\* read or the timeout ends Apply.
WaitForCRDs ==
    /\ phase = "waitForCRDs"
    /\ \/ /\ CRDsReadyCondition(CRDs(objs))
          /\ phase' = "namespaces"
          /\ UNCHANGED <<addon, objs, previous, step, pruneKinds, outcome>>
       \/ CRDs(objs) # {} /\ Return("error")
    /\ UNCHANGED cluster

StaleOfAnyAddon == {r \in Refs : /\ Live(r) /\ KindOf[r] \in pruneKinds
                                 /\ r \notin objs /\ r \notin terminating
                                 /\ r \notin Protected}
\* What the listings of prune return and its guards let through.
Stale == {r \in Refs : /\ label[r] = addon
                       /\ KindOf[r] \in pruneKinds
                       /\ r \notin objs /\ r \notin terminating
                       /\ r \notin Protected}

Prune(r) ==
    /\ phase = "prune" /\ r \in Stale
    /\ \/ deleteObject(r) /\ UNCHANGED call
       \/ (deleteObject(r) \/ UNCHANGED cluster) /\ Return("error")

EndPrune ==
    /\ phase = "prune"
    /\ \/ /\ Stale = {}
          /\ phase' = "finalizeInventory"
          /\ UNCHANGED <<addon, objs, previous, step, pruneKinds, outcome>>
       \/ Return("error")    \* a listing failed
    /\ UNCHANGED cluster

FinalizeInventory ==
    /\ phase = "finalizeInventory"
    /\ \/ Return("applied") /\ writeInventory(addon, groupKinds(objs)) /\ UNCHANGED stale
       \/ /\ Return("error")
          /\ \/ writeInventory(addon, groupKinds(objs)) /\ UNCHANGED stale
             \/ UNCHANGED cluster

-----------------------------------------------------------------------------
(* Delete *)

\* DeleteAddonByName documents that the manifest of the addon has to be kept.
BeginDelete(a, S) ==
    /\ phase = "idle"
    /\ KeepManifest => \A r \in Refs : label[r] = a => r \in S
    /\ addon' = a /\ objs' = S
    /\ phase' = "delete" /\ outcome' = "none"
    /\ step' = [r \in Refs |-> IF r \in S THEN "pending" ELSE "none"]
    /\ UNCHANGED <<previous, pruneKinds>> /\ UNCHANGED cluster

applyPriority(r) == CASE KindOf[r] = CRDKind -> 0
                      [] KindOf[r] = NamespaceKind -> 1
                      [] OTHER -> 2

DeleteOneIgnoringErrors(r) ==
    /\ phase = "delete" /\ step[r] = "pending"
    /\ \A q \in objs : step[q] = "pending" => applyPriority(q) <= applyPriority(r)
    /\ (label[r] = addon /\ deleteObject(r)) \/ UNCHANGED cluster
    /\ Advance(r, "done")

\* One round of Delete's loop over sortForDelete(objs), which goes from the
\* highest priority to the lowest: objects that do not exist, whose type is not
\* served or that carry another addon's label are skipped.
DeleteOne(r) ==
    /\ phase = "delete" /\ step[r] = "pending"
    /\ \A q \in objs : step[q] = "pending" => applyPriority(q) <= applyPriority(r)
    /\ \/ /\ label[r] = addon
          /\ deleteObject(r)
          /\ Advance(r, "done")
       \/ /\ label[r] # addon
          /\ UNCHANGED cluster
          /\ Advance(r, "done")
       \/ /\ (label[r] = addon /\ deleteObject(r)) \/ UNCHANGED cluster
          /\ Return("error")

EndDelete ==
    /\ phase = "delete"
    /\ \A r \in objs : step[r] = "done"
    /\ phase' = "deleteInventory"
    /\ UNCHANGED <<addon, objs, previous, step, pruneKinds, outcome>> /\ UNCHANGED cluster

DeleteInventory ==
    /\ phase = "deleteInventory"
    /\ \/ Return("deleted") /\ writeInventory(addon, {}) /\ UNCHANGED stale
       \/ /\ Return("error")
          /\ \/ writeInventory(addon, {}) /\ UNCHANGED stale
             \/ UNCHANGED cluster

\* The process is killed: what it held in memory is gone.
Crash ==
    /\ phase # "idle"
    /\ Return("error")
    /\ UNCHANGED cluster

-----------------------------------------------------------------------------
\* Objects of an earlier version that used "kubectl apply" may exist.
Init ==
    /\ \E L \in Legacy : \E owner \in [L -> Addons] :
          /\ \A r \in L : Parents(r) \subseteq L
          /\ label = [r \in Refs |-> IF r \in L THEN owner[r] ELSE None]
          /\ established = CRDs(L)
          /\ manager = [r \in Refs |-> IF r \in L THEN "kubectl" ELSE "kubeone"]
    /\ stale = {} /\ terminating = {}
    /\ inventory = [a \in Addons |-> {}]
    /\ phase = "idle" /\ addon = None /\ objs = {} /\ previous = {}
    /\ step = [r \in Refs |-> "none"] /\ pruneKinds = {} /\ outcome = "none"

ApplyStep ==
    \/ \E a \in Addons, S \in Manifests : BeginApply(a, S)
    \/ \E r \in Refs : ApplyFirst(r) \/ MigrateClientSideApply(r) \/ ApplyAgain(r) \/ Prune(r)
    \/ EndPhase \/ WaitForCRDs \/ EndPrune \/ FinalizeInventory

DeleteStep ==
    \/ \E a \in Addons, S \in Manifests : BeginDelete(a, S)
    \/ \E r \in Refs : DeleteOne(r)
    \/ EndDelete \/ DeleteInventory

Environment == \E r \in Refs : Establish(r) \/ Finalized(r)

Next == ApplyStep \/ DeleteStep \/ Crash \/ Environment

Spec == Init /\ [][Next]_vars

-----------------------------------------------------------------------------
(* Correctness *)

\* Whatever fails and wherever the process stops, every object Apply has put
\* into the cluster is of a kind that the next Apply of its addon searches for
\* stale objects (prepareInventory: "If this Apply fails midway, the next one
\* still prunes every kind that may have objects left behind").  CRDs are never
\* pruned implicitly.
InventoryCovers ==
    \A r \in Refs :
        /\ Live(r) /\ r \notin terminating
        /\ manager[r] # "kubectl" /\ KindOf[r] # CRDKind
        => KindOf[r] \in DefaultPruneTypes \cup inventory[label[r]]

\* An Apply that returns no error leaves the addon as its manifest says: no
\* object of an earlier revision, interrupted runs included, no field that the
\* manifest has dropped, and every object whose CRD and Namespace come with the
\* manifest in place (objects that were already being deleted aside).
Converged ==
    outcome = "applied" =>
        /\ \A r \in Refs :
              /\ label[r] = addon /\ r \notin terminating \cup Protected
              /\ KindOf[r] # CRDKind
              /\ manager[r] # "kubectl" \/ KindOf[r] \in DefaultPruneTypes
              => r \in objs
        /\ \A r \in objs : r \notin stale
        /\ \A r \in objs :
              /\ Parents(r) \subseteq objs
              /\ ({r} \cup Parents(r)) \cap Finalizer = {}
              => label[r] = addon

\* What makes InventoryCovers inductive (InventoryInv).  A live object's CRD and Namespace are
\* live too; while Apply runs, the inventory is the union it has written; the
\* kinds it prunes leave no recorded kind out that has objects; when it is about
\* to overwrite the inventory, no object of a kind that will be dropped is left;
\* and Delete still has every object of the addon to do.
Closed ==
    \A r \in Refs : Live(r) =>
        \A p \in Parents(r) : Live(p) /\ (KindOf[p] = CRDKind => p \in established)
Prepared ==
    phase \in ApplyPhases => inventory[addon] = previous \cup groupKinds(objs)
PruneComplete ==
    phase = "prune" =>
        \A r \in Refs :
            /\ Live(r) /\ KindOf[r] # CRDKind
            /\ KindOf[r] \in previous \cup groupKinds(objs)
            => KindOf[r] \in pruneKinds
FinalizeReady ==
    phase = "finalizeInventory" =>
        \A r \in Refs :
            /\ label[r] = addon /\ r \notin terminating
            /\ manager[r] # "kubectl" /\ KindOf[r] # CRDKind
            => KindOf[r] \in DefaultPruneTypes \cup groupKinds(objs)
DeleteReady ==
    \A r \in Refs : label[r] = addon /\ r \notin terminating =>
        /\ phase = "delete" => r \in objs /\ step[r] = "pending"
        /\ phase # "deleteInventory"
        /\ outcome # "deleted"

Running == phase # "idle" => outcome = "none"
TakenOver == \A r \in Refs : step[r] \in {"applied", "migrated"} => manager[r] # "kubectl"

InventoryInv ==
    /\ TypeOK /\ Running /\ TakenOver /\ InventoryCovers /\ Closed /\ Prepared /\ PruneComplete
    /\ FinalizeReady /\ DeleteReady

\* The phases keep their promise: when the last one starts sending requests,
\* every CRD of the manifest is established and every Namespace of it exists, so
\* no object fails because of what the same manifest defines.
ParentsReady ==
    phase = "rest" =>
        \A r \in Rest(objs) : \A p \in Parents(r) \cap objs :
            p \notin Finalizer => Live(p) /\ (KindOf[p] = CRDKind => p \in established)

Deleted(r) == r \in terminating' \ terminating \/ (Live(r) /\ label'[r] = None)

\* What the applier deletes: by Delete an object of the manifest that carries
\* the addon's label, by Apply a labelled object that is not in the manifest,
\* no CRD, no protected Namespace, and only after every object of the manifest
\* has been applied ("pruning is skipped" when one fails).  All else disappears
\* with its CRD or Namespace or was being deleted before.
DeletionsJustified ==
    [][\A r \in Refs : Deleted(r) =>
         \/ r \in terminating
         \/ \E p \in Parents(r) : label'[p] = None
         \/ /\ label[r] = addon
            /\ \/ phase = "delete" /\ r \in objs
               \/ /\ phase = "prune" /\ r \notin objs
                  /\ KindOf[r] # CRDKind /\ r \notin Protected
                  /\ \A q \in objs : step[q] = "done"]_vars

\* The inventory is "deleted once all objects are gone" (DeleteOptions): when
\* Delete has returned without an error, nothing that Apply put into the cluster
\* for the addon is left.
NothingLeftAfterDelete ==
    outcome = "deleted" =>
        \A r \in Refs : label[r] = addon /\ manager[r] # "kubectl" => r \in terminating
=============================================================================
