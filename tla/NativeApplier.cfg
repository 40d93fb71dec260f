SPECIFICATION Spec
CONSTANTS
    Addons = {a, b}
    Refs <- MCRefs
    Kinds <- MCKinds
    KindOf <- MCKindOf
    CRDKind = "CRD"
    NamespaceKind = "Namespace"
    CRDOf <- MCCRDOf
    NamespaceOf <- MCNamespaceOf
    None = "none"
    DefaultPruneTypes <- MCDefaultPruneTypes
    Protected = {}
    Finalizer = {"widget"}
    Manifests <- MCManifests
    Legacy <- MCLegacy
    Concurrency = 2
    KeepManifest = TRUE
    FlakyDiscovery = FALSE
SYMMETRY Symmetry
INVARIANTS InventoryCovers Converged ParentsReady NothingLeftAfterDelete
PROPERTIES DeletionsJustified
