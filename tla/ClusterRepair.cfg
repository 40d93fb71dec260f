SPECIFICATION Spec
CONSTANTS
    Machines = {h1, h2, h3, h4, h5, m1, m2}
    InitialHosts = {h1, h2, h3, h4, h5}
    MinHosts = 3
    Worlds = {{"kill"}, {"kill", "recover"}}
    ChecksRing = TRUE
    OneAtATime = FALSE
SYMMETRY Symmetry
INVARIANTS QuorumKept
PROPERTIES RemovedAreDead 
