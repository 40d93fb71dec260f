SPECIFICATION Spec
CONSTANTS
    Nodes = {n1, n2}
    Secrets = {s1}
    MaxKey = 3
    LogsMatch = TRUE
    Worlds = {{"kill"}}
    CarefulStart = FALSE
SYMMETRY Symmetry
INVARIANTS NoKeyLost
