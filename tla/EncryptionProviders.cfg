SPECIFICATION Spec
CONSTANTS
    Nodes = {n1, n2, n3}
    Secrets = {s1, s2}
    MaxKey = 4
    LogsMatch = TRUE
    Worlds = {{"command"}, {"restart"}, {"command", "kill"}, {"restart", "kill"}}
    CarefulStart = TRUE
SYMMETRY Symmetry
INVARIANTS NoKeyLost Converged
