SPECIFICATION Spec
CONSTANTS
    w1 = w1
    w2 = w2
    s1 = s1
    c1 = c1
    c2 = c2
    Workers = {w1, w2}
    Services = {s1}
    Claims = {c1, c2}
    Retained = {c2}
    Machines = 2
    Edits = 3
    Retries = 1
    Worlds <- MCWorlds
INVARIANTS    TeardownClean
PROPERTIES ScaleKept 
