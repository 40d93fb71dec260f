SPECIFICATION FairSpec
CONSTANTS
    Machines = {h1, h2, h3, h4, m1, m2}
    InitialHosts = {h1, h2, h3, h4}
    MinHosts = 3
    Worlds = {{}}
    ChecksRing = TRUE
    OneAtATime = TRUE
PROPERTIES Heals 
