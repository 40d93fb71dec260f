SPECIFICATION FairSpec
CONSTANTS
    NumControlPlane = 3
    NumWorkers = 1
    MaxVersion = 4
    FirstListed = 2
    MigrationVersion = 2
    Processes = {p1}
    Flags = {TRUE, FALSE}
    Retargets = TRUE
    Reelects = FALSE
    MaxFaults = 3
INVARIANTS SkewKept 
PROPERTIES Completed 
