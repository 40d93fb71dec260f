SPECIFICATION FairSpec
CONSTANTS
    Tasks = {t1, t2}
    Tunnels = {k1}
    Probes = {}
    MaxFaults = 3
CHECK_DEADLOCK FALSE
INVARIANTS OneOpen 
PROPERTIES Serves
