SPECIFICATION FairSpec
CONSTANTS
    N = 3
    Zone <- MCZone
    Worlds = {{}, {"userEndpoint"}, {"lastMember"}}
    Taken = {{}, {"zoneB"}, {"healthCheck"}}
    MaxEvents = 2
INVARIANTS JoinsFromOutside
PROPERTIES NeverCutsOff AllBehind NothingLeft  Recovers
