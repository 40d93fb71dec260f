SPECIFICATION Spec
CONSTANTS
    Nil = Nil
    CIDRs <- MCCIDRs
    ToLower <- MCToLower
    SpecFields <- MCSpecFields
    DNSNames <- MCDNSNames
    LabelNames <- MCLabelNames
    IPs = {"1.1"}
    RegistryHost <- MCRegistryHost
    Worlds <- MCWorlds
CHECK_DEADLOCK FALSE
INVARIANTS  UserWins
PROPERTIES RedefaultingIsStable
