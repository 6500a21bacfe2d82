CONSTANTS
    AddrWidth = 3
    MaxSegments = 2
    Confs <- MCConfs
    Segments <- MCSegments
SPECIFICATION TableSpec
CHECK_DEADLOCK FALSE
INVARIANTS
    AddIsExact
    CacheabilityCoherent
    RoutesToTarget
    LocalityAgrees
    IdentifiesTarget
