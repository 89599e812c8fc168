\* A wildcard client: a resource deleted from the snapshot is never removed.
CONSTANTS
    Names = {a, b}
    Star = Star
    ClusterType = CDS
    EndpointType = EDS
    AddressType = ADS
    HealthInfoType = HEALTH
    DebugType = DEBUG
    Types = {CDS, EDS}
    TypeOrder <- MCTypeOrder
    NoWR = NoWR
    MaxReq = 3
    MaxConfig = 2
    WildcardClient = TRUE
    StarClient = FALSE
    PiggybackSubs = FALSE
    NackFirstClient = FALSE
    MaxReconnect = 0
SPECIFICATION Spec
SYMMETRY NameSymmetry
INVARIANT Converged
CHECK_DEADLOCK FALSE
