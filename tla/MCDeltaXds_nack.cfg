\* A client that rejects a type before it ever requested it: the error
\* detail is recorded through a nil WatchedResource.
CONSTANTS
    Names = {a, b}
    Star = Star
    ClusterType = CDS
    EndpointType = EDS
    AddressType = ADS
    HealthInfoType = HEALTH
    DebugType = DEBUG
    Types = {CDS, EDS}
    TypeOrder <- MCTypeOrder
    NoWR = NoWR
    MaxReq = 3
    MaxConfig = 2
    WildcardClient = FALSE
    StarClient = FALSE
    PiggybackSubs = FALSE
    NackFirstClient = TRUE
    MaxReconnect = 0
SPECIFICATION Spec
SYMMETRY NameSymmetry
INVARIANT NackNeverFatal
CHECK_DEADLOCK FALSE
