\* A client that subscribes and unsubscribes "*": the server's Wildcard flag never follows.
CONSTANTS
    Names = {a, b}
    Star = Star
    ClusterType = CDS
    EndpointType = EDS
    AddressType = ADS
    HealthInfoType = HEALTH
    DebugType = DEBUG
    Types = {CDS, EDS}
    TypeOrder <- MCTypeOrder
    NoWR = NoWR
    MaxReq = 3
    MaxConfig = 2
    WildcardClient = FALSE
    StarClient = TRUE
    PiggybackSubs = FALSE
    NackFirstClient = FALSE
    MaxReconnect = 0
SPECIFICATION Spec
SYMMETRY NameSymmetry
INVARIANT SubscriptionAgreement
CHECK_DEADLOCK FALSE
