\* A client that carries subscription changes on ACKs: a change on an ACK crossing a push is dropped.
CONSTANTS
    Names = {a, b}
    Star = Star
    ClusterType = CDS
    EndpointType = EDS
    AddressType = ADS
    HealthInfoType = HEALTH
    DebugType = DEBUG
    Types = {CDS, EDS}
    TypeOrder <- MCTypeOrder
    NoWR = NoWR
    MaxReq = 3
    MaxConfig = 2
    WildcardClient = FALSE
    StarClient = FALSE
    PiggybackSubs = TRUE
    NackFirstClient = FALSE
    MaxReconnect = 0
SPECIFICATION Spec
SYMMETRY NameSymmetry
INVARIANT SubscriptionAgreement
CHECK_DEADLOCK FALSE
