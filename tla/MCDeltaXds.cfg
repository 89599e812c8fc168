\* An explicit-subscription client that sends subscription changes without
\* a nonce and may break the stream once: the server's view and the
\* client's converge, and EDS never stays warming.
CONSTANTS
    Names = {a, b}
    Star = Star
    ClusterType = CDS
    EndpointType = EDS
    AddressType = ADS
    HealthInfoType = HEALTH
    DebugType = DEBUG
    Types = {CDS, EDS}
    TypeOrder <- MCTypeOrder
    NoWR = NoWR
    MaxReq = 3
    MaxConfig = 2
    WildcardClient = FALSE
    StarClient = FALSE
    PiggybackSubs = FALSE
    NackFirstClient = FALSE
    MaxReconnect = 1
SPECIFICATION Spec
SYMMETRY NameSymmetry
INVARIANTS
    TypeOK
    Converged
    SubscriptionAgreement
    NoWarmingStall
CHECK_DEADLOCK FALSE
