\* Wildcard clients, clients that subscribe "*" and clients that reject a
\* type they never requested, with one reconnect: the loops of
\* deltaWatchedResources agree with the set form on "*", the forced EDS
\* push still never leaves the client warming, and InitialResourceVersions
\* resynchronise the client on the new stream.
CONSTANTS
    Names = {a, b}
    Star = Star
    ClusterType = CDS
    EndpointType = EDS
    AddressType = ADS
    HealthInfoType = HEALTH
    DebugType = DEBUG
    Types = {CDS, EDS}
    TypeOrder <- MCTypeOrder
    NoWR = NoWR
    MaxReq = 3
    MaxConfig = 1
    WildcardClient = TRUE
    StarClient = TRUE
    PiggybackSubs = FALSE
    NackFirstClient = TRUE
    MaxReconnect = 1
SPECIFICATION Spec
SYMMETRY NameSymmetry
INVARIANTS
    LoopAgreesWithSetForm
    NoWarmingStall
    ReconnectResync
CHECK_DEADLOCK FALSE
