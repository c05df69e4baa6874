SPECIFICATION SideBySide
CONSTANTS
    d1 = d1
    Jobs = {j1, j2}
    Domains = {d1}
    Addresses <- MCAddresses
    Urls <- MCUrls
    NoHost = NoHost
    None = None
    MaxAttempts = 2
    Probes <- MCProbes
CHECK_DEADLOCK FALSE
INVARIANTS
    TypeOK
    OnlyPublicReached
    ReachedWasResolved
    Ipv4Judged
    NoSpecialAdmitted
PROPERTIES
    EveryJobCloses
    EmbeddingNeutral
