SPECIFICATION MCSpec
CONSTANTS
    Payload = {p1, p2}
    MaxGeneration = 3
    None = None
    Corrupt = Corrupt
    Unsupported = Unsupported
    Legacy = Legacy
    WriteFaults = {"lost", "applied", "corrupt"}
    MaxDamage = 1
    NoTransaction = NoTransaction
    Length = 2
    Offers <- MCOffers
    Chunks <- MCChunks
    MaxVersion = 1
    CommandDepth = 1
    ResultDepth = 1
    MaxEpoch = 2
    MaxOffer = 2
    Profile = {c1, c2}
    NoProfile = NoProfile
    NoDocument = NoDocument
    MaxProfiles = 2
    OfflineWindow = 0
    QueueCapacity = 2
    MaxEdits = 4
    MaxTransport = 3
SYMMETRY Symmetry
INVARIANTS CommitIsAtomic OnlyPublishedRecovers MemoryMatchesFlash AuthorityIsHeard
PROPERTIES UpdateIsSafe TransportsAreApart HeartbeatRespectsUser FreshIsLive
CHECK_DEADLOCK FALSE
