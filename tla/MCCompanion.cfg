SPECIFICATION MCSpec
CONSTANTS
    Devices = {d1, d2}
    Identities = {i1, i2}
    None = None
    Numbers = {n1, n2}
    CodeTTL = 1
    MaxActive = 2
    MaxTrusts = 1
    MaxTime = 2
    MaxIssued = 2
    MaxTokens = 3
    MaxStarts = 2
    Conns = {c1, c2}
    MaxRings = 1
    MaxPublish = 2
    MaxTrust = 1
    Clients = {a, b}
    NoClient = NoClient
    MaxID = 2
    MaxSession = 1
    MaxLease = 1
    MaxTyped = 1
    MaxWire = 1
    MaxBreaks = 1
    Providers = {p1}
    Boot = Boot
    MaxDefinitions = 1
    MaxPending = 1
    MaxRefs = 2
    Versions = {v1, v2}
    NumFiles = 2
    Platforms = {"launchagent"}
    MaxEdits = 1
    Sessions = {s1, s2}
    NoSession = NoSession
    Observers = {o1, o2}
    Capacity = 4
    MaxFrames = 3
    MaxObservers = 1
    Lengths = {1, 2}
    Modulus = 6
    MaxIngest = 5
INVARIANTS ServedIsReported NoLostWakeup LeaseIsAgreed SecretsAreKept InstallationIsWhole LossIsCounted
PROPERTY TrustIsEarned
SYMMETRY Symmetry
CHECK_DEADLOCK FALSE
