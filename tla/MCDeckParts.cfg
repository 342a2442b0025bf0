SPECIFICATION MCSpec
CONSTANTS
    Contents = {x, y}
    FlashInterval = 2
    OfflineLimit = 2
    MaxTime = 3
    MaxFaults = 1
    MaxSetBacks = 1
    MaxRestarts = 1
    Payload = {p1, p2}
    None = None
    Corrupt = Corrupt
    Unsupported = Unsupported
    Legacy = Legacy
    WriteFaults = {"lost", "applied"}
    MaxDamage = 0
    MaxGeneration = 3
    Credentials = {n1, n2}
    QueueCapacity = 2
    Requests = {"submit_wifi", "pair_companion", "clear_wifi"}
    MaxRequests = 2
    MaxSetupFaults = 1
    MaxEvents = 1
INVARIANTS FlashIsSpared DebtsAreRemembered
PROPERTIES  ImplementsRegister
SYMMETRY Symmetry
CHECK_DEADLOCK FALSE
