SPECIFICATION MCSpec
CONSTANTS
    Credentials = {n1}
    None = None
    QueueCapacity = 1
    Requests = {"boot", "submit_wifi", "pair_companion", "scan", "temperature", "edit_companion"}
    MaxRequests = 2
    MaxFaults = 1
    MaxEvents = 1
    LeaseTimeout = 1
    CommandDepth = 2
    MaxTransport = 3
    MaxEpoch = 4
    MaxRequest = 2
    MaxOther = 2
INVARIANT LeaseOutlivesOnce
PROPERTIES FenceRises SetupCloses BootIsHonoured ValidationEnds
CHECK_DEADLOCK FALSE
