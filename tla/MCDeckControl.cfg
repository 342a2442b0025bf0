SPECIFICATION MCSpec
CONSTANTS
    NoBlock = NoBlock
    LeaseTimeout = 1
    CommandDepth = 2
    InputDepth = 1
    MaxEpoch = 2
    MaxRevoke = 1
    MaxSession = 2
    MaxRequest = 2
    Offsets = {0, 1}
    Default = 0
    Empty = Empty
    MaxInputs = 2
    MaxRefusals = 1
    Areas = {1, 2}
    MaxFlushes = 3
    MaxFailures = 2
    Blocks = {1, 2}
    Sinks = {"usb", "wss", "history"}
    Capacity <- MCCapacity
    Retained = "history"
    Ingress = 1
    BlockWrites = 1
    MaxSessions = 2
    MaxBlocks = 2
    MaxPathFailures = 1
INVARIANTS
    AuthorisedIsOwner PinFollowsOwner RevokedIsSilent NewestIsShown CallbacksAreSafe
    FramesAreWhole OutputIsSafe
PROPERTIES BootWins ExpiredLeaseEnds BootRevokesKeys NoSilentHole
CHECK_DEADLOCK FALSE
