SPECIFICATION Spec
CONSTANTS
    LeaseTimeout = 1
    CommandDepth = 2
    MaxTransport = 2
    MaxEpoch = 3
    MaxRequest = 1
    MaxOther = 0
INVARIANT LeaseIsTransport
CHECK_DEADLOCK FALSE
