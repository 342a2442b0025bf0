SPECIFICATION FirstSetupSpec
CONSTANTS
    Credentials = {n1, n2}
    None = None
    QueueCapacity = 2
    Requests = {"submit_wifi"}
    MaxRequests = 2
    MaxFaults = 0
    MaxEvents = 2
INVARIANT CommittedWasValidated
CHECK_DEADLOCK FALSE
