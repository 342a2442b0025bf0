SPECIFICATION Spec
CONSTANTS
    Contents = {x, y}
    FlashInterval = 2
    OfflineLimit = 2
    MaxTime = 4
    MaxFaults = 2
    MaxSetBacks = 0
    MaxRestarts = 0
INVARIANT AttemptsAreLimited
CHECK_DEADLOCK FALSE
