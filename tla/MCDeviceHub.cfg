SPECIFICATION FairSpec
CONSTANTS
    Devices = {d1}
    Conns = {c1, c2}
    None = None
    MaxRings = 1
    MaxPublish = 2
    MaxTrust = 2
PROPERTIES RevokedEnds CloseDrains
CHECK_DEADLOCK FALSE
