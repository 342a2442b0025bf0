CONSTANTS
  Profile = {p1, p2}
  NoProfile = NoProfile
  NoDocument = NoDocument
  MaxProfiles = 2
  OfflineWindow = 0
  QueueCapacity = 2
  MaxEdits = 4
  MaxTransport = 4
SPECIFICATION LinkSpec
PROPERTY EditCancelsDecision
CHECK_DEADLOCK FALSE
