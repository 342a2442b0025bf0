CONSTANTS
  p1 = p1
  p2 = p2
  p3 = p3
  none = none
  Profile <- MCProfile
  NoProfile <- none
  MaxProfiles = 3
  OfflineWindow = 2
  Utc = {0}
  Priority = {0, 1}
  MaxGeneration = 2
SPECIFICATION Spec
INVARIANT RoundInOrder
PROPERTIES Sticky EventuallyOnline
