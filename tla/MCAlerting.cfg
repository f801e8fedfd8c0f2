CONSTANTS
  NumAlarms = 1
  r1 = r1
  r2 = r2
  monitor = monitor
  Report <- MCReport
  Monitor = monitor
  MaxRaises = 2
  MaxTroubles = 2
SPECIFICATION Spec
INVARIANTS AnnouncedOnce RowFollowsEngine OrphanOnlyByRace
PROPERTIES OfflineSettles OfflineNoticed
