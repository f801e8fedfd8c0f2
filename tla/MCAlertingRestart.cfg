CONSTANTS
  NumAlarms = 1
  r1 = r1
  r2 = r2
  monitor = monitor
  Report <- MCOneReport
  Monitor = monitor
  MaxRaises = 1
  MaxTroubles = 1
SPECIFICATION Spec
PROPERTY ResolvedAfterRecovery
