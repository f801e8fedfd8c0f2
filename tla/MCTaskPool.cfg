SPECIFICATION Spec
CONSTANTS
  p1 = p1
  p2 = p2
  p3 = p3
  t1 = t1
  t2 = t2
  NoProc = NoProc
  Proc <- MCProc
  Target <- MCTarget
  Concurrency = 2
  RetryThreshold = 2
  BackoffBase = 1
  BackoffMax = 2
  MaxFails = 3
SYMMETRY MCSymmetry
INVARIANTS
  NoRunInBackoff
  SpacedRetries
PROPERTY ImplementsAccess
