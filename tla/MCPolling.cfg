SPECIFICATION PollSpec
CONSTANTS
  p1 = p1
  p2 = p2
  t1 = t1
  t2 = t2
  h1 = h1
  s1 = s1
  s2 = s2
  NoProc = NoProc
  Proc <- MCProc
  Target <- MCTarget
  Concurrency = 2
  RetryThreshold = 2
  BackoffBase = 1
  BackoffMax = 1
  MaxFails = 2
  BMCHost <- MCHosts
  Syncer <- MCSyncers
  Interval = 1
  IdleSleep = 2
  MaxRequests = 2
 
PROPERTIES
  
  PolledAgain
