SPECIFICATION Spec
CONSTANTS
  MaxReports = 2
  MaxStreams = 2
  MaxFailures = 0
  MaxEntries = 2
  ReplayBatch = 2
  Window = 2
  Faults = {}
INVARIANT AtLeastOnce
