SPECIFICATION FairSpec
CONSTANTS
  p1 = p1
  p2 = p2
  Producer <- MCProducer
  BufferSize = 2
  MaxBatch = 2
  MaxSamples = 3
CHECK_DEADLOCK FALSE
INVARIANTS
  InOrder
  StopFlushes
PROPERTIES
  AcceptedIsWritten
  IngestReturns
