SPECIFICATION Spec
CONSTANTS
  MaxReports = 3
  MaxStreams = 2
  MaxFailures = 1
  MaxEntries = 1
  ReplayBatch = 2
  Window = 1
  Faults = {"peek", "ack", "dedup"}
INVARIANTS
  SpoolBounded
  SendsSerialised
PROPERTY ImplementsDelivery
