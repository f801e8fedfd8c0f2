SPECIFICATION FairSpec
CONSTANTS
  MaxReports = 3
  MaxStreams = 2
  MaxFailures = 0
  MaxEntries = 2
  ReplayBatch = 2
  Window = 2
  Faults = {"late", "enqueue"}
PROPERTIES OldestFirstWhenServing ReportsSettle
