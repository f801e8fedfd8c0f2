CONSTANTS
  FirstTick = 6
  MaxTicks = 14
  Bucket = 2
  RawWindow = 4
  AggWindow = 6
  RawKeep = 6
  AggKeep = 8
  LateWindow = 3
  RoundTicks = 1
  MaxRaw = 4
  MaxTSFaults = 0
SPECIFICATION RollupSpec
INVARIANT OnePointPerBucket
CHECK_DEADLOCK FALSE
