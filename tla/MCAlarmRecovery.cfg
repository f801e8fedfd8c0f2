SPECIFICATION Spec
CONSTANTS
  NoRule = "none"
  Rule <- MCRule
  Parent <- MCParent
  Op <- MCOp
  Threshold <- MCThreshold
  ForDuration <- MCForDuration
  Windows <- MCWindows
  RecoverN = 2
  SuppressWindow = 2
  Value = {0, 1, 2}
  MaxTime = 3
PROPERTY ConsecutiveRecovery
