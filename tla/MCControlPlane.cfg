CONSTANTS
  a1 = a1 a2 = a2 c1 = c1 c2 = c2 w1 = w1 w2 = w2 b1 = b1 b2 = b2
  k1 = k1 k2 = k2 p1 = p1 v1 = v1 v2 = v2 m1 = m1 u1 = u1 t1 = t1 r1 = r1 r2 = r2
  Alert <- MCAlerts Critical <- MCCritical Channels <- MCChannels Strict <- MCStrict
  Worker <- MCWorkers QueueLimit = 1 Retries = 2
  Client <- MCClients Broadcast <- MCBroadcasts ClientBuffer = 1
  Command <- MCCommands MaxCrashes = 1
  MaxBatches = 2 MaxPosts = 3 MaxReportCrashes = 1 FlushLimit = 1
  Part <- MCParts Serial <- MCSerials NoPart = NoPart MaxRounds = 6
  Machine <- MCMachines NoUUID <- MCNoUUID MaxUses = 2 MaxAttempts = 3 MaxEnrolFaults = 1
  User <- MCUsers APIToken <- MCTokens APICall <- MCCalls LoginMaxFail = 2 MaxChanges = 1
  FirstTick = 6 MaxTicks = 14 Bucket = 2 RawWindow = 4 AggWindow = 6 RawKeep = 5 AggKeep = 6 LateWindow = 3 RoundTicks = 0 MaxRaw = 3 MaxTSFaults = 1
  n1 = n1 n2 = n2 n3 = n3 n4 = n4
  Agent <- MCAgents Source = n1 Probe <- MCProbes HopCost = 1 HopLimit = 2 MaxProbes = 4 MaxComputes = 1
  Curve <- MCCurve Temp <- MCTemps Speed <- MCSpeeds MinInterval = 2 MinDelta = 2 MinSpeed = 3 MaxSpeed = 8 MaxFanSteps = 6 MaxLostFans = 1
  NoRule = "none" Rule <- MCRule Parent <- MCParent Op <- MCOp Threshold <- MCThreshold ForDuration <- MCForDuration
  Windows <- MCWindows RecoverN = 2 SuppressWindow = 2 Value = {0, 1, 2} MaxTime = 3
  s1 = s1 s2 = s2 s3 = s3 o1 = o1 o2 = o2
  Stream <- MCStreams Order <- MCOrders NoStream = NoStream SinkSize = 1
  i1 = i1 i2 = i2 i3 = i3
  Instance <- MCInstances Server <- MCServers Files <- MCFiles NoInstance = NoInstance NoScript = "none"
  Moment <- MCTime Word <- MCWords Bytes = 3 Batches <- MCBatches Window = 3 MaxDamages = 1
  g1 = g1 g2 = g2 h1 = h1 h2 = h2
  Template <- MCTemplates Metric <- MCMetrics MetricOf <- MCMetricOf Builtin <- MCBuiltin
  Host <- MCHosts Hostname <- MCHostnames NameOf <- MCNameOf Duration = {0, 2} NoRow = NoRow MaxEdits = 2
SPECIFICATION PlaneSpec
INVARIANT NoMissedAlarm
INVARIANT NotifyStateTruthful
INVARIANT NothingMissed
INVARIANT AuditTellsTheTruth
INVARIANT KeptOrMarked
INVARIANT RemovalDebounced
INVARIANT IdentityConsistent
INVARIANT AccessCurrent
INVARIANT RollupComplete
INVARIANT RoutesOptimal
INVARIANT FansInPlace
INVARIANT NoDeadSink
INVARIANT SchemaComplete
INVARIANT PidNamesTheServer
INVARIANT StoredAsWritten
INVARIANT RulesAsConfigured
CHECK_DEADLOCK FALSE
PROPERTY RaisedAfterDuration
PROPERTY RaisedWithoutParent
PROPERTY RecoveryDebounced
PROPERTY ImplementsLife
