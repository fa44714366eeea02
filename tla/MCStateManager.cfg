SPECIFICATION FairSMSpec
CONSTANTS
  w1 = w1
  w2 = w2
  gpu = gpu
  cpu = cpu
  Worker = {w1, w2}
  EmptyID = EmptyID
  Tag = {gpu, cpu}
  Request = {r1}
  Heartbeat <- RetaggingBeats
  Snapshot <- RetaggingSnapshots
  SuspiciousThreshold = 2
  OfflineThreshold = 4
  TimeoutCheckInterval = 2
  SnapshotLag = 2
INVARIANTS SMTypeOK TagIndexExact DemotedMeansStale DetectionBound StatsAddUp
PROPERTY SilentWorkerDropped
