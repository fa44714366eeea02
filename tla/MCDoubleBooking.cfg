SPECIFICATION Spec
CONSTANTS
  w1 = w1
  w2 = w2
  gpu = gpu
  cpu = cpu
  Worker = {w1}
  EmptyID = EmptyID
  NoWorker = NoWorker
  Tag = {gpu}
  Request = {r1, r2}
  Heartbeat <- FreeSlotBeats
  Snapshot = {}
  SuspiciousThreshold = 1
  OfflineThreshold = 2
  TimeoutCheckInterval = 1
  SnapshotLag = 0
  ScheduleRequest <- HastyBodies
  SpreadPercent = 5
  MaxScheduleWait = 2
  Millisecond = 4
  DurationHalfRange = 16
SYMMETRY Symmetry
INVARIANT FullOnlyByHeartbeat
