SPECIFICATION FairSpec
CONSTANTS
  w1 = w1
  w2 = w2
  gpu = gpu
  cpu = cpu
  Worker = {w1}
  EmptyID = EmptyID
  NoWorker = NoWorker
  Tag = {gpu, cpu}
  Request = {r1, r2}
  Heartbeat <- OneSlotBeats
  Snapshot = {}
  SuspiciousThreshold = 1
  OfflineThreshold = 2
  TimeoutCheckInterval = 1
  SnapshotLag = 0
  ScheduleRequest <- PatientBodies
  SpreadPercent = 5
  MaxScheduleWait = 1
  Millisecond = 4
  DurationHalfRange = 16
PROPERTIES CapacityReachesWaiter EveryRequestAnswered
