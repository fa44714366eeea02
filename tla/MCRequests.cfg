SPECIFICATION MCSpec
CONSTANTS
  w1 = w1
  w2 = w2
  gpu = gpu
  cpu = cpu
  Worker = {w1, w2}
  EmptyID = EmptyID
  NoWorker = NoWorker
  Tag = {gpu, cpu}
  Request = {r1, r2}
  Heartbeat <- AllBeats
  Snapshot <- OneSlotSnapshots
  SuspiciousThreshold = 1
  OfflineThreshold = 2
  TimeoutCheckInterval = 1
  SnapshotLag = 1
  ScheduleRequest <- AllBodies
  SpreadPercent = 5
  MaxScheduleWait = 2
  Millisecond = 4
  DurationHalfRange = 16
SYMMETRY Symmetry
INVARIANTS TypeOK CapacityAccounted NoLostWakeup BudgetHonoured
PROPERTIES AttemptDecidesRight ImplementsStateManager
