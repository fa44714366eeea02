SPECIFICATION Spec
CONSTANTS
  Target = {primary, standby}
  Primary = primary
  Interval = 3
  Timeout = 5
  Delay = 1
  MaxTasks = 2
  TaskCap = 2
  MaxMissed = 2
  NoReport = NoReport
INVARIANT StandbyNeverInTheWay
