CONSTANTS
  MonitorRuns = {m1, m2}
  TaskPorts = {80}
  MaxLoad = 1
  MaxPortEdits = 1
SPECIFICATION MonitorSpec
INVARIANT ActiveRunsAreSampled
CHECK_DEADLOCK FALSE
