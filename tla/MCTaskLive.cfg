CONSTANTS
  p1 = p1
  k1 = k1
  Runs = {r1, r2}
  NoRun = NoRun
  Projects = {p1}
  Tasks = {t1}
  ProjectOf <- MCProjectOf
  Definitions = {d1}
  Absent = Absent
  NoTask = NoTask
  Approvals = {a1}
  NoCause = NoCause
  Kinds = {k1}
  KindOf <- MCKindOf
  Slots <- MCSlots
  NoSlot = NoSlot
  MaxConcurrency = 1
  TerminateMayFail = FALSE
  WritesMayFail = FALSE
  MaxCrashes = 0
SPECIFICATION Spec
PROPERTIES
  RunsSettle
  ApprovalsSettle
CHECK_DEADLOCK FALSE
