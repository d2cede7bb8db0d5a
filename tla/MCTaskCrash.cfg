CONSTANTS
  p1 = p1
  k1 = k1
  Runs = {r1, r2}
  NoRun = NoRun
  Projects = {p1}
  Tasks = {t1}
  ProjectOf <- MCProjectOf
  Definitions = {d1, d2}
  Absent = Absent
  NoTask = NoTask
  Approvals = {a1}
  NoCause = NoCause
  Kinds = {k1}
  KindOf <- MCKindOf
  Slots <- MCSlots
  NoSlot = NoSlot
  MaxConcurrency = 1
  TerminateMayFail = FALSE
  WritesMayFail = FALSE
  MaxCrashes = 1
SPECIFICATION Spec
SYMMETRY Symmetry
INVARIANTS
  ActiveWorkHasProject
  ConsentIsSpentOnce
PROPERTIES
  ImplementsLifecycle
CHECK_DEADLOCK FALSE
