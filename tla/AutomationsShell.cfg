SPECIFICATION Spec
CONSTANTS
  a1 = a1
  a2 = a2
  Automation = {a1, a2}
  Times <- TwoSchedules
  MaxTime = 2
  Tolerance = 0
  Run = {1, 2}
  MaxConcurrent = 1
  MaxUserRuns = 1
  MaxEdits = 0
  MaxFaults = 1
  None = None
INVARIANT ShellsTimed
CHECK_DEADLOCK FALSE
