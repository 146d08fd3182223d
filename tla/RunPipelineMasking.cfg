\* Two runs of one process at the same time, nothing fails.
SPECIFICATION Spec
CONSTANTS
  r1 = r1
  r2 = r2
  Runs = {r1, r2}
  Options <- BothMask
  Faulty = {}
  Plugins <- NoPlugins
  Plain = Plain
  Absent = Absent
INVARIANT ProfileMasks
CHECK_DEADLOCK FALSE
