\* Two runs that rendered the same name within one second, no faults.
SPECIFICATION Spec
CONSTANTS
  r1 = r1
  r2 = r2
  n1 = n1
  n2 = n2
  Runs = {r1, r2}
  Names = {n1, n2}
  Baseline = products
  NumOps = 1
  None = None
  Namings <- Alike
  Options <- AllPatch
  Attempts = 2
  FaultyRuns = {}
  MaxLate = 0
INVARIANT PatchedForItself
CHECK_DEADLOCK FALSE
