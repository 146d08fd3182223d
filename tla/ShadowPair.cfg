\* Two runs, named alike or not; the requests of one of them meet faults.
SPECIFICATION Spec
CONSTANTS
  r1 = r1
  r2 = r2
  n1 = n1
  n2 = n2
  Runs = {r1, r2}
  Names = {n1, n2}
  Baseline = products
  NumOps = 1
  None = None
  Namings <- AloneOrAlike
  Options <- Mixed
  Attempts = 2
  FaultyRuns = {r1}
  MaxLate = 0
INVARIANTS ManifestTruthful CleanupComplete Owned
CHECK_DEADLOCK FALSE
