\* The changeset patches files and the fallback is allowed.
SPECIFICATION Spec
CONSTANTS
  r1 = r1
  r2 = r2
  n1 = n1
  n2 = n2
  Runs = {r1}
  Names = {n1, n2}
  Baseline = products
  NumOps = 1
  None = None
  Namings <- AloneOrAlike
  Options <- AllPatchOrShare
  Attempts = 2
  FaultyRuns = {r1}
  MaxLate = 0
INVARIANT FallbackOnlyWithoutPatching
CHECK_DEADLOCK FALSE
