\* One run with every setting, and requests that Solr may get to late.
SPECIFICATION FairSpec
CONSTANTS
  r1 = r1
  r2 = r2
  n1 = n1
  n2 = n2
  Runs = {r1}
  Names = {n1}
  Baseline = products
  NumOps = 2
  None = None
  Namings <- Alike
  Options <- AnySettings
  Attempts = 3
  FaultyRuns = {r1}
  MaxLate = 1
INVARIANTS TypeOK BaselineKept
PROPERTY EveryRunEnds
CHECK_DEADLOCK FALSE
