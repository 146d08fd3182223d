\* One run with the summary-only profile, nothing fails.
SPECIFICATION Spec
CONSTANTS
  r1 = r1
  r2 = r2
  Runs = {r1}
  Options <- BothSummaryOnly
  Faulty = {}
  Plugins <- NoPlugins
  Plain = Plain
  Absent = Absent
INVARIANT SummariesOnly
CHECK_DEADLOCK FALSE
