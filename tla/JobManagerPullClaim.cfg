\* Two pull workers and the SQLite store, no failures: both may list the same
\* job before either marks it.
SPECIFICATION Spec
CONSTANTS
  Jobs = {j1, j2}
  Clients = {c1}
  Threads = {}
  Pullers = {p1, p2}
  Procs <- MCProcs
  Registered = {j1, j2}
  Backends = {"sqlite"}
  Modes = {"external"}
  PullLimit = 1
  NoJob = NoJob
  NoThread = NoThread
  Sentinel = Sentinel
  MaxFaults = 0
  MaxStops = 0
PROPERTY PullRunsQueuedJobs
CHECK_DEADLOCK FALSE
