\* Two jobs, two pull workers over one store, and handlers that run their own
\* jobs when the mode is inline.
SPECIFICATION FairSpec
CONSTANTS
  Jobs = {j1, j2}
  Clients = {c1}
  Threads = {}
  Pullers = {p1, p2}
  Procs <- MCProcs
  Registered = {j1}
  Backends = {"file", "sqlite"}
  Modes = {"inline", "external"}
  PullLimit = 2
  NoJob = NoJob
  NoThread = NoThread
  Sentinel = Sentinel
  MaxFaults = 1
  MaxStops = 0
INVARIANT OncePerWorker
PROPERTY PullDrainsQueue
CHECK_DEADLOCK FALSE
