\* Two requests, two handlers, worker threads that may be stopped and started
\* again under fairness, one crash or storage error, both stores.
SPECIFICATION FairSpec
CONSTANTS
  Jobs = {j1, j2}
  Clients = {c1, c2}
  Threads = {t1, t2}
  Pullers = {}
  Procs <- MCProcs
  Registered = {j1}
  Backends = {"file", "sqlite"}
  Modes = {"inprocess"}
  PullLimit = 1
  NoJob = NoJob
  NoThread = NoThread
  Sentinel = Sentinel
  MaxFaults = 1
  MaxStops = 2
INVARIANTS TypeOK AtMostOnce Ownership NoJobForgotten UnreadableOnlyWhileWritten ThreadsBounded
PROPERTIES Lifecycle EveryQueuedJobFinishes StoppedWorkerExits
CHECK_DEADLOCK FALSE
