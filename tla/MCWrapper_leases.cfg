CONSTANTS
  Workers = {w1, w2}
  CallbackTimeout = 1
  RequestTimeout = 1
  ShutdownTimeout = 1
  LeaseTTL = 3
  Lifetimes = {0, 1, 3}
  MaxJobs = 1
  MaxFaults = 2
SPECIFICATION FairSpec
INVARIANTS TypeOK NoJobLost FlowWithinLease OneExecutor
PROPERTIES EndsOnce Served
