\* Two servers on one Redis; no job outlives its lock.
SPECIFICATION Spec
CONSTANTS
  Servers = {s1, s2}
  Jobs = {j1, j2}
  NoJob = NoJob
  MaxTotal = 1
  MaxCodes = 1
  QueueCap = 1
  Faults = {"db", "redis", "report"}
  MaxCrashes = 1
  OverrunTTL = FALSE
INVARIANT
  OneJobAtATime
PROPERTY ImplementsLifecycle
CHECK_DEADLOCK FALSE
