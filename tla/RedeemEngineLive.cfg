\* One server that may crash once; no call fails and the Redis keys expire.
SPECIFICATION FairExpirySpec
CONSTANTS
  Servers = {s1}
  Jobs = {j1, j2}
  NoJob = NoJob
  MaxTotal = 1
  MaxCodes = 1
  QueueCap = 1
  Faults = {}
  MaxCrashes = 1
  OverrunTTL = FALSE
PROPERTIES
  JobsComplete
  LockEventuallyFree
CHECK_DEADLOCK FALSE
