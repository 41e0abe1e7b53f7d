\* An accepted job after a restart; violated.
SPECIFICATION FairExpirySpec
CONSTANTS
  Servers = {s1}
  Jobs = {j1, j2}
  NoJob = NoJob
  MaxTotal = 1
  MaxCodes = 1
  QueueCap = 2
  Faults = {}
  MaxCrashes = 1
  OverrunTTL = FALSE
PROPERTY AcceptedJobsComplete
CHECK_DEADLOCK FALSE
