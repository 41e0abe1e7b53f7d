\* The conflict answer of docs/gift_code_engine.mmd; violated.
SPECIFICATION Spec
CONSTANTS
  Servers = {s1}
  Jobs = {j1, j2}
  NoJob = NoJob
  MaxTotal = 1
  MaxCodes = 1
  QueueCap = 2
  Faults = {}
  MaxCrashes = 0
  OverrunTTL = FALSE
PROPERTY SecondJobConflicts
CHECK_DEADLOCK FALSE
