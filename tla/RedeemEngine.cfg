\* One server, as deployed; every fault, one crash; the queue fills up.
SPECIFICATION Spec
CONSTANTS
  Servers = {s1}
  Jobs = {j1, j2}
  NoJob = NoJob
  MaxTotal = 2
  MaxCodes = 2
  QueueCap = 1
  Faults = {"db", "redis", "report"}
  MaxCrashes = 1
  OverrunTTL = TRUE
SYMMETRY JobSymmetry
INVARIANTS
  TypeOK
  CompletedMeansReported
  ProgressNotAheadOfWork
  StatusNotAheadOfRow
  ConflictMeansRunning
  NoJobDroppedInOneLife
PROPERTY ProgressMonotone
CHECK_DEADLOCK FALSE
