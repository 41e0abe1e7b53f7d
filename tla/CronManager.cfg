\* Two reminders, one restart, queries that may fail.
SPECIFICATION FairSpec
CONSTANTS
  Crons = {c1, c2}
  NoCron = NoCron
  Delays = {0, 1}
  Steps = {1}
  MaxAhead = 1
  MaxLag = 1
  MaxCrashes = 1
  Faults = {"db"}
INVARIANTS
  TypeOK
  PostedOncePerRun
  EditKept
PROPERTIES
  PostsAreCurrent
  NothingSkipped
  DueIsPosted
