\* Two dashboards and three writes: one event going round, one in the buffer, and a
\* controller blocked behind it.
SPECIFICATION FairSpec
CONSTANTS
  Clients = {c1, c2}
  Writes = {w1, w2, w3}
  NotifierCap = 1
INVARIANTS
  TypeOK
  RegisteredMissNothing
  RegisteredAreServed
PROPERTIES
  NotifyReturns
  CloseReturns
