SPECIFICATION SettledSpec
CONSTANTS
  Admins = {a1}
  Moderators = {m1}
  Players = {p1}
  Alliances = {own}
  NoAlliance = none
  OwnAlliance = own
  MaxCalls = 3
  MaxSeasons = 2
  MaxRecords = 3
  Powers = {1}
  Limits <- SmallLimits
CONSTRAINT Unfinished
INVARIANTS
  TypeOK
  ConfirmedJoined
  DeparturesOnRecord
  AdminsLedgerCurrent
