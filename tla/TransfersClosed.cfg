\* "freezes all records" (TransferManager.jsx); violated.
SPECIFICATION Spec
CONSTANTS
  Admins = {a1}
  Moderators = {m1}
  Players = {p1}
  Alliances = {own}
  NoAlliance = none
  OwnAlliance = own
  MaxCalls = 3
  MaxSeasons = 1
  MaxRecords = 2
  Powers = {1}
  Limits <- SmallLimits
PROPERTY ClosedIsFinal
