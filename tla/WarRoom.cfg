SPECIFICATION HousedSpec
CONSTANTS
  Admins = {a1, a2}
  Players = {p1}
  Fighting = {red}
  NoAlliance = none
  Sessions = {"SvS"}
  MaxTeams = 1
  MaxCalls = 3
SYMMETRY Symmetry
CONSTRAINT Unfinished
INVARIANTS
  TypeOK
  SeenAreResolved
