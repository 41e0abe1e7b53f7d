\* One player, three codes, two of them of one type.
SPECIFICATION FairSpec
CONSTANTS
  c1 = c1
  c2 = c2
  c3 = c3
  Players = {p1}
  Codes = {c1, c2, c3}
  TypeOf <- TwoOfOneType
  MaxAttempts = 3
  PauseTicks = 2
INVARIANTS
  TypeOK
  LostAnswerRecovered
  NoGhostOutOfBlocks
  RecordedMeansRedeemed
  BlockedMeansQuiet
PROPERTIES
  ImplementsCall
  CallReturns
