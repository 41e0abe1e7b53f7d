SPECIFICATION FairSpec
CONSTANTS
  PageCalls = {"p1"}
  Accounts <- SmallAccounts
  FeatureSets <- SmallFeatures
  Visits = {"/war-room", "/discord"}
  MaxExpiries = 1
  MaxChanges = 1
INVARIANTS
  TypeOK
  WaitersHaveRefresh
  SignedInHasToken
  LinksLead
PROPERTY CallsSettle
