\* Two processes on one archive, one child, every step in any order.
SPECIFICATION FairSpec
CONSTANTS
  NoFile = NoFile
  Torn = Torn
  NoAudit = NoAudit
  Cap1 = Cap1
  Cap2 = Cap2
  Blacklist = Blacklist
  Leverage = Leverage
  Rate <- Rates
  Limit = 3
  Corpora <- Versions
  Ours = "ours"
  Size = 2
  Seeds = {"ours", "other"}
  SeedSizes = {1, 2}
  Kept <- Left
  BobRules <- Rules
  ExtraRules = {Cap2, NoAudit}
  RuleId <- Named
  Meaning <- Dictionary
  Usdc = 2
  Amounts = {2}
  Calls <- SomeCalls
  Outflows = {1, 2}
  Caps = {1}
  Hits <- Found
  Ahead = 2
  Generations = 2
  MaxTime = 1
  MaxCrashes = 2
  MaxStarts = 1
INVARIANTS
  ServedMemoryIsWhole
  AnchoredRootIsServed
  OnlyNamesakesAreLost
  PredictionsComeTrue
  ChildrenAreNoFreer
PROPERTIES
  SavesAreAtomic
  AliceComesUp
CHECK_DEADLOCK FALSE
