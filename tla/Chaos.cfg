\* Two duels that may share their agents, two injections.
SPECIFICATION FairSpec
CONSTANTS
  p1 = p1
  p2 = p2
  p3 = p3
  p4 = p4
  Agents = {a1, a2}
  People = {p1, p2}
  Contract = Contract
  None = None
  InitialUsdc <- ChaosUsdc
  Defaults <- ChaosDefaults
  ItemCount = 2
  BettingPeriods = {0}
  TradingPeriods = {1}
  BetAmounts = {}
  FundAmounts = {}
  Returns = {0}
  Prices = {}
  Stakes = {}
  Cuts = {}
  Thresholds = {}
  MinScores = {}
  Treasuries = {}
  MaxDuels = 2
  MaxInjections = 2
  MaxTime = 1
  MaxScore = 0
  MaxFailures = 0
  MaxReports = 0
PROPERTIES
  EscrowsReachTheirTarget
  EveryDuelResolves
CHECK_DEADLOCK FALSE
