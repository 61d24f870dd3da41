\* One duel, three bettors: every order of bets and claims.
SPECIFICATION Spec
CONSTANTS
  p1 = p1
  p2 = p2
  p3 = p3
  p4 = p4
  Agents = {a1, a2}
  People = {p1, p2, p3, p4}
  Contract = Contract
  None = None
  InitialUsdc <- BettingUsdc
  Defaults <- BettingDefaults
  ItemCount = 1
  BettingPeriods = {1}
  TradingPeriods = {0, 1}
  BetAmounts = {0, 1, 2}
  FundAmounts = {}
  Returns = {1}
  Prices = {}
  Stakes = {}
  Cuts = {}
  Thresholds = {}
  MinScores = {}
  Treasuries = {}
  MaxDuels = 1
  MaxInjections = 0
  MaxTime = 2
  MaxScore = 1
  MaxFailures = 0
  MaxReports = 0
INVARIANTS
  PotAccounting
  WinnersKeepTheirStake
PROPERTIES
  ImplementsParimutuel
CHECK_DEADLOCK FALSE
