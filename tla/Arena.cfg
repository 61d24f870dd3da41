\* Two duels that may share their agents, stakes, forfeits, sponsors.
SPECIFICATION Spec
CONSTANTS
  p1 = p1
  p2 = p2
  p3 = p3
  p4 = p4
  Agents = {a1, a2}
  People = {p1, p2}
  Contract = Contract
  None = None
  InitialUsdc <- ArenaUsdc
  Defaults <- ArenaDefaults
  ItemCount = 1
  BettingPeriods = {0}
  TradingPeriods = {1}
  BetAmounts = {}
  FundAmounts = {1}
  Returns = {0}
  Prices = {}
  Stakes = {}
  Cuts = {}
  Thresholds = {}
  MinScores = {}
  Treasuries = {}
  MaxDuels = 2
  MaxInjections = 0
  MaxTime = 1
  MaxScore = 0
  MaxFailures = 1
  MaxReports = 1
INVARIANTS
  LiveDuelsHaveDevelopers
PROPERTIES
  OutcomeIsFinal
  ResolveHandsOutEverything
CHECK_DEADLOCK FALSE
