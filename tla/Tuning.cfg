\* One duel, every setting the recorder may change while it runs.
SPECIFICATION Spec
CONSTANTS
  p1 = p1
  p2 = p2
  p3 = p3
  p4 = p4
  Agents = {a1, a2}
  People = {p1, p2}
  Contract = Contract
  None = None
  InitialUsdc <- TuningUsdc
  Defaults <- TuningDefaults
  ItemCount = 1
  BettingPeriods = {0}
  TradingPeriods = {1}
  BetAmounts = {}
  FundAmounts = {}
  Returns = {0}
  Prices = {0}
  Stakes = {0}
  Cuts = {10000, 10001}
  Thresholds = {0, 2}
  MinScores = {1}
  Treasuries = {p2}
  MaxDuels = 1
  MaxInjections = 1
  MaxTime = 1
  MaxScore = 0
  MaxFailures = 1
  MaxReports = 1
INVARIANTS
  TypeOK
  Solvent
