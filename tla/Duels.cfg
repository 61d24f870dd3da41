\* One pair, both drivers, two injections, every send may fail.
SPECIFICATION FairRunSpec
CONSTANTS
  a1 = a1
  a2 = a2
  p1 = p1
  p2 = p2
  Agents = {a1, a2}
  People = {p1, p2}
  Contract = Contract
  None = None
  InitialUsdc <- Purses
  Defaults <- Terms
  ItemCount = 1
  BettingPeriods = {0, 1}
  TradingPeriods = {1, 3}
  BetAmounts = {}
  FundAmounts = {}
  Returns <- Scores
  Prices = {}
  Stakes = {}
  Cuts = {}
  Thresholds = {}
  MinScores = {}
  Treasuries = {}
  MaxDuels = 1
  MaxInjections = 2
  MaxTime = 3
  MaxScore = 9
  MaxFailures = 1
  MaxReports = 9
  Modes = {"arena", "cli"}
  Pairs <- Field
  Operator = p1
  DurationOf <- Durations
  Horizon = 4
  Cycles = 1
  Interval = 1
  Buffer = 0
  AnchorEvery = 1
  Penalty = 2
  Betting = 1
  PollMayFail = TRUE
  Directions = {1}
  RealMove <- Prices_
INVARIANTS
  InjectionsCountOnce
  StandingsMatchTheChain
  LatestPolledIsScored
  CleanDuelsAreResolved
PROPERTIES
  RunnerFinishes
CHECK_DEADLOCK FALSE
