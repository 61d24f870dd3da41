\* An agent that takes its bond home before the verdict.
SPECIFICATION FairSpec
CONSTANTS
  a1 = a1
  o1 = o1
  po = po
  Agents = {a1}
  Slashers = {po}
  Vault = Vault
  Burn = Burn
  None = None
  InitialUsdc <- NoVerdictUsdc
  InitialOracle = po
  InitialWindow = 1
  InitialTimeout = 3
  MaxUint = 9
  Amounts = {1}
  Oracles = {}
  Checkers = {}
  Windows = {}
  Timeouts = {}
  Pauses = {}
  LastPost = 0
  MaxTime = 2
  PerfOracle = po
  Quotes <- NoVerdictQuotes
  Horizons = {1}
  Thresholds = {0}
  SlashAmounts = {1}
  MaxAdvice = 1
PROPERTIES
  BondedAdviceGetsVerdict
CHECK_DEADLOCK FALSE
