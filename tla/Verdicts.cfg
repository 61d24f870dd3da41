\* One agent, the verdict contract and another slasher in turn as oracle.
SPECIFICATION FairRelease
CONSTANTS
  a1 = a1
  o1 = o1
  po = po
  Agents = {a1}
  Slashers = {o1, po}
  Vault = Vault
  Burn = Burn
  None = None
  InitialUsdc <- VerdictsUsdc
  InitialOracle = po
  InitialWindow = 1
  InitialTimeout = 1
  MaxUint = 4
  Amounts = {1}
  Oracles = {o1, po}
  Checkers = {TRUE}
  Windows = {0, 4}
  Timeouts = {1, 4}
  Pauses = {TRUE, FALSE}
  LastPost = 1
  MaxTime = 2
  PerfOracle = po
  Quotes <- VerdictQuotes
  Horizons = {0, 1}
  Thresholds = {0, 3333}
  SlashAmounts = {0, 1, 2}
  MaxAdvice = 1
INVARIANTS
  VaultSolvent
  FundedVerdictsGoThrough
PROPERTIES
  NobodyProfits
  BondsComeHome
  VerdictsMatchThePrice
  VerdictsMoveTheMoney
