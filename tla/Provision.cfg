\* Two launchers with the operator's key and one keystore directory.
SPECIFICATION Spec
CONSTANTS
  a1 = a1
  a2 = a2
  a3 = a3
  a4 = a4
  Processes = {"first", "second"}
  Operator = Operator
  Agents <- TwoPools
  Keys <- TwoPoolKeys
  PoolSize = 2
  Fund = 4
  Stake = 1
  Gas = 1
  Requirements = {1, 2}
  Torn = Torn
  MaxStarts = 3
INVARIANTS
  FundedKeysAreOnDisk
  PaidOnce
  ProgressIsOnChain
  PoolsAreWhole
CHECK_DEADLOCK FALSE
