\* One launcher that provisions a pool, plays its round and loads it again.
SPECIFICATION Spec
CONSTANTS
  a1 = a1
  a2 = a2
  a3 = a3
  a4 = a4
  Processes = {"first"}
  Operator = Operator
  Agents <- TwoPools
  Keys <- TwoPoolKeys
  PoolSize = 2
  Fund = 4
  Stake = 1
  Gas = 1
  Requirements = {1}
  Torn = Torn
  MaxStarts = 2
PROPERTIES
  ReusedAgentsAreRegistered
CHECK_DEADLOCK FALSE
