\* One key, four kinds of process, two of which run at a time.
SPECIFICATION FairSpec
CONSTANTS
  Operator = op
  Stranger = stranger
  Keys = {op}
  Processes = {"api", "runner", "seeder", "anchor"}
  Identities = {i1}
  Legacy = Legacy
  Roots <- OwnRoots
  Traces = {x, y}
  TraceIds = {x}
  Questions <- ThreeQuestions
  Contested <- Directory
  Served = {1}
  Ids <- TwoAgents
  agent_addrs <- Addresses
  Cycles = 1
  ResolveEvery = 1
  Paying = TRUE
  Ruinous = TRUE
  MaxStarts = 2
  MaxEvents = 3
  MaxAnchors = 2
  MaxPending = 2
INVARIANTS
  PublishedIsKnown
  OutcomesAreVerdicts
  AnchorsAgree
PROPERTIES
  RunnerServesEveryone
CHECK_DEADLOCK FALSE
