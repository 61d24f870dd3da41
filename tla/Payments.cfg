\* Two servers share a nonce database; one trace; the limiter holds one token.
SPECIFICATION Spec
CONSTANTS
  Servers = {"s1", "s2"}
  Signers = {"bob"}
  Auths <- ThreeAuths
  Traces = {"t1"}
  None = None
  Recipient = "alice"
  Price = 1
  Skew = 1
  Capacity = 1
  Refill = 1
  MaxTime = 2
INVARIANTS
  NoncesBurnOnlyForService
  BurstBound
PROPERTIES
  
  PaidTracesStay
