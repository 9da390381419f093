SPECIFICATION FairSpec
CONSTANTS
  c1 = c1
  c2 = c2
  n1 = n1
  n2 = n2
  NoRequest = NoRequest
  Clients = {c1, c2}
  Names = {n1}
  MaxCalls = 2
  MaxStarts = 1
  Faults <- LiveFaults
  LaunchPolicies = {"async"}
INVARIANT RegisteredDeviceReachedItsClient
PROPERTY CallsAreAnswered
PROPERTY TransferredOpenReturns
CHECK_DEADLOCK FALSE
