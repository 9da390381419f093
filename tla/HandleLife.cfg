SPECIFICATION Spec
CONSTANTS
  c1 = c1
  c2 = c2
  n1 = n1
  n2 = n2
  Clients = {c1, c2}
  Names = {n1, n2}
  CallErrors = {"error"}
  Configs <- MCConfigs
  PowerOn <- MCPowerOn
  MaxCalls = 3
  MaxFaults = 1
SYMMETRY ClientSymmetry
INVARIANT TypeOK
INVARIANT ReadsUntilClosed
INVARIANT TableAgreesWithHandles
INVARIANT LineFollowsHandle
PROPERTY ErrorIsForEver
CHECK_DEADLOCK FALSE
