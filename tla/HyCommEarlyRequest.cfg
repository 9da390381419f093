SPECIFICATION Spec
CONSTANTS
  c1 = c1
  c2 = c2
  n1 = n1
  n2 = n2
  NoRequest = NoRequest
  Clients = {c1}
  Names = {n1}
  MaxCalls = 1
  MaxStarts = 1
  Faults <- NoFaults
  LaunchPolicies = {"async"}
INVARIANT NotifiedDaemonIsAwake
CHECK_DEADLOCK FALSE
