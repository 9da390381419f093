SPECIFICATION Spec
CONSTANTS
  c1 = c1
  c2 = c2
  n1 = n1
  n2 = n2
  NoRequest = NoRequest
  Clients = {c1, c2}
  Names = {n1}
  MaxCalls = 2
  MaxStarts = 2
  Faults <- RefineFaults
  LaunchPolicies = {"async"}
SYMMETRY ClientSymmetry
INVARIANT NoLostWakeup
INVARIANT DaemonHoldsOnlyItsDevices
PROPERTY ImplementsService
CHECK_DEADLOCK FALSE
