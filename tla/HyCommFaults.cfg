SPECIFICATION Spec
CONSTANTS
  c1 = c1
  c2 = c2
  n1 = n1
  n2 = n2
  NoRequest = NoRequest
  Clients = {c1, c2}
  Names = {n1}
  MaxCalls = 2
  MaxStarts = 1
  Faults <- CallFaults
  LaunchPolicies = {"async", "deferred"}
SYMMETRY ClientSymmetry
INVARIANT TypeOK
INVARIANT NoLostWakeup
INVARIANT DescriptorIsForThisCall
INVARIANT GetDoesNotBlock
INVARIANT DaemonHoldsOnlyItsDevices
INVARIANT ListenerLivesWithItsTask
CHECK_DEADLOCK FALSE
