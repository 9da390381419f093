SPECIFICATION Spec
CONSTANTS
  app = app
  loop = loop
  i1 = i1
  None = None
  Apps = {app}
  Loop = loop
  Ifaces = {i1}
  Depth = 2
  MaxFrames = 0
  MaxWork = 2
  MaxOpens = 1
INVARIANT CompletionHasCallback
CHECK_DEADLOCK FALSE
