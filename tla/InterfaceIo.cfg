SPECIFICATION FairSpec
CONSTANTS
  app = app
  loop = loop
  i1 = i1
  None = None
  Apps = {app}
  Loop = loop
  Ifaces = {i1}
  Depth = 2
  MaxFrames = 2
  MaxWork = 3
  MaxOpens = 2
INVARIANT TypeOK
INVARIANT CallbackRunsOnce
INVARIANT CompletionFindsItsCallback
INVARIANT OpenInterfaceKeepsReading
INVARIANT OneReadPerOpen
INVARIANT FramesInOrder
PROPERTY CompletionRunsCallback
PROPERTY StopEndsRun
CHECK_DEADLOCK FALSE
