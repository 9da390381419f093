SPECIFICATION Spec
CONSTANTS
  e1 = e1
  e2 = e2
  Ids = {e1, e2}
  MaxOpens = 2
  MaxFd = 4
  MaxFrames = 3
  BufferSize = 2
  Capacity = 2
PROPERTY ServerEndIsClosedByItsThread
CHECK_DEADLOCK FALSE
