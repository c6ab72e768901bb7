\* Does Shutdown return only after the last metrics were sent?
CONSTANTS
  HWM = 1
  Sizes = {1}
  SourceCap = 1
  WaitingLimit = 0
  MaxEvents = 0
  Apps = {app}
  Deadlines = {}
  Tasks = {}
  BatchCap = 1
SPECIFICATION Spec
INVARIANT FlushedOnReturn
CHECK_DEADLOCK FALSE
