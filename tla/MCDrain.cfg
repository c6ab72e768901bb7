\* Does a graceful shutdown drain the bucket?
CONSTANTS
  HWM = 2
  Sizes = {1}
  SourceCap = 1
  WaitingLimit = 0
  MaxEvents = 2
  Apps = {app}
  Deadlines = {}
  Tasks = {}
  BatchCap = 1
SPECIFICATION Spec
INVARIANT GracefulDrains
CHECK_DEADLOCK FALSE
