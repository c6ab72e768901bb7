\* Do all goroutines exit once done is closed?
CONSTANTS
  HWM = 1
  Sizes = {1}
  SourceCap = 1
  WaitingLimit = 0
  MaxEvents = 1
  Apps = {app}
  Deadlines = {}
  Tasks = {}
  BatchCap = 1
SPECIFICATION FairSpec
PROPERTY GoroutinesExit
CHECK_DEADLOCK FALSE
