\* Liveness, with one event and without the periodic tasks other than collectMetrics.
CONSTANTS
  HWM = 1
  Sizes = {1}
  SourceCap = 1
  WaitingLimit = 0
  MaxEvents = 1
  Apps = {app}
  Deadlines = {app}
  Tasks = {}
  BatchCap = 1
SPECIFICATION FairSpec
PROPERTIES
  EventuallyPosted
  InvalidKeyCloses
  ShutdownReturns
  GoroutinesExit
CHECK_DEADLOCK FALSE
