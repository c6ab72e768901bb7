\* Safety.  A batch is one event; there are two, and the channel of batches holds one.
CONSTANTS
  HWM = 1
  Sizes = {1}
  SourceCap = 1
  WaitingLimit = 0
  MaxEvents = 2
  Apps = {app}
  Deadlines = {app}
  Tasks = {"settings"}
  BatchCap = 1
SPECIFICATION Spec
INVARIANTS
  TypeOK
  BatchesHaveReader
  FlushComplete
  PostsInOrder
PROPERTIES
  GracefulSettled
  ImplementsBucket
CHECK_DEADLOCK FALSE
