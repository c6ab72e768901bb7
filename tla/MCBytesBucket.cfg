\* Sizes: 1 and 2 share a bucket of 3 bytes, 4 is oversize.
CONSTANTS
  HWM = 3
  Sizes = {1, 2, 4}
  SourceCap = 2
  WaitingLimit = 1
  MaxEvents = 4
SPECIFICATION FairBucketSpec
INVARIANTS
  BucketLimits
PROPERTIES
  EventuallyDrained
  ImplementsQueue
