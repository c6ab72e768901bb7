\* A trace with two more spans, siblings or nested, and two goroutines.
CONSTANTS
  Spans = {t, s1, s2}
  Trace = t
  Goroutines = {g1, g2}
  None = None
  MaxCalls = 4
SPECIFICATION FairSpec
INVARIANTS
  SpansTypeOK
  TraceOnce
  EventGraph
  NothingLost
PROPERTY CallsReturn
CHECK_DEADLOCK FALSE
