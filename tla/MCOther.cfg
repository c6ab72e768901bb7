\* Is a span beyond the limit on names counted as `other'?
CONSTANTS
  Names = {a, b}
  Kinds = {"primary", "method"}
  Caps = {3}
  ChannelCap = 1
  Posters = {}
  Lengths = {}
  MaxSpans = 2
  MaxCaps = 0
  MaxReports = 0
SPECIFICATION MetricsSpec
INVARIANT CountedOnce
CHECK_DEADLOCK FALSE
