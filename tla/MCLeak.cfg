\* Does Close close the connection for good?
CONSTANTS
  Invokers = {p1}
  Methods = {"post"}
  Addresses = {home}
  Home = home
  RedirectMax = 1
  RetryMax = 1
  MaxCalls = 1
SPECIFICATION Spec
INVARIANT ClosedForGood
CHECK_DEADLOCK FALSE
