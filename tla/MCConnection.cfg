\* Two goroutines, two addresses, one redirection and one retry.
CONSTANTS
  Invokers = {p1, p2}
  Methods = {"post", "big", "nokey", "ping"}
  Addresses = {home, other}
  Home = home
  RedirectMax = 1
  RetryMax = 1
  MaxCalls = 1
SPECIFICATION FairSpec
INVARIANTS
  TypeOK
  AttemptsBounded
  OneConnection
PROPERTIES
  ClientStable
  ImplementsContract
  InvokeReturns
CHECK_DEADLOCK FALSE
