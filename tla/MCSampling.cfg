\* The decision: a rate of 2 of 3, one update before or during the request, and expiry.
\* The bucket: a token is two units; the rate is one and a half tokens per tick, the
\* capacities one token and two and a half; the time before the start fills either bucket.
\* A bucket cut to one token stays full during the tick and is then refilled for it at once,
\* which meets the bound on bursts exactly.  Its requests are interchangeable.
\* The handlers: three of them, of any links, each response written at most twice, one error
\* or exit event refused.
\* The filters: two requests with three URLs.  Metadata: two events for one header.
CONSTANTS
  MaxRate = 3
  RemoteFlags <- MCRemoteFlags
  RemoteRates = {2, 9}
  Locals <- MCLocals
  RequestKinds <- MCRequestKinds
  MaxUpdates = 1
  Requests = {r1, r2}
  Token = 2
  Rates = {3}
  Capacities = {2, 5}
  Epoch = 5
  MaxTicks = 1
  MaxRequests = 3
  MaxChanges = 2
  Hops = 3
  Statuses = {200, 500}
  MaxWrites = 2
  MaxRefused = 1
  Urls = {"a", "b", "c"}
  NoURL = ""
  NoPattern = NoPattern
  BadPattern = BadPattern
  Askers = {a1, a2}
  FilterSettings <- MCFilterSettings
  Headers <- MCHeaders
  ResponseHeaders <- MCResponseHeaders
  NoHeader = NoHeader
  TaskDraws <- MCTaskDraws
  OpDraws <- MCOpDraws
  ReadError = ReadError
  MaxEvents = 2
SPECIFICATION MCSpec
SYMMETRY MCSymmetry
INVARIANTS
  SamplingRunTypes
  BurstBounded
  CountsMatchDecisions
  NeverWidened
  AnswerTruthful
  
  FilterAnswers
  MetadataFaithful
CHECK_DEADLOCK FALSE
