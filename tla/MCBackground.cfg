CONSTANTS
  Waiters = {w1, w2}
  Names = {a, b}
  Kinds = {"primary", "method"}
  Caps = {1, 3}
  ChannelCap = 1
  Posters = {g1, g2}
  Lengths = {1, 2}
  MaxSpans = 3
  MaxCaps = 1
  MaxReports = 2
  Fields = {host, mac}
  MaxUpdates = 3
  MaxChunkSize = 3
  Sizes = {1, 2, 4}
  MaxMessages = 5
  Texts = {"", " ", "enabled", "disabled", "always", "never", "default", "ssl", "udp", "serverless",
           "valid", "invalid", "bogus", "all"}
  NoFile = NoFile
  BadFile = BadFile
  Absent = Absent
  NotANumber = NotANumber
  Files <- MCFiles
  Envs <- MCEnvs
  Options = {"valid", Absent}
  MaxSampleRate = 2
  MaxTokenBucketCapacity = 8
  Statements <- MCStatements
  MaxSQLLen = 6
  LowestDiscernible = 1
  HighestTrackable = 900
  SigFigs = 1
  Inputs = {0, 31, 32, 65, 900, 1100}
  MaxRecords = 3
SPECIFICATION BackgroundSpec
INVARIANTS BackgroundTypeOK LimitHonest LargestKept ChunksFaithful OutputFaithful ConfigSound
PROPERTIES ReadinessLive HostIdCurrent
CHECK_DEADLOCK FALSE
