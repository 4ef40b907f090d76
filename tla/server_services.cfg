SPECIFICATION SvSpec
CONSTANTS
  Sessions = {1, 2, 3}
  NoOne = NoOne
  MaxConnections = 2
  MaxQueries = 5
  QMax = 2
  CKeys = {k1, k2}
  CCallers = {c1, c2}
  CMaxMem = 1
  LruSample = 1
  CTTL = 1
  CMaxClock = 2
  Ips = {i1, i2}
  Ssids = {s1, s2}
  OtpMaxAttempts = 2
  AdminMaxFailed = 1
  OtpTTL = 1
  BanTTL = 2
  TokenTTL = 1
  AMaxClock = 3
  Clients = {c1}
  SendBuffer = 2
  MaxVersion = 3
  MaxFlushes = 2
  OpCapacity = 2
  TotalCapacity = 3
  Second = 2
  Span = 2
  Spans = {1, 3}
  BanSpan = 2
  MaxMax = 2
  LogThreshold = 2
  LMaxClock = 5
  MonPlayers = {1, 2}
  MaxMonFrames = 2
  Traffic <- MCTraffic
  MaxPayload = 250
  Chunks = {1, 2, 130}
  Halves <- MCHalves
  Admins = {a1}
  RtKeys = {k1, k2}
  BootKeys = {b1}
  Culprits = {u1}
  MaxOps = 3
  MaxEdits = 1
  MaxCrashes = 1
CHECK_DEADLOCK FALSE
INVARIANTS OldSessionIsKicked ConnectedIsRegistered PlacesCounted DanglerHasTimer RestartKeeps WaitingIsClaimable DiskFollows SessionsAreOneUse  LimitsHold FramesWillFlush CommandsSurvive HalfNearest
