SPECIFICATION HostFairSpec
CONSTANTS
  Properties = {a, b}
  Values = {v1, v2}
  None = None
  Interval = 2
  MaxFaults = 1
  Pods = {p1, p2}
  Slots = {s1, s2}
  k1 = k1
  k2 = k2
  app = app
  token = token
  x = x
  y = y
  KnowledgeBases = {k1, k2}
  Repositories = {x, y}
  Apps = {app}
  Tokens = {token}
  Rotating = {token}
  Discoveries = {d1, d2, d3}
  Sources <- SourcesTried
  Coverage <- CoverageAtFirst
  MaxChanges = 1
  Clients = {r1}
  Ids = {i1, i2}
  Calls = {c1, c2}
  Bulk = {c2}
  BulkSize = 2
  HasStore = TRUE
  DeviceFaults = 1
INVARIANTS Paced NewestSurvives PartsSound
PROPERTIES NobodyStarves ClientKept Recovers CallersAnswered LoopGoesOn SubscriberConverges CallsSettle OutageEnds
CHECK_DEADLOCK FALSE
