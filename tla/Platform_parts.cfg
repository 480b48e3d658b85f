SPECIFICATION HostSpec
CONSTANTS
  Requests = {r1, r2}
  Repeatable = {r1}
  Cancellable = {r1, r2}
  Fetches = {f1, f2, f3}
  None = None
  RetryCount = 2
  Calls = {c1, c2, c3}
  Retried = {c1}
  Retries = 1
  MinCalls = 2
  MaxPasses = 1
  InsertAttempts = 2
  QrMaxFaults = 2
  Slugs = {s1, s2}
  Ids = {i1, i2}
  Targets = {u1, u2}
  Malformed = Malformed
  Services = {"miot_bridge_api"}
  Probes = {p1, p2}
  CheckTimeout = 2
  HealthTtl = 1
  DrainDelay = 1
  HardDeadline = 3
  HealthMaxTime = 4
  HealthMaxFaults = 1
  Callers = {a1, a2}
  Nobody = Nobody
  Methods <- MethodsTried
  Arrivals <- ArrivalsTried
  Keys = {"k1", "k2"}
  FirstKey = "k1"
  KeysTtl = 2
  Cooldown = 1
  FetchTimeout = 1
  DoorMaxTime = 3
  DoorMaxFaults = 1
  Tabs = {t1}
  Paths = {home, detail}
  home = home
  callback = callback
  Lives = {0, 1, 3, 7}
  RenewSkew = 1
  TimerLimit = 4
  MaxFutile = 2
  UiMaxTime = 3
  UiMaxFaults = 2
  MaxToggles = 2
  MaxStorm = 3
INVARIANTS SingleFlight RefusedMeansRevoked NoSecondWrite HealthSound DoorHonest SignInSound QrCodesSound
PROPERTIES GoodCredentialKept BreakerHonest
CHECK_DEADLOCK FALSE
