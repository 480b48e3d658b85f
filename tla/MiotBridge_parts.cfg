SPECIFICATION HostSpec
CONSTANTS
  Unit = 2
  None = None
  MaxTime = 4
  MaxGain = 1
  MaxLoss = 1
  MaxBack = 1
  MaxForth = 1
  Requests = {r1, r2}
  Ids = {i1, i2}
  Addresses = {a1, a2}
  Messages = {m1, m2}
  PolledMessages = {m1}
  Devices = {d1}
  Codes = {c1, c2}
  StartupErrors = 2
  ReplaysRetained = TRUE
  MaxErrors = 2
  SkipCycles = 1
  MaxMoves = 1
  MaxDrops = 1
  MaxTicks = 3
  MaxOverrides = 2
  MaxReads = 2
INVARIANTS EstimateBounded FailureSaysWhy RegistryAgrees CommandsOnce CommandMeansProperty SignalsSound
CHECK_DEADLOCK FALSE
