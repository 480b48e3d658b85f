SPECIFICATION FairSpec
CONSTANTS
  k1 = k1
  k2 = k2
  app = app
  token = token
  x = x
  y = y
  KnowledgeBases = {k1, k2}
  Repositories = {x, y}
  Apps = {app}
  Tokens = {token}
  Rotating = {app}
  Discoveries = {d1, d2, d3}
  None = None
  Sources <- SourcesTried
  Coverage <- CoverageAtFirst
  MaxChanges = 1

PROPERTY Recovers
CHECK_DEADLOCK FALSE
