SPECIFICATION HostSpec
CONSTANTS
  Pods = {p1, p2}
  Slots = {s1, s2}
  KnowledgeBases = {k1}
  Callers = {1, 2}
  None = None
  Enabled = TRUE
  MaxFaults = 1
  WriterPods = {p1}
  Writes = {w1, w2}
  Texts = {text, key}
  Secrets = {key}
  Absent = Absent
  Retries = 1
  MaxElsewhere = 1
  MaxSlips = 1
  IndexerRuns = {r1, r2}
  DocumentPaths = {x, y}
  Contents <- Versions
  Models = {m1}
  BatchSize = 1
  MaxScheduled = 1
  MaxCommits = 2
  MaxRuns = 2
  MaxFailures = 1
  Words = {w}
  Titles <- TitlesTried
  LineLengths = {1, 7, 12}
  MaxChars = 10
  OverlapChars = 4
  MaxLines = 4
  MaxBody = 4
  SearchBases = {ka, kb}
  SearchPaths <- PathsTried
  Embedded = {ka}
  Stripped <- Anchorless
  TextOrder <- TextFinds
  VectorOrder <- Nearest
  Demoted <- Replaced
  Weights <- WeightsTried
  Metadata <- Tags
  Filters <- FiltersTried
  Candidates = 3
  Limit = 2
  RrfK = 2
  Scale = 60
  MaxChanges = 1
  ka = ka
  kb = kb
  SchemaPods = {p1, p2}
  Languages = {en, cs}
  Sizes = {n1, n2}
  Chunks = {c1}
  MaxBoots = 3
  SchemaMaxFaults = 2
INVARIANTS OneRunAtATime CommitsOnce BacklogSound ChunksSound AnswersWhole SchemaServes
PROPERTIES QueuedIsKept CommitsLawful
CHECK_DEADLOCK FALSE
