SPECIFICATION Spec
CONSTANTS
  Pods = {p1}
  Slots = {s1, s2}
  KnowledgeBases = {k1}
  Callers = {1}
  None = None
  Enabled = TRUE
  MaxFaults = 1
PROPERTY StopIsRecorded
CHECK_DEADLOCK FALSE
