SPECIFICATION LossySpec
CONSTANTS
  Paths = {x1}
  Contents = {c1}
  Unstorable = {}
  Absent = Absent
  Pods = {p1, p2}
  NoPod = NoPod
  CompareLimit = 2
  MaxCommits = 3
  MaxFaults = 1

PROPERTY CursorCatchesUp
CHECK_DEADLOCK FALSE
