SPECIFICATION Spec
CONSTANTS
  Paths = {x1}
  Contents = {c1}
  Unstorable = {}
  Absent = Absent
  Pods = {p1}
  NoPod = NoPod
  CompareLimit = 300
  MaxCommits = 3
  MaxFaults = 1

INVARIANT CrashHarmless
CHECK_DEADLOCK FALSE
