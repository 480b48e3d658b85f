SPECIFICATION Spec
CONSTANTS
  Paths = {x1, x2, x3}
  Contents = {c1, nul}
  Unstorable = {nul}
  Absent = Absent
  Pods = {p1, p2}
  NoPod = NoPod
  CompareLimit = 3
  MaxCommits = 2
  MaxFaults = 2
SYMMETRY Symmetry
INVARIANTS OnlyTornDiffer CompleteRunHeals
PROPERTIES MirrorsSource
CHECK_DEADLOCK FALSE
