SPECIFICATION Spec
CONSTANTS
  Properties = {a, b}
  Values = {v1, v2}
  None = None
  Callers = {r1, r2}
  Ids = {i1, i2}
  DispatchOnChange = FALSE
  Commands = TRUE
  MaxFaults = 1
SYMMETRY Symmetry
VIEW Shownless
INVARIANTS PollerHonest NoOrphans
