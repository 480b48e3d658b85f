SPECIFICATION Spec
CONSTANTS
  Pods = {p1}
  Languages = {en, cs}
  Sizes = {s1, s2}
  Chunks = {k1}
  MaxBoots = 4
  MaxFaults = 2
  None = None
INVARIANT RewrittenHere
CHECK_DEADLOCK FALSE
