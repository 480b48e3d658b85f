SPECIFICATION Spec
CONSTANTS
  Unit = 3
  None = None
  MaxTime = 8
  MaxGain = 0
  MaxLoss = 0
  MaxBack = 0
  MaxForth = 0
INVARIANTS NeverBehind
CHECK_DEADLOCK FALSE
