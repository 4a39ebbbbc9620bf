CONSTANTS
  s1 = s1
  a1 = a1
  Sources = {s1}
  SourceList <- MCSourceList
  Anchors = {a1}
  AnchorOf <- MCAnchorOf
  Cycles = {c1}
  Operators = {}
  Threshold = 3
  FreshFor = 1
  MaxReactivations = 0
  MaxRuns = 4
  MaxTime = 1
  None = None
SPECIFICATION Spec
INVARIANT SuppressionIsConsecutive
CHECK_DEADLOCK FALSE
