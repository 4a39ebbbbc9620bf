CONSTANTS
  s1 = s1
  a1 = a1
  Sources = {s1}
  SourceList <- MCSourceList
  Anchors = {a1}
  AnchorOf <- MCAnchorOf
  Cycles = {c1, c2}
  Operators = {o1}
  Threshold = 1
  FreshFor = 0
  MaxReactivations = 1
  MaxRuns = 3
  MaxTime = 1
  None = None
SPECIFICATION Spec
INVARIANTS SucceededIsDurable OkIsTruthful
PROPERTIES SuppressedNotCaptured UsesSuppressionStore
SYMMETRY MCSymmetry
CHECK_DEADLOCK FALSE
