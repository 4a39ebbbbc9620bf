CONSTANTS
  Sources = {s1}
  Recorders = {r1, r2}
  Operators = {o1}
  Threshold = 3
  MaxReactivations = 1
  None = None
SPECIFICATION Spec
INVARIANT ReactivationIsEffective
