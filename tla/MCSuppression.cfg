CONSTANTS
  Sources = {s1}
  Recorders = {r1, r2, r3}
  Operators = {o1}
  Threshold = 3
  MaxReactivations = 2
  None = None
SPECIFICATION FairSpec
INVARIANTS SuppressionIsEarned
PROPERTIES PersistentFailureSuppressed
