CONSTANTS
  Callers = {c1, c2, c3}
  Connections = {k1, k2}
  MaxErrors = 2
  None = None
SPECIFICATION FairSpec
INVARIANTS TypeOK MutualExclusion LocksAccounted ConnectionsAccounted
PROPERTIES OutcomesAreHonest EveryCallIsServed
CHECK_DEADLOCK FALSE
