CONSTANTS
  Anchors = {a1, a2}
  Syncs = {p1, p2}
  MaxOrder = 3
  None = None
SPECIFICATION Spec
INVARIANTS OrdersAreUnique RowsAreWhole ReportsAreTrue WritesAreReported
PROPERTIES ImplementsRegister
SYMMETRY MCSymmetry
CHECK_DEADLOCK FALSE
