CONSTANTS
  Keys = {k1, k2, k3}
  Requests = {r1, r2}
  MaxAge = 1
  MaxSnapshots = 2
  MaxTime = 1
  MaxMishaps = 1
  None = None
SPECIFICATION Spec
INVARIANTS StaleAnswersAreEvidence DatabaseIsAuthoritative StoreIsBounded
SYMMETRY MCSymmetry
