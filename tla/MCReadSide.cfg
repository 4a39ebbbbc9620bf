CONSTANTS
  Jobs = {j1, j2}
  Registries <- MCRegistries
  ClockSkews = {0, 1}
  FutureTolerance = 0
  MaxRegistryTime = 1
  MaxLosses = 1
  ScoredCorridors = {c1, c2}
  Evaluations = {e1, e2}
  MinOutcomes = 30
  MaxFacts = 2
  RefreshInterval = 2
  MaxDashboardTime = 5
  MaxLoads = 4
SPECIFICATION Spec
CHECK_DEADLOCK FALSE
INVARIANTS FindingsAreExplained BootstrapConverges EvidenceIsNeverRetired
           ScoresRestOnOneMoment PollerKeepsPace PanelsShowTheNewest
SYMMETRY MCSymmetry
