CONSTANTS
  DegradedThreshold = 2
  DownThreshold = 3
  DefiniteThreshold = 2
  RecoveryThreshold = 2
  SustainedWindow = 2
  MaxObservedAt = 4
  MaxStreak = 4
SPECIFICATION HealthSpec
PROPERTIES DeterministicDownIsConsecutive
