CONSTANTS
  Stampers = {s1, s2}
  Callers = {c1, c2}
  Connections = {k1, k2}
  MaxFailovers = 2
  MaxAttempts = 3
  BaseDelay = 2
  MaxDelay = 3
  RetryDeadline = 5
  MaxRetryAfter = 3
  AttemptTimeout = 2
  MaxRetryTime = 8
  DegradedThreshold = 2
  DownThreshold = 3
  DefiniteThreshold = 2
  RecoveryThreshold = 2
  SustainedWindow = 2
  MaxObservedAt = 4
  MaxStreak = 4
  MaxAnswers = 2
  ClockSkew = 1
  MaxTokenTime = 2
  QuoteAssets = {a1, a2}
  MaxRow = 3
  PageSize = 2
  MaxExports = 2
  OverlapWindow = 2
  EvidenceMaxAge = 1
  MaxGuardTime = 4
  MaxGenerations = 3
  RotationWindow = 2
  AllowedSkew = 1
  MaxCronTime = 3
SPECIFICATION Spec
CHECK_DEADLOCK FALSE
INVARIANTS
  EnvironmentIsolation ProductionIsAuthenticated CommitIsNeverDenied
  NoAnswerAfterTimeout AuthenticationIsBound CapabilitiesAccounted
  DrillReportsAreTrue  BackupsStayRestorable RotationIsBounded
  InstallIsReproduced ReleaseIsOfOneGeneration
PROPERTIES NoRetryAfterAbort ChangesAreEarned
