CONSTANTS
  None = None
  Companies <- MCCompanies
  Rows <- MCRows
  ModernNames <- MCModernNames
  EarlyRounds <- MCEarlyRounds
  Similar <- MCSimilar
  Bench <- MCBench
  IgnoreDates = {TRUE, FALSE}
  Live = FALSE
  ModelViolations = {3}
  MaxRetries = 2
SPECIFICATION Spec
INVARIANTS Grounded SegmentEarned
CHECK_DEADLOCK FALSE
