CONSTANTS
  j1 = j1
  j2 = j2
  k1 = k1
  s1 = s1
  Jobs = {j1, j2}
  Caller <- MCEvent
  Limiters = {k1}
  LimiterOf <- MCShared
  MaxCalls = 1
  Window = 2
  MaxRetries = 2
  Backoff <- MCBackoff
  Times = {s1}
  Free = Free
  Others = Others
  NoWriter = {}
SPECIFICATION BookingSpec
INVARIANTS
  BookingTypeOK
  FailureIsNotified
  OrphansNeedLoss
PROPERTIES
  JobsEnd
  BookingsEnd
  KeepsPromise
