CONSTANTS
  j1 = j1
  j2 = j2
  k1 = k1
  k2 = k2
  Jobs = {j1, j2}
  Caller <- MCPipeline
  Limiters = {k1}
  LimiterOf <- MCShared
  MaxCalls = 2
  Window = 3
  MaxRetries = 2
  Backoff <- MCBackoff
SPECIFICATION Spec
INVARIANTS
  WindowHolds
  NothingVanishes
  DuplicatesNeedLoss
