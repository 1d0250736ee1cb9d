CONSTANTS
  c1 = c1
  c2 = c2
  c3 = c3
  Callers <- MCCallers
  Limit = 3
  MaxCost = 2
  MaxSpend = 8
SPECIFICATION Spec
INVARIANTS TypeOK SpendBounded
PROPERTY HaltsUntilAcknowledged
