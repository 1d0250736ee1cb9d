CONSTANTS
  c1 = c1
  c2 = c2
  Callers = {c1, c2}
  MaxServers = 2
  MaxUses = 2
  LookAlike <- MCLookAlike
  Uses <- MCUses
SPECIFICATION Spec
INVARIANTS
  TypeOK
  AnswerIsOwn
  HandshakeFirst
  UpsertedExists
PROPERTY
  ToolsReturn
CHECK_DEADLOCK FALSE
