CONSTANTS
  None = None
  t1 = t1
  t2 = t2
  p1 = p1
  Turns <- MCTurns
  Prospects <- MCProspects
  Thread <- MCThread
  Events <- MCEvents
  Findings <- MCFindings
  Drafts <- MCDrafts
  Answers <- MCAnswers
  Live = TRUE
  SinkEmail = TRUE
  SinkPhone = TRUE
  RecursionLimit = 11
  Limit = 1
  MaxCost = 1
SPECIFICATION Spec
INVARIANT BlockedSendsNothing
CHECK_DEADLOCK FALSE
