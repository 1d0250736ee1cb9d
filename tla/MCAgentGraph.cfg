CONSTANTS
  None = None
  t1 = t1
  t2 = t2
  p1 = p1
  Turns <- MCTurns
  Prospects <- MCProspects
  Thread <- MCThread
  Events <- MCEvents
  Findings <- MCFindings
  Drafts <- MCDrafts
  Answers <- MCAnswers
  Live = FALSE
  SinkEmail = TRUE
  SinkPhone = TRUE
  RecursionLimit = 11
  Limit = 1
  MaxCost = 1
SPECIFICATION Spec
INVARIANTS TypeOK DraftsReviewed DarkMeansSink SentIsRecorded ThreadKeepsTurns
PROPERTIES GuardRefined 
CHECK_DEADLOCK FALSE
