CONSTANTS
  MaxAttempts = 6
  MaxReplies = 3
SPECIFICATION Spec
INVARIANTS
  TypeOK
  TextingIsEarned
  ThreeAttempts
  WarmTakesTwoReplies
PROPERTIES
  OptOutIsFinal
  SequenceAnswersHeeded
