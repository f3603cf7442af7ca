SPECIFICATION Spec
CONSTANTS
  MaxKills = 2
  MaxResumes = 3
CHECK_DEADLOCK FALSE
INVARIANTS PathInv EndedOrAsked FileIsReported CompletedAnswers
