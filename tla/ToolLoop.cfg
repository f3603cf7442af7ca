SPECIFICATION Spec
CONSTANTS
  MaxIters = 5
  ParseBudget = 2
  Calls <- MCCalls
  OptIns <- MCOptIns
  Hosts = {"wiki"}
  RepeatWindow = 4
  RepeatThreshold = 3
  ErrorThreshold = 3
  ThrashThreshold = 3
CHECK_DEADLOCK FALSE
INVARIANTS LoopInv RiskIsNotProgress RepeatsAreCut ExpiryEndsRun
