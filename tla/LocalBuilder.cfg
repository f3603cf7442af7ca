SPECIFICATION Spec
CONSTANTS
  MaxTurns = 7
  Patience = 2
  Churn = 2
CHECK_DEADLOCK FALSE
INVARIANTS IInv MissingImplWasDemanded TurnsArePaidFor
