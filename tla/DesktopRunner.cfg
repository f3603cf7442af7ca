SPECIFICATION FairSpec
CONSTANTS
  Runs = {r1, r2}
  NoRun = NoRun
  MaxCalls = 2
  OpenMayFail = TRUE
INVARIANTS IInv StopIsForThisRun
PROPERTIES ImplementsCancellableRun RunsEnd
