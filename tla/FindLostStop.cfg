SPECIFICATION Spec
CONSTANTS
  Runs = {r1, r2}
  NoRun = NoRun
  MaxCalls = 2
  OpenMayFail = FALSE
INVARIANTS StoppingRunStops
