SPECIFICATION RoutingSpec
CONSTANTS
  Tasks = {t1, t2}
  Providers = {"agent_sdk", "local-coder"}
  Class = "code_edit_broad"
  MinRuns = 1
  MinSamples = 2
  MaxRungs = 1
  RepoWired = TRUE
SYMMETRY Symmetry
CONSTRAINT Few
VIEW WithoutBuilder
CHECK_DEADLOCK FALSE
INVARIANT RouteInv
PROPERTY RollbackOnEvidence
