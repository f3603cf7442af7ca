SPECIFICATION FairSpec
CONSTANTS
  d1 = d1
  d2 = d2
  Diffs = {d1}
  NoDiff = NoDiff
  MaxPlans = 9
  PlanLen <- TwoStepPlan
  External = {}
  Sensitive = {}
  Refused = {}
  HasFallback = FALSE
  HasCritic = TRUE
  HasT2 = FALSE
  T2OnEscalationOnly = FALSE
  HasRouter = TRUE
  PerFilePolicy = FALSE
  MaxCrashes = 0
  MaxResumes = 0
CHECK_DEADLOCK FALSE
INVARIANTS ReplansBounded
PROPERTIES DriveEnds
