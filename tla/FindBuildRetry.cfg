SPECIFICATION Spec
CONSTANTS
  d1 = d1
  d2 = d2
  Diffs = {d1}
  NoDiff = NoDiff
  MaxPlans = 2
  PlanLen <- TwoStepPlan
  External <- PlanOneExternal
  Sensitive = {}
  Refused = {}
  HasFallback = TRUE
  HasCritic = TRUE
  HasT2 = TRUE
  T2OnEscalationOnly = FALSE
  HasRouter = TRUE
  PerFilePolicy = TRUE
  MaxCrashes = 0
  MaxResumes = 0
CHECK_DEADLOCK FALSE
PROPERTIES BuildErrorRetried
