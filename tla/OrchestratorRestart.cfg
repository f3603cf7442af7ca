SPECIFICATION Spec
CONSTANTS
  d1 = d1
  d2 = d2
  Diffs = {d1, d2}
  NoDiff = NoDiff
  MaxPlans = 2
  PlanLen <- TwoStepPlan
  External <- PlanOneExternal
  Sensitive <- SecondStepSensitive
  Refused <- ReplanRefused
  HasFallback = TRUE
  HasCritic = TRUE
  HasT2 = TRUE
  T2OnEscalationOnly = FALSE
  HasRouter = TRUE
  PerFilePolicy = TRUE
  MaxCrashes = 1
  MaxResumes = 2
CHECK_DEADLOCK FALSE
INVARIANTS IInv CompletedIsVerified ApprovalRespected PausedHasQuestion PassIsNotRebuilt UnseenEffectAsked RaisesOnlyUnstarted
PROPERTIES TerminalFrozen ImplementsDelivery
