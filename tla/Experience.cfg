SPECIFICATION Spec
CONSTANTS
  Tasks = {t1}
  Signatures <- Situations
  Strategies = {"harden"}
  QuarantineN = 2
  StaleN = 3
  MinShadow = 1
  MinWeeks = 1
  MinHeldout = 2
  MinSamples = 1
  MaxAdvised = 2
  Enough = 2
  MaxExps = 2
  MaxShadow = 2
CHECK_DEADLOCK FALSE
INVARIANTS MemoryInv FailingIsRetired
PROPERTIES PromotionIsEarned ContradictedIsQuarantined
