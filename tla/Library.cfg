SPECIFICATION Spec
CONSTANTS
  Stems = {a}
  Texts = {t1, t2, scan}
  Unreadable = {scan}
  MaxFiles = 2
CHECK_DEADLOCK FALSE
INVARIANTS LibraryInv StartedIsGrounded
PROPERTIES DocumentsOutliveRuns
