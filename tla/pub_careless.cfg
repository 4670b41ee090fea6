SPECIFICATION Spec
CONSTANTS
  Runs = {r1, r2, r3}
  NoRun = NoRun
  Unread = Unread
  PdfRuns = {}
  Healthy = {}
  CarelessOperator = TRUE
  PowerMayFail = FALSE
SYMMETRY RunSymmetry
INVARIANTS NothingDestroyed
