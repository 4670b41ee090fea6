SPECIFICATION FairSpec
CONSTANTS
  Runs = {r1, r2, r3}
  NoRun = NoRun
  Unread = Unread
  PdfRuns = {r2}
  Healthy = {r3}
  CarelessOperator = FALSE
  PowerMayFail = TRUE
INVARIANTS OneOwner AlwaysRecoverable HealthyNeverFails
PROPERTIES AtomicPublication PdfFolderUntouched HealthyEnds
