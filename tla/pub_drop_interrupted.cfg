SPECIFICATION Spec
CONSTANTS
  Runs = {r1, r2}
  NoRun = NoRun
  Unread = Unread
  PdfRuns = {r1}
  Healthy = {}
  CarelessOperator = FALSE
  PowerMayFail = FALSE
PROPERTY InterruptedDropRecovers
