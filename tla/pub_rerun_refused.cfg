SPECIFICATION Spec
CONSTANTS
  Runs = {r1, r2}
  NoRun = NoRun
  Unread = Unread
  PdfRuns = {}
  Healthy = {}
  CarelessOperator = FALSE
  PowerMayFail = FALSE
PROPERTY RefusedOnlyPdfFolders
