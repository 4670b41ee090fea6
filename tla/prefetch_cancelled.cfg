SPECIFICATION FairSpec
CONSTANTS
  Workers = {w1}
  Topics = 3
  MayCancel = TRUE
PROPERTIES CancelledReturns
CHECK_DEADLOCK FALSE
