SPECIFICATION SumSpec
CONSTANTS
  Parts = {"render"}
  Requests = {q1, q2, q3}
  MaxAttempts = 5
  Allowance = 2
  BackendTries = 3
  Pair = {1, 2}
  Faults = {"cancel", "io"}
  Foundations = {"absent", "private", "open", "foreign", "native"}
  Files = {1, 2, 3}
  Hidden = {3}
  Changes = 2
  Topics = 5
  MayCancel = TRUE
  Questions = 2
  Offered = {1, 2, 3}
  Disabled = {2}
  Keys = {"enter", "left", "esc", "space", "down", "tab", "char"}
  MaxKeys = 4
  MaxPending = 2
  PinnedFiles <- ToolFiles
  MaxPinChanges = 3
  MaxChecks = 2
  GuideEntries = 3
  OutlinePages = 5
  FooterTopics = 2
  Archive <- PinnedArchives
  Selecting <- SelectionsMade
  Folded <- CaseFolded
  AllowedRoots = {"r"}
  MaxMembers = 3
  MaxFileBytes = 2
  MaxTotalBytes = 3
INVARIANTS FailureKeepsHTML
CHECK_DEADLOCK FALSE
