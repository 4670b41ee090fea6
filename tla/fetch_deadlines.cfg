SPECIFICATION FairSpec
CONSTANTS
  Retrievals = {q1, q2}
  Nobody = Nobody
  Impatient = {q1}
  Slots = 1
  Retries = 1
  AttemptTime = 2
  OverallTime = 5
  Gap = 1
  LongestPause = 2
  MaxHops = 1
  MaxChunks = 1
INVARIANTS RulesFirst LeasesInUse
PROPERTIES StartsSpaced RetrievalsEnd
