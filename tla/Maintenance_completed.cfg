CONSTANTS
  Process = {a}
  MaxKey = 2
  SkipBegun = TRUE
  MaxCrashes = 0
SPECIFICATION FairSpec
PROPERTY StartedIsCompleted
