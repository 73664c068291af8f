CONSTANTS
  Instance = {a}
  MaxConfig = 2
  MaxFaults = 2
SPECIFICATION FairSpec
PROPERTY OneConnection
