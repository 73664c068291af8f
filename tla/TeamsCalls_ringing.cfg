CONSTANTS
  Handler = {h}
  MaxPresses = 2
  MaxFaults = 0
CHECK_DEADLOCK FALSE
SPECIFICATION FairSpec
PROPERTY RingingStops
