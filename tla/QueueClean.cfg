CONSTANTS
  i1 = i1
  i2 = i2
  nofile = nofile
  Items <- TwoItems
  None <- nofile
  Delay = 2
  MaxFaults = 2
  MaxCrashes = 0
SPECIFICATION Spec
INVARIANT
  CleanIsOnDisk
