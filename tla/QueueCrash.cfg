CONSTANTS
  i1 = i1
  i2 = i2
  nofile = nofile
  Items <- TwoItems
  None <- nofile
  Delay = 2
  MaxFaults = 0
  MaxCrashes = 1
SPECIFICATION Spec
INVARIANT
  QueueNotLost
