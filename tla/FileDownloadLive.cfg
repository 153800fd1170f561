CONSTANTS
  Size = 5
  BlockSize = 2
  u1 = u1
  u2 = u2
  u3 = u3
  Users <- Both
  BadUsers <- Nobody
  MaxSegments = 2
  MULTI_CHUNK = TRUE
  OVERLAP_CHUNKS = FALSE
  KEEP_FINISHED_FILES = FALSE
  ANTI_FRAG = TRUE
  OverMoverLimit = TRUE
  MaxRestarts = 0
  MaxLosses = 1
SPECIFICATION LiveSpec
CHECK_DEADLOCK FALSE
PROPERTIES
  EventuallyComplete
  TempCleanedUp
