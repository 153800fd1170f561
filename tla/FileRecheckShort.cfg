CONSTANTS
  Size = 5
  BlockSize = 2
  u1 = u1
  u2 = u2
  Users <- Both
  BadUsers <- Nobody
  MaxSegments = 2
  MULTI_CHUNK = TRUE
  OVERLAP_CHUNKS = FALSE
  KEEP_FINISHED_FILES = TRUE
  ANTI_FRAG = FALSE
  OverMoverLimit = FALSE
  MaxRestarts = 0
  MaxLosses = 0
  SmallestChecked = 1
  MaxRechecks = 2
SPECIFICATION RecheckSpec
CHECK_DEADLOCK FALSE
INVARIANTS
  CompletedFileKept
