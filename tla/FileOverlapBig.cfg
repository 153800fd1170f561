CONSTANTS
  Size = 4
  BlockSize = 2
  u1 = u1
  u2 = u2
  u3 = u3
  Users <- Both
  BadUsers <- Nobody
  MaxSegments = 2
  MULTI_CHUNK = TRUE
  OVERLAP_CHUNKS = TRUE
  KEEP_FINISHED_FILES = FALSE
  ANTI_FRAG = FALSE
  OverMoverLimit = TRUE
  MaxRestarts = 0
  MaxLosses = 0
SPECIFICATION Spec
CHECK_DEADLOCK FALSE
INVARIANTS
  CompletedFileKept
