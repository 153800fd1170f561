CONSTANTS
  Size = 4
  BlockSize = 2
  u1 = u1
  u2 = u2
  u3 = u3
  Users <- Both
  BadUsers <- Nobody
  MaxSegments = 2
  MULTI_CHUNK = TRUE
  OVERLAP_CHUNKS = FALSE
  KEEP_FINISHED_FILES = TRUE
  ANTI_FRAG = FALSE
  OverMoverLimit = FALSE
  MaxRestarts = 1
  MaxLosses = 1
SPECIFICATION Spec
CHECK_DEADLOCK FALSE
INVARIANTS
  DoneIsGood
