CONSTANTS
  Size = 5
  BlockSize = 2
  u1 = u1
  u2 = u2
  u3 = u3
  Users <- Both
  BadUsers <- OnlyFirst
  MaxSegments = 2
  MULTI_CHUNK = TRUE
  OVERLAP_CHUNKS = FALSE
  KEEP_FINISHED_FILES = TRUE
  ANTI_FRAG = FALSE
  OverMoverLimit = FALSE
  MaxRestarts = 1
  MaxLosses = 0
SPECIFICATION Spec
CHECK_DEADLOCK FALSE
INVARIANTS
  TypeOK
  DoneOK
  DoneIsGood
  RunningDisjoint
  UserQueueMatches
  CompletedFileKept
PROPERTIES
  DoneMonotone
  AbstractSpec
