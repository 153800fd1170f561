\* One slot, and one more that may be opened automatically.
SPECIFICATION Spec
CONSTANTS
  u1 = u1
  u2 = u2
  u3 = u3
  c1 = c1
  c2 = c2
  c3 = c3
  nobody = nobody
  Users <- Three
  Nobody = nobody
  Conns <- ThreeConns
  Favourites <- Nothing
  Friends <- Nothing
  SLOTS = 1
  EXTRA_SLOTS = 0
  EXTRA_PARTIAL_SLOTS = 0
  MIN_UPLOAD_SPEED = 1
  AUTO_SLOTS = 1
INVARIANTS
  AutoSlotsBounded
CHECK_DEADLOCK FALSE
