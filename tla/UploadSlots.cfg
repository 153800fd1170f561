\* One slot of each kind, and one more opened automatically.
SPECIFICATION LiveSpec
CONSTANTS
  u1 = u1
  u2 = u2
  u3 = u3
  c1 = c1
  c2 = c2
  c3 = c3
  nobody = nobody
  Users <- Three
  Nobody = nobody
  Conns <- TwoConns
  Favourites <- Nothing
  Friends <- First
  SLOTS = 1
  EXTRA_SLOTS = 1
  EXTRA_PARTIAL_SLOTS = 1
  MIN_UPLOAD_SPEED = 1
  AUTO_SLOTS = 0
INVARIANTS
  SlotsTypeOK
  SlotsAccounted
PROPERTIES
  WaitingCalled
