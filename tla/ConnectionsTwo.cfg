CONSTANTS
  u1 = u1
  c1 = c1
  c2 = c2
  s1 = s1
  s2 = s2
  nobody = nobody
  nothing = nothing
  Users <- One
  Nobody <- nobody
  Conns <- TwoConns
  Segments <- TwoSegments
  NoSegment <- nothing
  Priorities <- OnOff
  DOWNLOAD_SLOTS = 0
  EXTRA_DOWNLOAD_SLOTS = 0
  MaxTroubles = 2
SPECIFICATION Spec
CHECK_DEADLOCK FALSE
INVARIANT
  OneDownloadPerUser
