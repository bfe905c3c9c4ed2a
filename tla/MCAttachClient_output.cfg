SPECIFICATION Spec
CONSTANTS
  Total = 6
  MaxChunk = 2
  ReplayLimit = 2
  ClientLimit = 4
  AttachLimit = 4
  SocketRoom = 2
INVARIANTS BuffersExact NoSilentGap LatestIsKept
PROPERTIES ArrivedIsShown LatestIsShown SizeFollows
CHECK_DEADLOCK FALSE
