SPECIFICATION FairSpec
CONSTANTS
  DataPeers = {}
  ControlPeers = {c1, c2}
  Sizes = {s0}
  DefaultSize = s0
  MaxClients = 2
  MaxPending = 0
  MaxControl = 1
  FrameBudget = 1
  InLimit = 1
  OutLimit = 1
  PtyLimit = 1
  ReplayLimit = 1
  MaxSent = 1
  MaxOutput = 0
  NoPeer = NoPeer
PROPERTIES CompleteStopKept
CHECK_DEADLOCK FALSE
