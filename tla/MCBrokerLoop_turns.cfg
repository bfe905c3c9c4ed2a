SPECIFICATION FairSpec
CONSTANTS
  DataPeers = {d1}
  ControlPeers = {}
  Sizes = {s0}
  DefaultSize = s0
  MaxClients = 2
  MaxPending = 0
  MaxControl = 1
  FrameBudget = 1
  InLimit = 3
  OutLimit = 1
  PtyLimit = 1
  ReplayLimit = 1
  MaxSent = 3
  MaxOutput = 2
  NoPeer = NoPeer
ACTION_CONSTRAINT WorldBetweenTurns
INVARIANTS QueueIsUnsentOutput NoStaleEvent
PROPERTIES ImplementsTerminal FramesResumed IdlePlaceFreed OutputNeverStalls
CHECK_DEADLOCK FALSE
