SPECIFICATION Spec
CONSTANTS
  DataPeers = {d1, d2, d3}
  ControlPeers = {}
  Sizes = {s0, s1}
  DefaultSize = s0
  MaxClients = 2
  MaxPending = 1
  MaxControl = 1
  FrameBudget = 1
  InLimit = 1
  OutLimit = 1
  PtyLimit = 1
  ReplayLimit = 0
  MaxSent = 1
  MaxOutput = 0
  NoPeer = NoPeer
ACTION_CONSTRAINT WorldBetweenTurns
SYMMETRY Symmetry
INVARIANTS TypeOK ControllerDecidesSize
CHECK_DEADLOCK FALSE
