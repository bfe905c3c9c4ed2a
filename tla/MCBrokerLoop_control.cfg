SPECIFICATION Spec
CONSTANTS
  DataPeers = {d1, d2}
  ControlPeers = {c1, c2}
  Sizes = {s0}
  DefaultSize = s0
  MaxClients = 1
  MaxPending = 0
  MaxControl = 1
  FrameBudget = 1
  InLimit = 1
  OutLimit = 1
  PtyLimit = 1
  ReplayLimit = 0
  MaxSent = 1
  MaxOutput = 0
  NoPeer = NoPeer
ACTION_CONSTRAINT WorldBetweenTurns
CONSTRAINT ShellLives
SYMMETRY Symmetry
INVARIANTS WithinBudget
PROPERTIES StopLostOnlyByEviction
CHECK_DEADLOCK FALSE
