SPECIFICATION Spec
CONSTANTS
  Recoverers = {r1, r2}
  Foreign = {x1, x2}
  None = None
INVARIANTS IInv ForeignObjectsSurvive ArtifactsAreReported SuccessMeansGone NoSelfInterference
PROPERTY RemovalEnds
CHECK_DEADLOCK FALSE
