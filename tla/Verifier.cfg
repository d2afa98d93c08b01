SPECIFICATION Spec
CONSTANTS
  Cite = {c1}
  Input <- Inputs
  World <- Worlds
  c1 = c1
INVARIANT IInv
INVARIANT FailureFreeAnswer
INVARIANT ErrorsSurface
INVARIANT ClaimsAreBacked
INVARIANT IdsFitStatus
INVARIANT LossIsConfined
