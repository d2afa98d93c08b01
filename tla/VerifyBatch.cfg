SPECIFICATION FewPlainSpec
CONSTANTS
  Cite = {1, 2, 3}
  Input <- Inputs
  World <- Worlds
  MAX_CITATIONS_PER_CHUNK = 2
  MAX_ATTEMPTS = 2
  ResponseCap = 2
  Entries <- OneEach
INVARIANT NoHitTruncated
INVARIANT EveryPlaceFilled
PROPERTY ImplementsVerify
PROPERTY BatchReturns
