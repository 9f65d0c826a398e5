SPECIFICATION Spec
CONSTANTS
  NumRequests = 3
  NumBlocks = 6
  BlockSize = 2
  MaxNumSeqs = 3
  MaxNumBatchedTokens = 3
  MaxModelLen = 5
  ChunkedPrefillSize = 2
  Params <- MixedParams
  Tokens <- MCTokens
  EosTokenIds <- MCEos
  Abortable <- AllRequests
INVARIANTS
  TypeOK
  BlockOwnership
  SlotsInBounds
  ComputedMatchesEmitted
  BatchWithinBudget
  OlderPrefillFirst
  LengthLimits
  NormalFinishIsComplete
PROPERTIES
  FinishIsFinal
  ImplementsBlockPool
