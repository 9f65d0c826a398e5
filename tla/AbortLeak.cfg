SPECIFICATION Spec
CONSTANTS
  NumRequests = 3
  NumBlocks = 5
  BlockSize = 2
  MaxNumSeqs = 2
  MaxNumBatchedTokens = 3
  MaxModelLen = 5
  ChunkedPrefillSize = 2
  Params <- FittingParams
  Tokens <- MCTokens
  EosTokenIds <- MCEos
  Abortable <- AllRequests
INVARIANTS
  AbortFreesBlocks
