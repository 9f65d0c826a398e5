SPECIFICATION EngineSpec
CONSTANTS
  NumRequests = 2
  NumBlocks = 3
  BlockSize = 2
  MaxNumSeqs = 2
  MaxNumBatchedTokens = 4
  MaxModelLen = 6
  ChunkedPrefillSize = 2
  Params <- GrowingParams
  Tokens <- MCTokens
  EosTokenIds <- MCEos
  Abortable <- NobodyLeaves
INVARIANTS
  EndIsMarked
