SPECIFICATION Spec
CONSTANTS
  NumRequests = 3
  NumBlocks = 3
  BlockSize = 2
  MaxNumSeqs = 2
  MaxNumBatchedTokens = 3
  MaxModelLen = 5
  ChunkedPrefillSize = 2
  Params <- GrowingParams
  Tokens <- MCTokens
  EosTokenIds <- MCEos
  Abortable <- NoRequests
INVARIANTS
  FinishedIsPickedUp
