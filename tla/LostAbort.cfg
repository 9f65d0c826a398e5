SPECIFICATION EngineSpec
CONSTANTS
  NumRequests = 1
  NumBlocks = 4
  BlockSize = 2
  MaxNumSeqs = 1
  MaxNumBatchedTokens = 2
  MaxModelLen = 5
  ChunkedPrefillSize = 2
  Params <- StreamParams
  Tokens <- MCTokens
  EosTokenIds <- MCEos
  Abortable <- AllLeave
INVARIANTS
  AbortsTakeEffect
