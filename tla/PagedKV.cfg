SPECIFICATION KVSpec
CONSTANTS
  NumRequests = 3
  NumBlocks = 6
  BlockSize = 2
  MaxNumSeqs = 2
  MaxNumBatchedTokens = 4
  MaxModelLen = 6
  ChunkedPrefillSize = 3
  Params <- MCParams
  Tokens <- MCTokens
  EosTokenIds <- MCEos
  Abortable <- MCAbortable
INVARIANTS
  TorchReadsOwnPrefix
  TritonReadsOwnPrefix
  PrefixCached
  SamplesLastToken
