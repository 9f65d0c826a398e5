SPECIFICATION FairEngineSpec
CONSTANTS
  NumRequests = 2
  NumBlocks = 7
  BlockSize = 2
  MaxNumSeqs = 2
  MaxNumBatchedTokens = 3
  MaxModelLen = 5
  ChunkedPrefillSize = 2
  Params <- StreamParams
  Tokens <- MCTokens
  EosTokenIds <- MCEos
  Abortable <- SomeLeave
INVARIANTS
  AnswerIsComplete
PROPERTIES
  ImplementsClientStream
  EveryReaderEnds
  RegistryIsCleared
  StopEndsTheThread
