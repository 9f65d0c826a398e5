SPECIFICATION FairSpec
CONSTANTS
  NumRequests = 3
  NumBlocks = 5
  BlockSize = 2
  MaxNumSeqs = 3
  MaxNumBatchedTokens = 3
  MaxModelLen = 9
  ChunkedPrefillSize = 1
  Params <- QueueParams
  Tokens <- MCTokens
  EosTokenIds <- MCEos
  Abortable <- OlderRequests
INVARIANTS
  ArrivalOrder
  EveryoneAdvances
PROPERTIES
  EmptyStepDropsEveryone
  AbortedLeavesBatch
  OnlyUnservableBlocks
