SPECIFICATION GenerationSpec
CONSTANTS
  Vocab <- MCVocab
  EosTokenIds <- MCEos
  Characters <- MCCharacters
  Replacement = "U+FFFD"
  Decode <- JoinBytes
  Rows <- EvenRows
  SamplingParamSet <- EvenParams
  Prompts <- MCPrompts
  MaxTokens = 4
INVARIANTS
  CorrectAroundMultiByte
CHECK_DEADLOCK FALSE
