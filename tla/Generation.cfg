SPECIFICATION GenerationSpec
CONSTANTS
  Vocab <- MCVocab
  EosTokenIds <- MCEos
  Characters <- MCCharacters
  Replacement = "U+FFFD"
  Decode <- JoinAndTidy
  Rows <- MCRows
  SamplingParamSet <- MCParams
  Prompts <- MCPrompts
  MaxTokens = 4
INVARIANTS
  PenalisedOnce
  SomethingToDraw
  AmongTheBest
  GreedyTakesBest
  DeltasKeepPlace
PROPERTIES
  SmallestNucleus
CHECK_DEADLOCK FALSE
