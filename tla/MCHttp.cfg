\* Requests in up to three pieces, and requests with one byte changed.
CONSTANTS
  Word <- MCWord
  Files <- MCFiles
  Directories <- MCDirectories
  Paths <- MCPaths
  HeaderLists <- MCHeaderLists
  Bodies <- MCBodies
  BadUris <- MCBadUris
  NoisyPaths <- MCNoisyPaths
  Noise <- MCNoise
  MaxLong = 2
  MaxReads = 3
SPECIFICATION Spec
INVARIANTS UnderstoodAsMeant GoodExactlyForHeads EditWholeOrEmpty AnswerFitsRequest
WholeRequestAnswered
CHECK_DEADLOCK FALSE
