SPECIFICATION Spec
CONSTANTS
  ExpBits32 = 4
  FracBits32 = 3
  ExpBits64 = 5
  FracBits64 = 10
  IntGuard = 2
  ByteBits = 2
  PageSize = 8
  TextPage = 9
  Program <- AnyThenCsr
  Words <- SomeWords
  Singles <- SomeSingles
  Doubles <- SomeDoubles
  Factors <- SomeFactors
  Addends <- SomeAddends
  CsrWords = {0, 1, 6, 255, 257}
  Addresses = {0, 1, 2, 3, 4, 5, 6, 7, 8, 9, 12}
  Memories <- SomeMemories
  PageSets <- SomePages
  Fcsrs = {0, 64, 191}
INVARIANTS
  AccessesComplete
  ResultsAsNamed
  NothingElseChanges
  RedirectedAsTrapped
CHECK_DEADLOCK FALSE
