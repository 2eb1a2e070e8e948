SPECIFICATION Spec
CONSTANTS
  ExpBits32 = 6
  FracBits32 = 3
  ExpBits64 = 7
  FracBits64 = 12
  IntGuard = 2
  Routines <- Conversions
  Singles <- AllSingles
  Doubles <- EdgeDoubles
  PairSingles = {}
  PairDoubles = {}
  TripleSingles = {}
  TripleDoubles = {}
  Ints32 <- AllInts32
  Ints64 <- EdgeInts64
INVARIANTS
  CorrectlyRounded
  IntegersRounded
CHECK_DEADLOCK FALSE
