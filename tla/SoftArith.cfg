SPECIFICATION Spec
CONSTANTS
  ExpBits32 = 4
  FracBits32 = 2
  ExpBits64 = 5
  FracBits64 = 8
  IntGuard = 2
  Routines <- Arithmetic
  Singles <- AllSingles
  Doubles <- AnyDoubles
  PairSingles <- PairsOfSingles
  PairDoubles <- PairsOfDoubles
  TripleSingles <- FewSingles
  TripleDoubles <- FewDoubles
  Ints32 = {}
  Ints64 = {}
INVARIANTS
  CorrectlyRounded
  FlagsHonest
  SpecialValues
  RemainderExact
  OrderAgrees
CHECK_DEADLOCK FALSE
