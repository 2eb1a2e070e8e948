SPECIFICATION BlankLiveSpec
CONSTANTS
  Kinds = {"mmc", "sd1", "sd2", "sdhc"}
  Sectors = 3
  Data = {d0, d1}
  Blank = d0
  MaxCount = 2
  BlockLen = 2
  Word = 8
  Tries = 5
  Faulty = TRUE
INVARIANTS ReadsStopped
PROPERTIES ImplementsBlockDevice CallReturns
CHECK_DEADLOCK FALSE
