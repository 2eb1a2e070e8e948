SPECIFICATION Spec
CONSTANTS
  num_harts = 1
  Msg = {m1, m2}
  NULL = NULL
  Consoles <- FirstHart
  Sends <- AllRequests
  MaxFiles = 1
  FifoDepth = 2
  MaxChars = 2
INVARIANT EveryInterruptHasARead
CHECK_DEADLOCK FALSE
