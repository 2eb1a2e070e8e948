SPECIFICATION Spec
CONSTANTS
  num_harts = 1
  Msg = {m1, m2, m3}
  NULL = NULL
  Consoles <- FirstHart
  Sends <- AllRequests
  MaxFiles = 1
  FifoDepth = 2
  MaxChars = 3
SYMMETRY MsgSymmetry
PROPERTY ImplementsService
INVARIANTS TypeOK MessagesConserved CharsInOrder
CHECK_DEADLOCK FALSE
