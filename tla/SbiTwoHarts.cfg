SPECIFICATION LiveSpec
CONSTANTS
  num_harts = 2
  Msg = {m1}
  NULL = NULL
  Consoles <- FirstHart
  Sends <- ConsoleRequests
  MaxFiles = 0
  FifoDepth = 2
  MaxChars = 2
INVARIANTS NoLostWakeup NoEmptyRead
PROPERTIES IpiAcknowledged ResponseCollected
CHECK_DEADLOCK FALSE
