SPECIFICATION LiveSpec
CONSTANTS
  Phys = {0, 1, 2}
  num_harts = 2
  Segments = 2
INVARIANTS EntersWhenReady StacksDisjoint
PROPERTY AllArrive
CHECK_DEADLOCK FALSE
