SPECIFICATION Spec
CONSTANTS
  fs_type = 32
  n_fatent = 7
  n_fats = 2
  csize = 1
  n_rootdir = 0
  SS = 2
  FatSlots = 4
  DirSlots = 1
  f = f
  g = g
  v1 = v1
  v2 = v2
  Name = {f, g}
  Modes = {"always", "create"}
  Counts = {3}
  Versions = {v1, v2}
  Held = 3
  Offsets = {0, 1, 3}
  MaxSize = 4
  Faults = {"error", "off"}
  MaxAccess = 14
  MaxFaults = 1
  MaxCalls = 5
INVARIANT ReadsBack SyncedSurvive NoCrossLinks Accounted
SYMMETRY Alike
CHECK_DEADLOCK FALSE
