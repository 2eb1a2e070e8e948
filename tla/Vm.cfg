SPECIFICATION VmSpec
CONSTANTS
  h1 = h1
  h2 = h2
  f1 = f1
  f2 = f2
  v1 = v1
  v2 = v2
  v3 = v3
  Harts = {h1, h2}
  Files = {f1}
  Regions = {v1, v2}
  NoHart = NoHart
  NoFile = NoFile
  NoRegion = NoRegion
  FilePages = 1
  KernelPages = 1
  Top = 4
  BrkMin = 2
  Prots <- MCProts
  Offsets = {0}
  MaxCalls = 3
INVARIANTS CountsExact ContentsAsAsked RightsAsAsked GrowthSparesMappings ReadsAtOffset
PROPERTIES StoresSurvive
SYMMETRY MCSymmetry
CHECK_DEADLOCK FALSE
