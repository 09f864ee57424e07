SPECIFICATION Spec
CONSTANTS
  W = 8
  L = 2
  Prime = 1048571
  Starts = {0, 1, 2, 255, 256, 65535, 65536, 1048570, 1048571, 1048572, 1048575}
  MaxCalls = 3
INVARIANTS TypeOK ResidueKept ReducedAsPromised
CHECK_DEADLOCK FALSE
