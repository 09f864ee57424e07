SPECIFICATION FairSpec
CONSTANTS
  W = 4
  L = 2
  Prime = 4093
INVARIANTS TypeOK LoopInvariant ReturnsInverse
PROPERTIES ImplementsAlgorithm Returns
CHECK_DEADLOCK FALSE
