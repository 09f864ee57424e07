SPECIFICATION Spec
CONSTANTS
  K <- RoundWord
  InitialState <- InitialWords
  Kinds <- AllKinds
  Pattern <- PatternByte
  Pieces <- AroundBlocks
  Addresses = {0, 3}
  MaxUpdates = 2
INVARIANTS AbsorbsTheMessage DigestIsTheStandards
CHECK_DEADLOCK FALSE
