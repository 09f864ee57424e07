SPECIFICATION Spec
CONSTANTS
  UintWidth = 4
  SizeWidth = 4
  Items <- LongItems
  MaxArguments = 4
  SignatureHash <- FourBytes
INVARIANT ArgumentsArrive
CHECK_DEADLOCK FALSE
