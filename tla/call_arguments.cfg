SPECIFICATION Spec
CONSTANTS
  UintWidth = 4
  SizeWidth = 4
  Items <- FlatItems
  MaxArguments = 4
  SignatureHash <- FourBytes
INVARIANTS TypeOK ShortArgumentsArrive
CHECK_DEADLOCK FALSE
