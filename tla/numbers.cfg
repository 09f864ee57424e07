SPECIFICATION Spec
CONSTANTS
  UintWidth = 2
  SizeWidth = 4
  WordDigits = 2
  LongMax = 32767
  Uints <- SomeUints
  Words <- SomeWords
  Texts <- SomeTexts
INVARIANTS TypeOK KeepsItsValue NonZeroDecimals ConvertsOrSaturates
