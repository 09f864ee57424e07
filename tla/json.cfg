SPECIFICATION Spec
CONSTANTS
  MaxItems = 5
  NestingLimit = 3
  NumberLength = 63
  IntMax = 127
  Precision = 8
  Texts <- TheTexts
  EditedTexts <- TheEdited
  Made = {"Array", "Object"}
  Strings <- TheStrings
  Names <- TheNames
  Numerals <- TheNumbers
  MaxAllocations = 5
  MaxCalls = 3
  Prebuffers = {0, 5}
INVARIANTS ListsAreLinked NothingLeaks PrintsWhatItReads FiveMoreSuffice ReadsJson
PROPERTIES ImplementsDocuments
CHECK_DEADLOCK FALSE
