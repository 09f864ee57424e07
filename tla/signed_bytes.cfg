SPECIFICATION Spec
CONSTANTS
  UintWidth = 2
  SizeWidth = 4
  Keys = {"alice", "bob"}
  Properties <- SomeTransactions
  Chains <- AllChains
  OwnChains <- SomeChains
  Halves <- SomeHalves
  LongMax = 2147483647
INVARIANTS TypeOK AcceptedAsMeant NoReplay
CHECK_DEADLOCK FALSE
