SPECIFICATION FairSpec
CONSTANTS
  Calls <- MCCalls
  NtoaSize = 7
  FtoaSize = 10
  DefaultPrec = 2
  MaxPrec = 3
  BehindTable = 7
  MaxFloat = 1000000
  CharValues = 16
  ShortValues = 32
  IntValues = 64
  LongValues = 256
  MemSize = 12
INVARIANTS ParsesBack ReadsBack FillsField Rounded PowerInTable Contract
PROPERTY Returns
CHECK_DEADLOCK FALSE
