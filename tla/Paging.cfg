\* The real tables and addresses, built by two cores one after the other, over
\* memory that holds anything.
SPECIFICATION Spec
CONSTANTS
  N = 512
  VApic = 629632
  PApic = 2039
  Garbage <- MCGarbage
  MaxBoots = 1
INVARIANTS IdentityMapped ApicMapped
CHECK_DEADLOCK FALSE
