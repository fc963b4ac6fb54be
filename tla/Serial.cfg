\* Three slots, each with or without a port, initialised up to two times; up to
\* five bytes on the line in between, over FIFOs of the least depth.
SPECIFICATION FairSpec
CONSTANTS
  Slots = 3
  Depth = 2
  MaxInits = 2
  MaxBytes = 4
INVARIANTS Configured NoOverrun Broadcast
PROPERTIES CallsReturn
CHECK_DEADLOCK FALSE
