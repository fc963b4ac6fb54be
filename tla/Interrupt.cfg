\* An exception without and one with error code, one that does not return, the
\* spurious vector and an external one; an NMI at any point on top of each.
SPECIFICATION Spec
CONSTANTS
  Vectors = {2, 3, 8, 14, 32, 255}
  MaxDepth = 2
INVARIANTS EveryVectorHandled HandlerArguments
PROPERTIES Transparent
CHECK_DEADLOCK FALSE
