\* Is every entry of a small map printed?
SPECIFICATION MapSpec
CONSTANTS
  MaxRegions = 3
INVARIANTS PrintsAll
CHECK_DEADLOCK FALSE
