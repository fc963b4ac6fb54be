\* Up to 25 regions or none, so that the buffer reaches over the place of the count, and
\* both ways a firmware ends the map.
SPECIFICATION MapSpec
CONSTANTS
  MaxRegions = 25
INVARIANTS PrintsReported CountSpoilsNothing AtMostOneMissing
CHECK_DEADLOCK FALSE
