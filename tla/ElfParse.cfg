\* Tables of up to four sections in any order, close to their headers and far from them;
\* a count that wraps at four and fields that wrap at eight.
SPECIFICATION Spec
CONSTANTS
  Sections <- MCSections
  Shoffs = {6, 11}
  MaxSections = 4
  CountValues = 4
  FieldValues = 8
INVARIANTS WholeImage NoStaleImage
CHECK_DEADLOCK FALSE
