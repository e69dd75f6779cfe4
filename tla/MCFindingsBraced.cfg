SPECIFICATION FindingsSpec
CHECK_DEADLOCK FALSE
CONSTANTS
  AllSeverities <- MCAllSeverities
  ToUpper <- MCToUpper
  Dotted <- MCDotted
  Searches <- MCSearches
  PathSearches <- MCPathSearches
  Detections <- MCDetections
INVARIANT
  BracedValueFound
