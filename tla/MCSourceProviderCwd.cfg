SPECIFICATION FairSpec
CONSTANTS
  Services <- MCServices
  Walk <- MCWalk
  Roots <- MCRoots
  Dirs <- MCDirs
  Inside <- MCInside
  Caches <- MCCaches
  InCwd <- MCCaches
  Charts <- MCCharts
  Rendered <- MCRendered
  Supported <- MCSupported
  Excludes <- MCExcludes
  Faults <- MCFaults
PROPERTY CacheFoldersPassed
CHECK_DEADLOCK FALSE
