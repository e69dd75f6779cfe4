SPECIFICATION FairSpec
CONSTANTS
  Services <- MCServices
  Walk <- MCWalk
  Roots <- MCRoots
  Dirs <- MCDirs
  Inside <- MCInside
  Caches <- MCCaches
  InCwd <- MCNotInCwd
  Charts <- MCCharts
  Rendered <- MCRendered
  Supported <- MCSupported
  Excludes <- MCExcludes
  Faults <- MCFaults
INVARIANTS
  WalkComplete
  RenderedNotParsed
  OutermostChartOnly
PROPERTIES
  Finishes
