SPECIFICATION FairSpec
CONSTANTS
  Services <- MCServices
  Queries <- MCQueries
  QueryPlatform <- MCQueryPlatform
  ServicePlatforms <- MCServicePlatforms
INVARIANTS
  BarOutlivesWorkers
  ClosedAfterLastTick
  SuccessIsQuiet
  PanicNeedsTwoFailures
PROPERTIES
  ImplementsScanResult
