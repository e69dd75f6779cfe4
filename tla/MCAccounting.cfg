SPECIFICATION Spec
CONSTANTS
  Goroutines <- MCGoroutines
  Scenarios <- MCScenarios
  File <- MCFile
  Query <- MCQuery
  Unmarshalled <- MCUnmarshalled
INVARIANTS
  InspectsOwnFiles
  NeverOvercounted
  ExactWithoutRaces
