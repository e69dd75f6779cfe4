SPECIFICATION Spec
CONSTANTS
  Goroutines <- MCGoroutines
  Scenarios <- TwoFiles
  File <- MCFile
  Query <- MCQuery
  Unmarshalled <- MCUnmarshalled
INVARIANTS
  ResourcesCounted
