SPECIFICATION FairSpec
CONSTANTS
  w1 = w1
  w2 = w2
  NumQueries = 3
  Workers <- MCWorkers
  QueryName <- MCQueryName
INVARIANTS
  HandledOnce
  ResultsNeverBlock
  SendsBeforeClose
  AllAccounted
  FailuresRecorded
PROPERTIES
  KeepsContract
