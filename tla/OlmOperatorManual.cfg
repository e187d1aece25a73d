SPECIFICATION FairSpec
CONSTANTS
  testpmd = testpmd
  trex = trex
  None = None
  Operators <- MCOperators
  MaxVersion = 2
  Requests <- MCManualRequests
  Tries <- MCTries
  MaxRuns = 2
INVARIANTS
  ManualMeansAsked
PROPERTY
  EveryIncludeEnds
