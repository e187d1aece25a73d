SPECIFICATION FairSpec
CONSTANTS
  None = None
  Nodes = {n1, n2, n3}
  MaxPods = 3
  Tries = 1
  MaxRuns = 2
INVARIANTS
  PassMeansMoved
  CordonsOnlyByFailures
PROPERTIES
  NoEvictionAfterPass
  TestEnds
