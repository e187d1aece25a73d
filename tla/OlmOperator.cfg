SPECIFICATION Spec
CONSTANTS
  testpmd = testpmd
  trex = trex
  None = None
  Operators <- MCOperators
  MaxVersion = 2
  Requests <- MCRequests
  Tries <- MCTries
  MaxRuns = 2
INVARIANTS
  TypeOK
  OkMeansApproved
PROPERTIES
  ImplementsLifecycle
  ManualHolds
