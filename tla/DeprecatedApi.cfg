SPECIFICATION FairSpec
CONSTANTS
  Apis = {"events", "flowschemas"}
  K8sReleases = {22, 25, 26, 29}
  Currents = {8, 9, 11, 12}
  MaxNamespaces = 2
  MaxRuns = 2
CHECK_DEADLOCK FALSE
INVARIANTS
  CompatibleIsExact
  LimitIsSound
  LimitIsHighest
  AcceptedIsCompatible
PROPERTY
  FilterReturns
