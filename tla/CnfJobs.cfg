CONSTANTS
  App = App
  Extra = Extra
  Finite = Finite
  Unset = Unset
  None = None
  Tries = 1
  MaxActions = 3
  MaxChanges = 1
SPECIFICATION FairSpec
INVARIANTS
  TypeOK
  OkMeansPassed
  DrainVouchesForTraffic
  FactsHaveCauses
PROPERTIES
  ValidationTests
  ActionEnds
