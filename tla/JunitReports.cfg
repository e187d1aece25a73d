CONSTANTS
  Broken = Broken
  None = None
  Left <- MCLeft
  Reports <- MCReports
  Expected <- MCExpected
  MaxInputs = 2
  MaxTests = 2
  MaxRoles = 2
SPECIFICATION JRSpec
INVARIANTS
  ListedIsWritten
  RunConverts
  FailsForCause
  VerdictIsExact
