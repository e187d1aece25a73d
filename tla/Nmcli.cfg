SPECIFICATION Spec
CONSTANTS
  None = None
  Requests <- MCRequests
  Names = {"eth0", "bridge"}
  Uuids = {"u1", "u2", "u3", "u4"}
  Value = {1}
  MaxRuns = 3
  MaxOther = 1
INVARIANTS
  StatedStateReached
  UnchangedIsUntouched
  CheckModeForesees
  SecondRunConverges
  OneConnectionPerName
