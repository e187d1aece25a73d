CONSTANTS
  Machines = {m1, m2, m3, m4}
  Hosts = {h1, h2, h3}
  Sets = {A, B}
  First = A
  Tries = 1
  MaxRuns = 2
  MaxChanges = 1
  None = None
  Gone = Gone
SPECIFICATION Spec
SYMMETRY NamesSymmetry
INVARIANTS
  UnaskedSurvive
  UndisturbedIsExact
CHECK_DEADLOCK FALSE
