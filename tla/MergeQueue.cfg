CONSTANTS
  NbPRs = 2
  Supported = {"no-check", "force-check"}
  MaxTests = 2
SPECIFICATION Spec
INVARIANTS
  PassesForReason
  AskedIsQueued
  StopIsSilent
