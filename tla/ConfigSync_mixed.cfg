\* Two calls at a time and a restart of the worker.
SPECIFICATION Spec
CONSTANTS
  tA = tA
  tB = tB
  tBad = tBad
  e1 = e1
  e2 = e2
  Absent = Absent
  Calls = {1, 2, 3, 4, 5, 6, 7, 8, 9, 10, 11, 12, 13, 14, 15, 16, 17, 18, 19, 20, 21, 22}
  Event <- MixedEvents
  Modules <- AllModules
  BadTenants = {tBad}
  M4Importable = TRUE
  DefaultVersion <- V100
  MaxCalls = 3
  MaxOpen = 2
  MaxRestarts = 1
INVARIANTS
  BarWasApplied
  FileKeepsUp
PROPERTY
  AppliedIsNewer
CHECK_DEADLOCK FALSE
