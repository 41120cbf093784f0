\* Two versions of one scope being verified at the same time.
SPECIFICATION Spec
CONSTANTS
  tA = tA
  tB = tB
  tBad = tBad
  e1 = e1
  e2 = e2
  Absent = Absent
  Calls = {1, 2}
  Event <- RacingEvents
  Modules <- AllModules
  BadTenants = {tBad}
  M4Importable = TRUE
  DefaultVersion <- V100
  MaxCalls = 2
  MaxOpen = 2
  MaxRestarts = 0
PROPERTY
  ActiveNeverOlder
CHECK_DEADLOCK FALSE
