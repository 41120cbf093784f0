\* Two launches, --stop at any time, two failures.
SPECIFICATION FairStackSpec
CONSTANTS
  Infra <- MCInfra
  Containers <- MCContainers
  Services <- MCServices
  Frontends <- MCFrontends
  M1 = "M1"
  Bridge = "bridge"
  Polls = 1
  MaxTries = 1
  MaxRuns = 2
  MaxFaults = 2
INVARIANTS
  StartedInOrder
  NothingLeftBehind
  DeathsNoticed
PROPERTY
  LaunchSettles
CHECK_DEADLOCK FALSE
