SPECIFICATION FairSpec
CONSTANTS
  e1 = e1
  e2 = e2
  e3 = e3
  Events = {e1, e2, e3}
  Malformed = {e2}
  Rejected = {e3}
  Capacity = 2
  MaxRetries = 1
  MaxLog = 4
  MaxFaults = 2
INVARIANTS
  LossOnlyAfterGivingUp
  RepeatsExplained
PROPERTY
  EverySettled
CHECK_DEADLOCK FALSE
