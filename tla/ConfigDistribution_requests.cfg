\* Two concurrent requests to two parsers, with failures.
SPECIFICATION FairSpec
CONSTANTS
  p1 = p1
  p2 = p2
  Sessions = {s1, s2}
  Parsers = {p1, p2}
  Databases <- MCDatabases
  None = None
  MaxVersion = 2
  MaxRetries = 2
  MaxOpen = 2
  MaxFaults = 1
INVARIANTS
  AckTruthful
  RedisCurrent
PROPERTIES
  NothingLost
  EveryRequestEnds
CHECK_DEADLOCK FALSE
