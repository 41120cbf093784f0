\* Three concurrent requests of any kind.
SPECIFICATION ParserSpec
CONSTANTS
  Global = "global"
  Tenants = {"A", "B"}
  Ids = {"asa", "any"}
  MaxVersion = 2
  MaxObjects = 3
  MaxPriority = 2
  Threads = {t1, t2, t3}
  Callers <- MCCallers
  Envelopes <- MCEnvelopes
  Definitions <- MCDefinitions
  Baseline <- MCBaseline
SYMMETRY Symmetry
INVARIANTS
  BestAvailable
  Isolated
  StoreSound
CHECK_DEADLOCK FALSE
