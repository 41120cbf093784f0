\* The same event twice, concurrently, to a remote destination and the lake;
\* one to a mock and to a connector that cannot encode it; one unrouted.
SPECIFICATION FairSpec
CONSTANTS
  r1 = r1
  r2 = r2
  r3 = r3
  r4 = r4
  eA = eA
  eB = eB
  eC = eC
  tA = tA
  tB = tB
  Absent = Absent
  Requests = {r1, r2, r3, r4}
  EventOf <- EventOfRequest
  TenantOf <- TenantOfRequest
  Rules <- Policies
  Destinations = {"siem", "ai_stream", "data_lake", "archive"}
  Pool = {"siem", "ai_stream", "data_lake"}
  Lake = "data_lake"
  Mock = {"siem"}
  Upsert = {"siem"}
  Invalid <- Unencodable
  MaxRetries = 2
  CacheSize = 3
  MaxFaults = 2
  MaxCrashes = 1
INVARIANTS
  ProcessedIsAccounted
  StatusTruthful
  CopiesExplained
PROPERTY
  EveryDeliverySettles
CHECK_DEADLOCK FALSE
