\* Every choice of services, and of what they drop.
SPECIFICATION Spec
CONSTANTS
  Absent = Absent
  Unknown = Unknown
  Tenants = {"A", "B"}
  Credentials = {"keyA", "keyB", "stray"}
  Registry <- MCRegistry
INVARIANTS
  TenantKept
  EvidenceKept
  FailureTruthful
CHECK_DEADLOCK FALSE
