\* Three requests at a time.
SPECIFICATION Spec
CONSTANTS
  Absent = Absent
  p1 = p1
  m1 = m1
  s1 = s1
  Tenants <- MCTenants
  Users <- MCUsers
  Roles <- MCRoles
  Threads = {t1, t2, t3}
  Requests <- MCRequests
  InitialPks <- MCPks
  InitialUsers <- MCInitialUsers
  InitialTenants <- MCInitialTenants
  InitialRows <- MCInitialRows
SYMMETRY Symmetry
INVARIANTS
  AuthorityTraceable
  RolesExplained
  HistoryCurrent
  PublishedCurrent
PROPERTY
  TenantBoundary
CHECK_DEADLOCK FALSE
