\* Two threads, three requests of two tenants, a cache of two entries.
SPECIFICATION Spec
CONSTANTS
  t1 = t1
  t2 = t2
  a = a
  b = b
  shared = shared
  ip = ip
  evil = evil
  site = site
  v1 = v1
  v2 = v2
  None = None
  Versions = {v1, v2}
  DefaultVersion = v1
  Threads = {t1, t2}
  Tenants = {a, b, shared}
  Shared = shared
  Ids = {ip, evil, site}
  Requests <- MCRequests
  Contents <- MCContents
  Registry = {"asset", "geo", "threat", "http"}
  Namespace <- MCNamespace
  Fields = {"asset_id", "country", "verdict", "indicators"}
  Supplies <- MCSupplies
  Assets <- MCAssets
  Located = {ip}
  Malformed = {site}
  Indicators = {evil}
  MaxSize = 2
  MaxRequests = 3
  MaxTime = 1
INVARIANTS
  OneActive
  TenantIsolation
  HitsAreFresh
  StatusTruthful
