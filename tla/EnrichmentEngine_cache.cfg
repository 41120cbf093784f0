\* One thread, two events: what the first left in the cache answers the second.
SPECIFICATION Spec
CONSTANTS
  t1 = t1
  t2 = t2
  a = a
  b = b
  shared = shared
  ip = ip
  evil = evil
  site = site
  v1 = v1
  v2 = v2
  None = None
  Versions = {v1, v2}
  DefaultVersion = v2
  Threads = {t1}
  Tenants = {a, b, shared}
  Shared = shared
  Ids = {ip, evil, site}
  Requests <- SiteRequests
  Contents <- MCContents
  Registry = {"asset", "geo", "threat"}
  Namespace <- MCNamespace
  Fields = {"asset_id", "country", "verdict", "indicators"}
  Supplies <- MCSupplies
  Assets <- MCAssets
  Located = {ip}
  Malformed = {site}
  Indicators = {evil}
  MaxSize = 2
  MaxRequests = 2
  MaxTime = 1
INVARIANT
  VerdictFitsEvent
