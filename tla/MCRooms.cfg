CONSTANTS
  r1 = r1  t1 = t1  w1 = w1  w2 = w2  ann = ann  bob = bob
  tabA = tabA  tabB = tabB  p = p  q = q  o = o
  Rooms = {r1}
  Tenants = {t1}
  TenantOf <- OnlyTenant
  Workers = {w1, w2}
  Modes = {"dry_run", "purge"}
  Retention = 1
  Lease = 1
  Backoff = 1
  BatchSize = 1
  MaxBatches = 2
  MaxFailures = 2
  Horizon = 2
  MaxMessages = 2
  MaxGeneration = 3
  MaxRuns = 2
  MaxClaims = 2
SPECIFICATION RoomsSpec
INVARIANTS TypesOK RetentionIsExact DeletionsAreCounted WhatIsShownIsTrue CodeIsKept LimitsHold
PROPERTIES PurgesAreLicensed StepsAreDeliberate
SYMMETRY Alike
CHECK_DEADLOCK FALSE
