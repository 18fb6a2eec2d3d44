SPECIFICATION MCSpec
CONSTANTS
  t1 = t1
  c1 = c1
  Tabs = {t1, t2}
  Calls = {c1, c2}
  MaxSessions = 2
  MaxLogouts = 1
  MaxVersions = 2
  MaxFaults = 1
  Items = {1, 2}
  Tasks = {k1, k2}
  NoTask = none
  MaxHides = 1
INVARIANTS LogoutHolds
PROPERTIES StoreSpec Settled CatchesUp
CHECK_DEADLOCK FALSE
