SPECIFICATION Spec
CONSTANTS
  Tabs = {t1, t2}
  Calls = {c1}
  MaxSessions = 1
  MaxLogouts = 0
  MaxVersions = 1
  MaxFaults = 0
INVARIANTS SessionLasts
CHECK_DEADLOCK FALSE
