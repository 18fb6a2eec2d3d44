SPECIFICATION MCSpec
CONSTANTS
  Addresses = {a1}
  Requests = {r1, r2}
  MaxDay = 2
  MonthOf <- MCMonthOf
  Configs <- MCConfigs
  DefaultBalance = 1
  Balances = {0, 1}
  MaxAdminOps = 2
  Clients = {c1}
  Settings <- MCSettings
  NoConfig = NoConfig
  MaxSaves = 1
  None = None
  Logins = {r1, r2, l1, l2}
  Ips = {i1}
  Accounts = {u1, u2}
  Limit = 2
  Window = 2
  Keep = 2
  MaxTime = 4
INVARIANTS LimitHeld NoSlotLost NoOverdraft WindowBound RefusedForRecent DailyHeld
SYMMETRY Symmetric
CHECK_DEADLOCK FALSE
