SPECIFICATION Spec
CONSTANTS
  Passwords = {p1, p2}
  NoPassword = NoPassword
  Requests = {r1, r2}
  MaxId = 2
  MaxShares = 3
  OldExpiry = "later"
INVARIANT ChangeSignsOut
CHECK_DEADLOCK FALSE
