SPECIFICATION Spec
CONSTANTS
  MaxId = 2
  MaxLives = 2
  Emails = {e1, e2}
  NoEmail = NoEmail
  Addresses = {a1}
  Requests = {r1, r2}
  Operations = {"delete"}
  DefaultRole = "member"
  MaxAddressCount = 1
INVARIANT LastAdminKept
CHECK_DEADLOCK FALSE
