SPECIFICATION MCSpec
CONSTANTS
  MaxUser = 2
  MaxLives = 2
  Emails = {e1, e2}
  NoEmail = NoEmail
  Addresses = {a1}
  Requests = {r1, r2, r3}
  Operations = {"delete", "role", "register"}
  DefaultRole = "member"
  MaxAddressCount = 1
  MaxPeople = 3
  MaxLinks = 2
  MaxKeys = 1
  MaxCount = 2
INVARIANTS AdminRowKept RoleOrigin GrantsDecide OpensOwnAccount AssertionOnce
SYMMETRY Symmetric
CHECK_DEADLOCK FALSE
