SPECIFICATION MCSpec
CONSTANTS
  Passwords = {p1, p2}
  NoPassword = NoPassword
  Requests = {r1, r2, r3}
  MaxId = 2
  MaxShares = 3
  OldExpiry = "later"
  MaxGens = 3
  MaxCodes = 2
  NoEmail = NoEmail
  Places = {a1, a2}
INVARIANTS PasswordIsLatest LoginFresh OlderReplaced SentCodeWorks LoginIsCurrent SignedInStays BindingOrigin
PROPERTIES StaysRevoked
SYMMETRY Symmetric
CHECK_DEADLOCK FALSE
