SPECIFICATION MCSpec
CONSTANTS
  Requests = {r1, r2, r3}
  Versions = {0, 7, 12, 16, 21}
  Direct = {d1}
  Links = {}
  Modes = {"cloudflare_email", "improvmx_forward"}
  Zones = {z1}
  NoZone = NoZone
  EnvModes = {"cloudflare_email"}
  MaxTokens = 1
  MaxVersion = 5
INVARIANTS VersionMeansComplete AloneSucceeds ActiveIsProven
PROPERTY DisableHolds
SYMMETRY Symmetric
CHECK_DEADLOCK FALSE
