SPECIFICATION Spec
CONSTANTS
  Requests = {r1, r2}
  Versions = {16}
  Direct = {d1}
  Links = {l1}
INVARIANT AccessRowsKept
CHECK_DEADLOCK FALSE
