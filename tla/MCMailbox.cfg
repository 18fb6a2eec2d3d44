SPECIFICATION MCSpec
CONSTANTS
  a1 = a1
  admin = admin
  None = None
  Addresses = {a1}
  Keys = {m1, m2}
  Actors = {admin}
  Reach <- MCReach
  Deliveries = {d1, d2}
  Requests = {r1, r2}
  MaxId = 2
  NumEffects = 2
INVARIANTS StoredOnce AcceptedIsKept EffectsOnce MarkOrigin
SYMMETRY Symmetric
CHECK_DEADLOCK FALSE
