SPECIFICATION Spec
CONSTANTS
  Requests = {r1, r2, r3, r4, r5}
  GateIds = {g1, g2, g3, g4}
  Cap = 2
  DefaultCap = 3
  QueueDepth = 3
  Cooldowns = {1, 2}
  Grace = 1
  MaxTimers = 3
SYMMETRY MCSymmetry
INVARIANTS TypeOK PermitsAccounted WaitersReachable WakeupPending
