SPECIFICATION Spec
CONSTANTS
  Requests = {r1, r2, r3}
  GateIds = {g1, g2, g3}
  Cap = 1
  DefaultCap = 3
  QueueDepth = 2
  Cooldowns = {1}
  Grace = 1
  MaxTimers = 2
SYMMETRY MCSymmetry
PROPERTY PauseHolds
