SPECIFICATION FairSpec
CONSTANTS
  FailureThreshold = 2
  DegradationThreshold = 2
  HalfOpenRequests = 1
  ResetTimeout = 2
  MaxBackoffMultiplier = 2
  BackoffEscalationCount = 0
  Kinds <- MCNoKinds
  CooldownByKind <- MCNoKindCooldown
  KindThreshold <- MCNoKindCooldown
  CountCap = 2
  CycleCap = 1
  AgeCap = 4
  Requests = {r1, r2}
  Modes = {"single", "combo"}
  MaxAttempts = 1
  DedupWindow = 1
PROPERTY SpentProbesRecover
