SPECIFICATION FairSpec
CONSTANTS
  FailureThreshold = 3
  DegradationThreshold = 2
  HalfOpenRequests = 1
  ResetTimeout = 2
  MaxBackoffMultiplier = 2
  BackoffEscalationCount = 1
  Kinds <- MCKinds
  CooldownByKind <- MCCooldownByKind
  KindThreshold <- MCNoKindThreshold
  CountCap = 4
  CycleCap = 2
  AgeCap = 4
  Requests = {r1, r2}
  Modes = {"single", "combo", "pinned"}
  MaxAttempts = 1
  DedupWindow = 1
INVARIANTS TypeOK ThresholdBands ProbeBound DurableStateAgrees
PROPERTIES OpenCools ClosesOnEvidence EscalationForgottenOnlyByClose ComboFailureKeepsCooldown
