SPECIFICATION Spec
CONSTANTS
  Requests = {r1, r2, r3}
  Accounts <- MCAccounts
  KeyOrder <- MCKeyOrder
  KeySets <- MCKeySets
  Limits <- MCLimits
  QueueDepth = 2
  Blocks = {1}
SYMMETRY MCSymmetry
INVARIANTS TypeOK QueuesAgree WaitersHoldNothing PermitsAccounted NoIdleCapacity
PROPERTY NoOvertaking
