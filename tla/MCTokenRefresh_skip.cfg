SPECIFICATION Spec
CONSTANTS
  p1 = p1
  p2 = p2
  acct1 = acct1
  acct2 = acct2
  group = group
  NoGroup = NoGroup
  NoConnection = NoConnection
  NoCaller = NoCaller
  Callers = {p1, p2}
  Groups = {group}
  Spacing = TRUE
  Connections = {acct1}
  GroupOf <- MCSiblings
  Direct = {}
  Kinds <- MCReactive
  MaxRotations = 2
  Faults <- MCNoFaults
PROPERTY SkippedPersistStaysSkipped
