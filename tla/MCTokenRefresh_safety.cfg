SPECIFICATION FairSpec
CONSTANTS
  p1 = p1
  p2 = p2
  acct1 = acct1
  acct2 = acct2
  group = group
  NoGroup = NoGroup
  NoConnection = NoConnection
  NoCaller = NoCaller
  Callers = {p1, p2}
  Groups = {group}
  Spacing = TRUE
  Connections = {acct1, acct2}
  GroupOf <- MCSiblings
  Direct = {acct2}
  Kinds <- MCKinds
  MaxRotations = 1
  Faults <- MCFaults
INVARIANTS TypeOK SiblingsPostAlone OneRefreshPerConnection AccountsSurvive
PROPERTY CallsReturn
CHECK_DEADLOCK FALSE
