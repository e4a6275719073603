SPECIFICATION Spec
CONSTANTS
  Owners = {o1, o2}
  Keys = {k1, k2}
  Connections = {c1, c2}
  Requests = {r1, r2}
  MaxGeneration = 2
  Ttl = 1
  MaxExecutions = 2
  NoOne = none
SYMMETRY MCSymmetry
INVARIANTS TypeOK ExclusiveBindings OnlyNewestActive
PROPERTIES EndedStaysEnded ExecutionsAreExclusive OnlyHolderMoves Implements
