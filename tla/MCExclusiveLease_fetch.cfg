SPECIFICATION Spec
CONSTANTS
  Owners = {o1, o2}
  Keys = {k1}
  Connections = {c1}
  Requests = {r1, r2}
  MaxGeneration = 2
  Ttl = 1
  MaxExecutions = 2
  NoOne = none
PROPERTY FetchesAreExclusive
