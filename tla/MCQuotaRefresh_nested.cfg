SPECIFICATION FairSpec
CONSTANTS
  page = page
  inner = inner
  request = request
  group = group
  NoGroup = NoGroup
  NoCaller = NoCaller
  Callers = {page, inner, request}
  Groups = {group}
  Spacing = TRUE
  Quota = {page}
  InnerOf <- MCInnerOf
  GroupOf <- MCGroupOf
PROPERTY LaneFlows
CHECK_DEADLOCK FALSE
