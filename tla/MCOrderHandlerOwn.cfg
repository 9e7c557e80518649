CONSTANTS
  Conns = {c1, c2}
  Rids = {r1}
  Messages <- Several
  Resting <- OneResting
  MaxRequests = 2
  MaxForeign = 1
SYMMETRY Tabs
SPECIFICATION Spec
INVARIANT ResultIsOwn
CHECK_DEADLOCK FALSE
