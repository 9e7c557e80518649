CONSTANTS
  Conns = {c1, c2}
  Rids = {r1}
  Messages <- Several
  Resting <- OneResting
  MaxRequests = 2
  MaxForeign = 1
SYMMETRY Tabs
SPECIFICATION Spec
INVARIANTS TypeOK GuardIsExact OneAnswer CancelledIsTrue
PROPERTIES OwnFirst NoGuess
CHECK_DEADLOCK FALSE
