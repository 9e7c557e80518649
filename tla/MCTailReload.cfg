CONSTANTS
  Callers = {c1, c2, c3}
  MaxVersion = 2
SPECIFICATION ReloadSpec
INVARIANTS ReloadTypeOK FreshReload
PROPERTY EveryCallSettles
CHECK_DEADLOCK FALSE
