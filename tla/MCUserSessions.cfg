CONSTANTS
  Servers = {s1, s2}
  MaxOpens = 2
  Tabs = {t1, t2}
  MaxVisits = 2
  MaxLookups = 2
SPECIFICATION Spec
INVARIANTS TypeOK HoldersAreCounted OneLogin
PROPERTIES OnlyDeadUnheldReplaced UnheldEnds
CHECK_DEADLOCK FALSE
