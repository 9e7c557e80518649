CONSTANTS
  s1 = s1
  s2 = s2
  Servers = {s1, s2}
  Addresses = {1, 2}
  Requests = {r1, r2}
  FirstRows <- RowsAtStart
  MaxEdits = 2
  MaxFaults = 2
  MaxRejects = 1
SPECIFICATION Spec
INVARIANTS TypeOK FeedIsDriven ApartOnlyIfMissed
PROPERTIES SwitchesEnd
CHECK_DEADLOCK FALSE
