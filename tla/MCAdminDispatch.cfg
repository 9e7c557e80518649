CONSTANTS
  s1 = s1
  s2 = s2
  a1 = a1
  a2 = a2
  r1 = r1
  r2 = r2
  v1 = v1
  v2 = v2
  Absent = Absent
  Servers = {s1, s2}
  Accounts = {a1, a2}
  Values = {v1, v2}
  FirstRows <- AtFirst
  FirstValues <- AllAlike
  Puts <- PutSome
  Foreign <- ForeignOnSecond
  Calls = {r1, r2}
  MaxMishaps = 1
SYMMETRY CallsAlike
SPECIFICATION Spec
INVARIANTS TypeOK CommandsAreHeld ResultsAreTrue
PROPERTY DeleteIsTold
CHECK_DEADLOCK FALSE
